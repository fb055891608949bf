--------------------------- MODULE ConfigFiles_proofs ---------------------------
(***************************************************************************)
(* Proofs about the three line parsers of ConfigFiles, for texts of any    *)
(* length over any lines.  Each parser's fields are shown to be, after     *)
(* every line, what the text so far says of the section, device or rule    *)
(* that is still open; what is finished is out of reach of later lines.    *)
(***************************************************************************)
EXTENDS ConfigFiles, SequenceTheorems, NaturalsInduction, WellFoundedInduction, TLAPS

USE DEF vars, config, device, rule
-----------------------------------------------------------------------------
(***************************************************************************)
(* The first and the last of a set of lines.                               *)
(***************************************************************************)
LEMMA LeastLine ==
  ASSUME NEW S, S \subseteq Nat, S # {}
  PROVE  \E x \in S : \A y \in S : x <= y
<1>. DEFINE R == OpToRel(<, Nat)
<1>1. IsWellFoundedOn(R, Nat)
  BY NatLessThanWellFounded
<1>2. \A x, y \in Nat : x < y => <<x, y>> \in R
  BY DEF R, OpToRel
<1>. HIDE DEF R
<1>3. PICK x \in S : \A y \in S : ~ (<<y, x>> \in R)
  BY <1>1, WFMin
<1>4. \A y \in S : ~ (y < x)
  BY <1>2, <1>3
<1>5. \A y \in S : x <= y
  BY <1>4
<1>. QED
  BY <1>5

\* The greatest is as far from the bound as the least of the distances.
LEMMA GreatestLine ==
  ASSUME NEW n \in Nat, NEW S, S \subseteq 0..n, S # {}
  PROVE  \E x \in S : \A y \in S : y <= x
<1>. DEFINE D == {n - x : x \in S}
<1>1. D \subseteq Nat
  BY SMT
<1>2. D # {}
  OBVIOUS
<1>. HIDE DEF D
<1>3. PICK d \in D : \A e \in D : d <= e
  BY <1>1, <1>2, LeastLine
<1>4. PICK x \in S : d = n - x
  BY <1>3 DEF D
<1>5. \A y \in S : n - y \in D
  BY DEF D
<1>6. \A y \in S : n - x <= n - y
  BY <1>3, <1>4, <1>5
<1>7. \A y \in S : y \in 0..n
  OBVIOUS
<1>8. \A y \in S : y <= x
  BY <1>4, <1>6, <1>7
<1>. QED
  BY <1>8

\* A set of lines of a text of n lines.
Within(S, n) == S \subseteq 1..n

LEMMA LastOfIs ==
  ASSUME NEW n \in Nat, NEW S, Within(S, n)
  PROVE  /\ LastOf(S) \in 0..n
         /\ LastOf(S) = 0 <=> S = {}
         /\ S # {} => LastOf(S) \in S
         /\ \A x \in S : x <= LastOf(S)
<1>1. CASE S = {}
  BY <1>1 DEF LastOf
<1>2. CASE S # {}
  <2>1. S \subseteq 0..n
    BY DEF Within
  <2>2. \E x \in S : \A y \in S : y <= x
    BY <1>2, <2>1, GreatestLine
  <2>3. LastOf(S) \in S /\ \A y \in S : y <= LastOf(S)
    BY <1>2, <2>2 DEF LastOf
  <2>4. LastOf(S) \in 1..n
    BY <2>3 DEF Within
  <2>. QED
    BY <1>2, <2>3, <2>4
<1>. QED
  BY <1>1, <1>2

LEMMA LastOfEquals ==
  ASSUME NEW n \in Nat, NEW S, Within(S, n), NEW x \in S, \A y \in S : y <= x
  PROVE  LastOf(S) = x
<1>1. LastOf(S) \in S /\ x <= LastOf(S)
  BY LastOfIs
<1>2. LastOf(S) \in 1..n /\ x \in 1..n /\ LastOf(S) <= x
  BY <1>1 DEF Within
<1>. QED
  BY <1>1, <1>2

LEMMA FirstOfIs ==
  ASSUME NEW S, S \subseteq Nat, NEW other
  PROVE  /\ S = {} => FirstOf(S, other) = other
         /\ S # {} => FirstOf(S, other) \in S /\ \A x \in S : FirstOf(S, other) <= x
<1>1. CASE S = {}
  BY <1>1 DEF FirstOf
<1>2. CASE S # {}
  <2>1. \E x \in S : \A y \in S : x <= y
    BY <1>2, LeastLine
  <2>. QED
    BY <1>2, <2>1 DEF FirstOf
<1>. QED
  BY <1>1, <1>2

\* A line added at the end is the next of nothing but what had no next; a line
\* that is not in the set changes nothing.
LEMMA FirstOfGrows ==
  ASSUME NEW n \in Nat, NEW S, Within(S, n), NEW i \in 0..n
  PROVE  /\ FirstOf(After(i, S \cup {n + 1}), n + 2) = FirstOf(After(i, S), n + 1)
         /\ After(i, S) # {} => FirstOf(After(i, S), n + 2) = FirstOf(After(i, S), n + 1)
<1>. DEFINE A == After(i, S)
            B == After(i, S \cup {n + 1})
<1>1. A \subseteq 1..n /\ B = A \cup {n + 1}
  <2>1. \A x \in S : x \in 1..n
    BY DEF Within
  <2>2. n + 1 > i
    OBVIOUS
  <2>. QED
    BY <2>1, <2>2 DEF After
<1>. HIDE DEF A, B
<1>0. (\A x \in A : x \in Nat /\ x <= n) /\ A \subseteq Nat /\ B \subseteq Nat
  BY <1>1
<1>2. FirstOf(B, n + 2) \in B /\ \A x \in B : FirstOf(B, n + 2) <= x
  BY <1>0, <1>1, FirstOfIs
<1>3. CASE A = {}
  <2>1. FirstOf(A, n + 1) = n + 1
    BY <1>0, <1>1, <1>3, FirstOfIs
  <2>2. FirstOf(B, n + 2) = n + 1
    BY <1>0, <1>1, <1>2, <1>3
  <2>. QED
    BY <1>3, <2>1, <2>2 DEF A, B
<1>4. CASE A # {}
  <2>1. FirstOf(A, n + 1) \in A /\ \A x \in A : FirstOf(A, n + 1) <= x
    BY <1>0, <1>1, <1>4, FirstOfIs
  <2>2. FirstOf(A, n + 2) \in A /\ \A x \in A : FirstOf(A, n + 2) <= x
    BY <1>0, <1>1, <1>4, FirstOfIs
  <2>3. FirstOf(B, n + 2) = FirstOf(A, n + 1)
    <3>1. \A x, y \in A : x <= y /\ y <= x => x = y
      BY <1>0
    <3>2. FirstOf(B, n + 2) # n + 1
      <4>1. FirstOf(A, n + 1) \in B /\ FirstOf(A, n + 1) \in Nat /\ FirstOf(A, n + 1) <= n
        BY <1>0, <1>1, <2>1
      <4>2. FirstOf(B, n + 2) <= FirstOf(A, n + 1)
        BY <1>2, <4>1
      <4>. QED
        BY <4>1, <4>2
    <3>3. FirstOf(B, n + 2) \in A
      BY <1>1, <1>2, <3>2
    <3>. QED
      BY <1>1, <1>2, <2>1, <3>1, <3>3
  <2>4. FirstOf(A, n + 2) = FirstOf(A, n + 1)
    <3>1. \A x, y \in A : x <= y /\ y <= x => x = y
      BY <1>0
    <3>. QED
      BY <2>1, <2>2, <3>1
  <2>. QED
    BY <2>3, <2>4 DEF A, B
<1>. QED
  BY <1>3, <1>4
-----------------------------------------------------------------------------
(***************************************************************************)
(* What one more line changes in a text, and what not.                     *)
(***************************************************************************)
Lines == ConfigLines \cup DeviceLines \cup RuleLines

\* t is the n lines of s and then line.
Grows(s, t, n, line) ==
  /\ n \in Nat /\ Len(s) = n /\ Len(t) = n + 1
  /\ DOMAIN s = 1..n /\ DOMAIN t = 1..(n + 1)
  /\ t[n + 1] = line /\ \A x \in 1..n : t[x] = s[x]

LEMMA AppendGrows ==
  ASSUME NEW X, NEW s \in Seq(X), NEW line \in X
  PROVE  Grows(s, Append(s, line), Len(s), line) /\ Append(s, line) \in Seq(X)
BY AppendProperties, LenProperties DEF Grows

LEMMA ValueStays ==
  ASSUME NEW s, NEW t, NEW n, NEW line, Grows(s, t, n, line)
  PROVE  /\ \A i \in 0..n : ValueOf(t, i) = ValueOf(s, i)
         /\ ValueOf(t, n + 1) = IF line.kind = "bare" THEN 0 ELSE n + 1
<1>1. ASSUME NEW i \in 0..n PROVE ValueOf(t, i) = ValueOf(s, i)
  <2>1. CASE i = 0
    BY <2>1 DEF ValueOf
  <2>2. CASE i # 0
    <3>1. t[i] = s[i]
      BY <2>2 DEF Grows
    <3>. QED
      BY <3>1 DEF ValueOf
  <2>. QED
    BY <2>1, <2>2
<1>2. n + 1 # 0 /\ t[n + 1] = line
  BY DEF Grows
<1>. QED
  BY <1>1, <1>2 DEF ValueOf

LEMMA FieldStays ==
  ASSUME NEW s, NEW t, NEW n, NEW line, Grows(s, t, n, line),
         NEW key, NEW S, Within(S, n)
  PROVE  FieldOf(t, key, S) = FieldOf(s, key, S)
<1>1. Keyed(t, key, S) = Keyed(s, key, S) /\ Within(Keyed(s, key, S), n) /\ n \in Nat
  BY DEF Keyed, Grows, Within
<1>2. LastOf(Keyed(s, key, S)) \in 0..n
  BY <1>1, LastOfIs
<1>. QED
  BY <1>1, <1>2, ValueStays DEF FieldOf

LEMMA FieldNext ==
  ASSUME NEW s, NEW t, NEW n, NEW line, Grows(s, t, n, line),
         NEW key, NEW S, Within(S, n)
  PROVE  /\ line.key # key => FieldOf(t, key, S \cup {n + 1}) = FieldOf(s, key, S)
         /\ line.key = key =>
              FieldOf(t, key, S \cup {n + 1}) = IF line.kind = "bare" THEN 0 ELSE n + 1
<1>. DEFINE K == Keyed(t, key, S \cup {n + 1})
<1>1. n \in Nat /\ n + 1 \in Nat /\ t[n + 1] = line
  BY DEF Grows
<1>2. CASE line.key # key
  <2>1. K = Keyed(t, key, S)
    BY <1>1, <1>2 DEF Keyed
  <2>2. FieldOf(t, key, S \cup {n + 1}) = FieldOf(t, key, S)
    BY <2>1 DEF FieldOf
  <2>3. FieldOf(t, key, S) = FieldOf(s, key, S)
    BY FieldStays
  <2>. QED
    BY <1>2, <2>2, <2>3
<1>3. CASE line.key = key
  <2>1. n + 1 \in K /\ K \subseteq S \cup {n + 1}
    BY <1>1, <1>3 DEF Keyed
  <2>2. \A y \in S \cup {n + 1} : y \in 1..(n + 1) /\ y <= n + 1
    BY <1>1 DEF Within
  <2>3. LastOf(K) = n + 1
    <3>. HIDE DEF K
    <3>1. Within(K, n + 1) /\ \A y \in K : y <= n + 1
      BY <2>1, <2>2 DEF Within
    <3>. QED
      BY <1>1, <2>1, <3>1, LastOfEquals
  <2>4. FieldOf(t, key, S \cup {n + 1}) = ValueOf(t, n + 1)
    BY <2>3 DEF FieldOf
  <2>. QED
    BY <1>3, <2>4, ValueStays
<1>. QED
  BY <1>2, <1>3

Followed(S, i) == \E x \in S : x > i

LEMMA NextIs ==
  ASSUME NEW s, NEW n \in Nat, Len(s) = n, NEW S, Within(S, n), NEW i \in 0..n
  PROVE  /\ NextOf(s, i, S) \in 1..(n + 1) /\ NextOf(s, i, S) > i
         /\ \A x \in S : x > i => NextOf(s, i, S) <= x
         /\ (\A x \in S : x <= i) => NextOf(s, i, S) = n + 1
         /\ Followed(S, i) => NextOf(s, i, S) \in S
<1>. DEFINE A == After(i, S)
<1>1. NextOf(s, i, S) = FirstOf(A, n + 1)
  BY DEF NextOf
<1>2. (\A x \in S : x \in 1..n /\ x \in Nat) /\ i \in Nat /\ i < n + 1
  BY DEF Within
<1>3. \A x : x \in A <=> x \in S /\ x > i
  BY DEF After
<1>. HIDE DEF A
<1>4. A \subseteq Nat
  BY <1>2, <1>3
<1>5. CASE A = {}
  <2>1. FirstOf(A, n + 1) = n + 1
    BY <1>4, <1>5, FirstOfIs
  <2>2. \A x \in S : ~ (x > i)
    BY <1>3, <1>5
  <2>. QED
    BY <1>1, <1>2, <2>1, <2>2 DEF Followed
<1>6. CASE A # {}
  <2>1. FirstOf(A, n + 1) \in A /\ \A x \in A : FirstOf(A, n + 1) <= x
    BY <1>4, <1>6, FirstOfIs
  <2>2. PICK m \in S : m = FirstOf(A, n + 1) /\ m > i /\ m \in 1..n /\ m \in Nat
    BY <1>2, <1>3, <2>1
  <2>3. ~ \A x \in S : x <= i
    BY <1>2, <2>2
  <2>. QED
    BY <1>1, <1>2, <1>3, <2>1, <2>2, <2>3
<1>. QED
  BY <1>5, <1>6

LEMMA NextStays ==
  ASSUME NEW s, NEW t, NEW n, NEW line, Grows(s, t, n, line),
         NEW S, Within(S, n), NEW i \in 0..n
  PROVE  /\ NextOf(t, i, S \cup {n + 1}) = NextOf(s, i, S)
         /\ Followed(S, i) => NextOf(t, i, S) = NextOf(s, i, S)
<1>1. n \in Nat /\ Len(s) + 1 = n + 1 /\ Len(t) + 1 = n + 2
  BY DEF Grows
<1>2. Followed(S, i) => After(i, S) # {}
  BY DEF After, Followed
<1>. QED
  BY <1>1, <1>2, FirstOfGrows DEF NextOf

LEMMA KeyedNext ==
  ASSUME NEW s, NEW t, NEW n, NEW line, Grows(s, t, n, line), NEW key
  PROVE  /\ Within(Keyed(s, key, DOMAIN s), n)
         /\ line.key = key => Keyed(t, key, DOMAIN t) = Keyed(s, key, DOMAIN s) \cup {n + 1}
         /\ line.key # key => Keyed(t, key, DOMAIN t) = Keyed(s, key, DOMAIN s)
<1>1. n \in Nat /\ DOMAIN t = (1..n) \cup {n + 1} /\ DOMAIN s = 1..n
  BY DEF Grows
<1>2. \A x \in 1..n : t[x].key = key <=> s[x].key = key
  BY DEF Grows
<1>3. t[n + 1] = line
  BY DEF Grows
<1>. QED
  BY <1>1, <1>2, <1>3 DEF Keyed, Within

LEMMA IdsNext ==
  ASSUME NEW s, NEW t, NEW n, NEW line, Grows(s, t, n, line)
  PROVE  /\ Within(IdLines(s), n) /\ Within(Named(s), n) /\ Named(s) \subseteq IdLines(s)
         /\ line.key = "id" => IdLines(t) = IdLines(s) \cup {n + 1}
         /\ line.key # "id" => IdLines(t) = IdLines(s) /\ Named(t) = Named(s)
         /\ line.key = "id" /\ line.kind = "pair" => Named(t) = Named(s) \cup {n + 1}
         /\ line.kind # "pair" => Named(t) = Named(s)
<1>1. /\ Within(IdLines(s), n)
      /\ line.key = "id" => IdLines(t) = IdLines(s) \cup {n + 1}
      /\ line.key # "id" => IdLines(t) = IdLines(s)
  BY KeyedNext DEF IdLines
<1>2. /\ n \in Nat /\ t[n + 1] = line
      /\ \A x \in 1..n : t[x].kind = "pair" <=> s[x].kind = "pair"
  BY DEF Grows
<1>3. \A x \in IdLines(s) : t[x].kind = "pair" <=> s[x].kind = "pair"
  BY <1>1, <1>2 DEF Within
<1>4. Named(s) \subseteq IdLines(s) /\ Within(Named(s), n)
  BY <1>1 DEF Named, Within
<1>. QED
  BY <1>1, <1>2, <1>3, <1>4 DEF Named

\* The lines before one are the same in both.
LEMMA BeforeIs ==
  ASSUME NEW n \in Nat, NEW S, Within(S, n), NEW i \in 1..(n + 1)
  PROVE  /\ Before(i, S \cup {n + 1}) = Before(i, S) /\ Within(Before(i, S), n)
         /\ LastOf(Before(i, S)) \in 0..n /\ LastOf(Before(i, S)) < i
         /\ LastOf(Before(i, S)) # 0 => LastOf(Before(i, S)) \in S
         /\ \A x \in S : x < i => x <= LastOf(Before(i, S))
<1>1. \A x \in S : x \in 1..n /\ x \in Nat
  BY DEF Within
<1>2. \A x : x \in Before(i, S) <=> x \in S /\ x < i
  BY DEF Before
<1>3. Before(i, S \cup {n + 1}) = Before(i, S)
  BY DEF Before
<1>4. Within(Before(i, S), n)
  BY <1>1, <1>2 DEF Within
<1>5. /\ LastOf(Before(i, S)) \in 0..n
      /\ LastOf(Before(i, S)) = 0 <=> Before(i, S) = {}
      /\ Before(i, S) # {} => LastOf(Before(i, S)) \in Before(i, S)
      /\ \A x \in Before(i, S) : x <= LastOf(Before(i, S))
  BY <1>4, LastOfIs
<1>6. LastOf(Before(i, S)) # 0 => LastOf(Before(i, S)) \in S /\ LastOf(Before(i, S)) < i
  BY <1>2, <1>5
<1>. QED
  BY <1>2, <1>3, <1>4, <1>5, <1>6
-----------------------------------------------------------------------------
(***************************************************************************)
(* LoadDevicesFromFile.  After n lines the fields are the device that is   *)
(* still open, or the protocol that waits for one; the devices registered  *)
(* are all the others.                                                     *)
(***************************************************************************)
OpenStart(s, n, id) == BlockStart(s, IF id # 0 THEN id ELSE n + 1)

ListsAllBut(s, list, id) ==
  /\ \A k \in DOMAIN list : list[k].id \in Named(s) /\ list[k].id # id
  /\ \A d \in Named(s) : d # id => \E k \in DOMAIN list : list[k].id = d
  /\ \A j, k \in DOMAIN list : j < k => list[j].id < list[k].id

DevicesRight(s, n, ds, id, proto) ==
  /\ id = ValueOf(s, LastOf(IdLines(s)))
  /\ proto = FieldOf(s, "protocol", OpenStart(s, n, id)..n)
  /\ ListsAllBut(s, ds, id)
  /\ \A k \in DOMAIN ds : ds[k].protocol = ProtocolOf(s, ds[k].id)

\* The open device is the last id line, unless that one is empty.
LEMMA LastId ==
  ASSUME NEW s, NEW n \in Nat, Within(IdLines(s), n),
         \A i \in IdLines(s) : s[i].kind \in {"pair", "bare"},
         NEW id, id = ValueOf(s, LastOf(IdLines(s)))
  PROVE  /\ id # 0 => id \in Named(s) /\ id = LastOf(IdLines(s)) /\ id \in 1..n
         /\ \A d \in Named(s) : d # id => d < LastOf(IdLines(s)) /\ d # 0
         /\ id = 0 => 0 \notin Named(s)
<1>. DEFINE last == LastOf(IdLines(s))
<1>1. /\ last \in 0..n /\ (last = 0 <=> IdLines(s) = {}) /\ (last # 0 => last \in IdLines(s))
      /\ \A x \in IdLines(s) : x <= last
  BY LastOfIs
<1>2. \A x \in IdLines(s) : x \in 1..n /\ x \in Nat /\ x # 0
  BY DEF Within
<1>3. \A x : x \in Named(s) <=> x \in IdLines(s) /\ s[x].kind = "pair"
  BY DEF Named
<1>. HIDE DEF last
<1>4. id = IF last = 0 THEN 0 ELSE IF s[last].kind = "bare" THEN 0 ELSE last
  BY DEF last, ValueOf
<1>5. id # 0 => id = last /\ last \in Named(s) /\ id \in 1..n
  BY <1>1, <1>2, <1>3, <1>4
<1>6. ASSUME NEW d \in Named(s), d # id PROVE d < last /\ d # 0
  <2>1. d \in IdLines(s) /\ d <= last /\ d \in Nat /\ d # 0 /\ last \in Nat
    BY <1>1, <1>2, <1>3, <1>6
  <2>2. d # last
    BY <1>3, <1>4, <1>6, <2>1
  <2>. QED
    BY <2>1, <2>2
<1>. QED
  BY <1>2, <1>3, <1>5, <1>6 DEF last

\* The lines before a device are its own from the end of the device before.
LEMMA BlockStartStays ==
  ASSUME NEW s, NEW t, NEW n \in Nat, NEW line, Grows(s, t, n, line), NEW d \in 1..(n + 1),
         \/ line.key = "id"
         \/ Followed(IdLines(s), LastOf(Before(d, Named(s))))
         \/ LastOf(Before(d, Named(s))) = 0
  PROVE  BlockStart(t, d) = BlockStart(s, d) /\ BlockStart(s, d) \in 1..(n + 1)
<1>. DEFINE p == LastOf(Before(d, Named(s)))
<1>1. Len(s) = n
  BY DEF Grows
<1>2. PICK I, J, N, M : I = IdLines(s) /\ J = IdLines(t) /\ N = Named(s) /\ M = Named(t)
  OBVIOUS
<1>3. /\ Within(I, n) /\ Within(N, n)
      /\ line.key = "id" => J = I \cup {n + 1}
      /\ line.key # "id" => J = I
      /\ M = N \/ M = N \cup {n + 1}
  <2>1. /\ Within(I, n) /\ Within(N, n)
        /\ line.key = "id" => J = I \cup {n + 1}
        /\ line.key # "id" => J = I /\ M = N
        /\ line.key = "id" /\ line.kind = "pair" => M = N \cup {n + 1}
        /\ line.kind # "pair" => M = N
    BY <1>2, IdsNext
  <2>. QED
    BY <2>1
<1>4. Before(d, M) = Before(d, N) /\ p \in 0..n
  BY <1>2, <1>3, BeforeIs
<1>5. /\ BlockStart(s, d) = IF p = 0 THEN 1 ELSE NextOf(s, p, I)
      /\ BlockStart(t, d) = IF p = 0 THEN 1 ELSE NextOf(t, p, J)
  BY <1>2, <1>4 DEF BlockStart
<1>6. \/ line.key = "id" \/ Followed(I, p) \/ p = 0
  BY <1>2
<1>. HIDE DEF p
<1>7. /\ NextOf(t, p, I \cup {n + 1}) = NextOf(s, p, I)
      /\ Followed(I, p) => NextOf(t, p, I) = NextOf(s, p, I)
  BY <1>3, <1>4, NextStays
<1>8. NextOf(s, p, I) \in 1..(n + 1)
  BY <1>1, <1>3, <1>4, NextIs
<1>. QED
  BY <1>3, <1>5, <1>6, <1>7, <1>8

\* Nothing that follows the next id changes a device's protocol.
LEMMA ProtocolStays ==
  ASSUME NEW s, NEW t, NEW n \in Nat, NEW line, Grows(s, t, n, line), NEW d \in Named(s),
         line.key = "id" \/ Followed(IdLines(s), d)
  PROVE  ProtocolOf(t, d) = ProtocolOf(s, d)
<1>1. Len(s) = n
  BY DEF Grows
<1>2. PICK I, J : I = IdLines(s) /\ J = IdLines(t)
  OBVIOUS
<1>3. /\ Within(I, n) /\ Within(Named(s), n) /\ Named(s) \subseteq I
      /\ line.key = "id" => J = I \cup {n + 1}
      /\ line.key # "id" => J = I
  BY <1>2, IdsNext
<1>4. d \in 1..n /\ d \in 0..n /\ d \in 1..(n + 1) /\ d \in I
  BY <1>3 DEF Within
<1>5. LastOf(Before(d, Named(s))) < d
  BY <1>3, <1>4, BeforeIs
<1>6. PICK b : b = BlockStart(s, d)
  OBVIOUS
<1>7. BlockStart(t, d) = b /\ b \in 1..(n + 1)
  BY <1>2, <1>4, <1>5, <1>6, BlockStartStays DEF Followed
<1>8. PICK e : e = NextOf(s, d, I)
  OBVIOUS
<1>9. /\ NextOf(t, d, I \cup {n + 1}) = e
      /\ Followed(I, d) => NextOf(t, d, I) = e
  BY <1>3, <1>4, <1>8, NextStays
<1>10. e \in 1..(n + 1)
  BY <1>1, <1>3, <1>4, <1>8, NextIs
<1>11. NextOf(t, d, J) = e
  BY <1>2, <1>3, <1>9
<1>12. ProtocolOf(s, d) = FieldOf(s, "protocol", b..(e - 1))
       /\ ProtocolOf(t, d) = FieldOf(t, "protocol", b..(e - 1))
  BY <1>2, <1>6, <1>7, <1>8, <1>11 DEF ProtocolOf
<1>13. Within(b..(e - 1), n)
  BY <1>7, <1>10 DEF Within
<1>. QED
  BY <1>12, <1>13, FieldStays

\* flush: the open device is registered with its protocol.
Flushed(ds, id, proto) == IF id = 0 THEN ds ELSE Append(ds, [id |-> id, protocol |-> proto])
DeviceType == [id : Nat, protocol : Nat]

\* A list of all but the open one, and then that one, is a list of all.
LEMMA ListsAll ==
  ASSUME NEW s, NEW n \in Nat, Within(IdLines(s), n),
         \A i \in IdLines(s) : s[i].kind \in {"pair", "bare"},
         NEW id, id = ValueOf(s, LastOf(IdLines(s))),
         NEW X, NEW list \in Seq(X), ListsAllBut(s, list, id),
         NEW all, NEW r, r.id = id,
         all = IF id = 0 THEN list ELSE Append(list, r)
  PROVE  ListsTheNamed(s, all)
<1>1. /\ id # 0 => id \in Named(s) /\ id = LastOf(IdLines(s)) /\ id \in 1..n
      /\ \A d \in Named(s) : d # id => d < LastOf(IdLines(s)) /\ d # 0
      /\ id = 0 => 0 \notin Named(s)
  BY LastId
<1>2. CASE id = 0
  BY <1>1, <1>2 DEF ListsAllBut, ListsTheNamed
<1>3. CASE id # 0
  <2>. DEFINE m == Len(list)
  <2>1. /\ m \in Nat /\ DOMAIN list = 1..m /\ DOMAIN all = 1..(m + 1)
        /\ all[m + 1] = r /\ \A k \in 1..m : all[k] = list[k]
    BY <1>3
  <2>. HIDE DEF m
  <2>2. \A k \in DOMAIN list : list[k].id \in Named(s) /\ list[k].id # id
    BY DEF ListsAllBut
  <2>3. \A k \in 1..m : list[k].id < id
    BY <1>1, <1>3, <2>1, <2>2
  <2>4. ASSUME NEW d PROVE d \in {all[k].id : k \in DOMAIN all} <=> d \in Named(s)
    <3>1. ASSUME d \in Named(s) PROVE \E k \in DOMAIN all : all[k].id = d
      <4>1. CASE d = id
        BY <2>1, <4>1
      <4>2. CASE d # id
        <5>1. PICK k \in 1..m : list[k].id = d
          BY <2>1, <3>1, <4>2 DEF ListsAllBut
        <5>. QED
          BY <2>1, <5>1
      <4>. QED
        BY <4>1, <4>2
    <3>2. ASSUME NEW k \in DOMAIN all, all[k].id = d PROVE d \in Named(s)
      <4>1. k = m + 1 \/ k \in 1..m
        BY <2>1
      <4>. QED
        BY <1>1, <1>3, <2>1, <2>2, <3>2, <4>1
    <3>. QED
      BY <3>1, <3>2
  <2>5. ASSUME NEW j \in DOMAIN all, NEW k \in DOMAIN all, j < k PROVE all[j].id < all[k].id
    <3>1. j \in 1..m /\ (k = m + 1 \/ k \in 1..m)
      BY <2>1, <2>5
    <3>2. CASE k = m + 1
      BY <2>1, <2>3, <3>1, <3>2
    <3>3. CASE k \in 1..m
      BY <2>1, <2>5, <3>1, <3>3 DEF ListsAllBut
    <3>. QED
      BY <3>1, <3>2, <3>3
  <2>. QED
    BY <2>4, <2>5 DEF ListsTheNamed
<1>. QED
  BY <1>2, <1>3

LEMMA DevicesFlushed ==
  ASSUME NEW s, NEW n \in Nat, Len(s) = n, Within(IdLines(s), n),
         \A i \in IdLines(s) : s[i].kind \in {"pair", "bare"},
         NEW ds \in Seq(DeviceType), NEW id, NEW proto, DevicesRight(s, n, ds, id, proto)
  PROVE  /\ ListsTheNamed(s, Flushed(ds, id, proto))
         /\ \A k \in DOMAIN Flushed(ds, id, proto) :
              Flushed(ds, id, proto)[k].protocol = ProtocolOf(s, Flushed(ds, id, proto)[k].id)
<1>. DEFINE all == Flushed(ds, id, proto)
            r == [id |-> id, protocol |-> proto]
<1>1. id = ValueOf(s, LastOf(IdLines(s))) /\ ListsAllBut(s, ds, id)
  BY DEF DevicesRight
<1>2. ListsTheNamed(s, all)
  <2>1. r.id = id /\ all = IF id = 0 THEN ds ELSE Append(ds, r)
    BY DEF Flushed
  <2>. HIDE DEF all, r
  <2>. QED
    BY <1>1, <2>1, ListsAll
<1>3. ASSUME NEW k \in DOMAIN all PROVE all[k].protocol = ProtocolOf(s, all[k].id)
  <2>1. CASE id = 0
    BY <1>3, <2>1 DEF Flushed, DevicesRight
  <2>2. CASE id # 0
    <3>1. proto = ProtocolOf(s, id)
      <4>1. id = LastOf(IdLines(s)) /\ id \in 1..n
        BY <1>1, <2>2, LastId
      <4>2. \A x \in IdLines(s) : x <= id
        BY <4>1, LastOfIs
      <4>3. NextOf(s, id, IdLines(s)) = n + 1
        BY <4>1, <4>2, NextIs
      <4>4. (n + 1) - 1 = n
        OBVIOUS
      <4>. QED
        BY <2>2, <4>3, <4>4 DEF DevicesRight, OpenStart, ProtocolOf
    <3>2. all = Append(ds, r) /\ r.id = id /\ r.protocol = proto
      BY <2>2 DEF Flushed
    <3>. HIDE DEF all, r
    <3>3. /\ DOMAIN all = 1..(Len(ds) + 1) /\ DOMAIN ds = 1..Len(ds) /\ Len(ds) \in Nat
          /\ all[Len(ds) + 1] = r /\ \A j \in 1..Len(ds) : all[j] = ds[j]
      BY <3>2
    <3>4. k = Len(ds) + 1 \/ k \in 1..Len(ds)
      BY <1>3, <3>3
    <3>. QED
      BY <3>1, <3>2, <3>3, <3>4 DEF DevicesRight
  <2>. QED
    BY <2>1, <2>2
<1>. QED
  BY <1>2, <1>3

\* A protocol line changes the open device, or the one to come, and no other.
LEMMA ProtocolLine ==
  ASSUME NEW s, NEW t, NEW n \in Nat, NEW line, Grows(s, t, n, line), line.key = "protocol",
         \A i \in IdLines(s) : s[i].kind \in {"pair", "bare"},
         NEW ds, NEW id, NEW proto, DevicesRight(s, n, ds, id, proto)
  PROVE  DevicesRight(t, n + 1, ds, id, IF line.kind = "bare" THEN 0 ELSE n + 1)
<1>1. Len(s) = n /\ line.key # "id"
  BY DEF Grows
<1>2. /\ Within(IdLines(s), n) /\ Within(Named(s), n) /\ Named(s) \subseteq IdLines(s)
      /\ IdLines(t) = IdLines(s) /\ Named(t) = Named(s)
  BY <1>1, IdsNext
<1>3. PICK last : last = LastOf(IdLines(s))
  OBVIOUS
<1>4. id = ValueOf(s, last) /\ last \in 0..n /\ (last # 0 => last \in IdLines(s))
  BY <1>2, <1>3, LastOfIs DEF DevicesRight
<1>5. id = ValueOf(t, LastOf(IdLines(t)))
  BY <1>2, <1>3, <1>4, ValueStays
<1>6. /\ id # 0 => id \in Named(s) /\ id = last /\ id \in 1..n
      /\ \A d \in Named(s) : d # id => d < last /\ d # 0
  BY <1>2, <1>3, <1>4, LastId
<1>7. ASSUME NEW k \in DOMAIN ds PROVE ds[k].protocol = ProtocolOf(t, ds[k].id)
  <2>1. PICK d \in Named(s) : d = ds[k].id /\ d # id
    BY <1>7 DEF DevicesRight, ListsAllBut
  <2>2. last \in IdLines(s) /\ last > d
    BY <1>2, <1>4, <1>6, <2>1 DEF Within
  <2>3. ProtocolOf(t, d) = ProtocolOf(s, d)
    BY <2>2, ProtocolStays DEF Followed
  <2>. QED
    BY <1>7, <2>1, <2>3 DEF DevicesRight
<1>8. PICK o : o = IF id # 0 THEN id ELSE n + 1
  OBVIOUS
<1>9. o \in 1..(n + 1)
  BY <1>6, <1>8
<1>10. PICK p : p = LastOf(Before(o, Named(s)))
  OBVIOUS
<1>11. p \in 0..n /\ p < o /\ (p # 0 => p \in Named(s))
  BY <1>2, <1>9, <1>10, BeforeIs
<1>12. Followed(IdLines(s), p) \/ p = 0
  <2>1. CASE id # 0
    BY <1>2, <1>6, <1>8, <1>11, <2>1 DEF Followed, Within
  <2>2. CASE id = 0 /\ p # 0
    <3>1. p # id /\ p \in Named(s)
      BY <1>11, <2>2
    <3>2. p < last /\ last # 0 /\ last \in IdLines(s)
      BY <1>4, <1>6, <1>11, <3>1
    <3>. QED
      BY <1>4, <1>11, <3>2 DEF Followed
  <2>. QED
    BY <2>1, <2>2
<1>13. PICK b : b = BlockStart(s, o)
  OBVIOUS
<1>14. BlockStart(t, o) = b /\ b \in 1..(n + 1)
  BY <1>9, <1>10, <1>12, <1>13, BlockStartStays
<1>15. OpenStart(t, n + 1, id) = b
  <2>1. CASE id # 0
    BY <1>8, <1>14, <2>1 DEF OpenStart
  <2>2. CASE id = 0
    <3>1. /\ Before((n + 1) + 1, Named(s)) = Named(s) /\ Before(n + 1, Named(s)) = Named(s)
      BY <1>2 DEF Before, Within
    <3>2. BlockStart(t, (n + 1) + 1) = BlockStart(t, n + 1)
      BY <1>2, <3>1 DEF BlockStart
    <3>. QED
      BY <1>8, <1>14, <2>2, <3>2 DEF OpenStart
  <2>. QED
    BY <2>1, <2>2
<1>16. b..(n + 1) = (b..n) \cup {n + 1} /\ Within(b..n, n)
  BY <1>14 DEF Within
<1>17. FieldOf(t, "protocol", b..(n + 1)) = IF line.kind = "bare" THEN 0 ELSE n + 1
  <2>1. PICK S : S = b..n /\ Within(S, n) /\ b..(n + 1) = S \cup {n + 1}
    BY <1>16
  <2>2. FieldOf(t, "protocol", S \cup {n + 1}) = IF line.kind = "bare" THEN 0 ELSE n + 1
    <3>1. Within(S, n)
      BY <2>1
    <3>. QED
      BY <3>1, FieldNext
  <2>. QED
    BY <2>1, <2>2
<1>18. ListsAllBut(t, ds, id)
  BY <1>2 DEF DevicesRight, ListsAllBut
<1>. QED
  BY <1>5, <1>7, <1>15, <1>17, <1>18 DEF DevicesRight

\* An id line registers the open device; the new one inherits the protocol of
\* nobody, unless none was open.
LEMMA DeviceIdLine ==
  ASSUME NEW s, NEW t, NEW n \in Nat, NEW line, Grows(s, t, n, line), line.key = "id",
         line.kind \in {"pair", "bare"},
         \A i \in IdLines(s) : s[i].kind \in {"pair", "bare"},
         NEW ds \in Seq(DeviceType), NEW id, NEW proto, DevicesRight(s, n, ds, id, proto)
  PROVE  DevicesRight(t, n + 1, Flushed(ds, id, proto),
                      IF line.kind = "bare" THEN 0 ELSE n + 1,
                      IF id = 0 THEN proto ELSE 0)
<1>. DEFINE now == IF line.kind = "bare" THEN 0 ELSE n + 1
<1>1. Len(s) = n /\ line.key # "protocol"
  BY DEF Grows
<1>2. /\ Within(IdLines(s), n) /\ Within(Named(s), n) /\ Named(s) \subseteq IdLines(s)
      /\ IdLines(t) = IdLines(s) \cup {n + 1}
      /\ Named(t) = IF now = 0 THEN Named(s) ELSE Named(s) \cup {n + 1}
  BY IdsNext
<1>3. LastOf(IdLines(t)) = n + 1
  <2>1. Within(IdLines(t), n + 1) /\ \A x \in IdLines(t) : x <= n + 1
    BY <1>2 DEF Within
  <2>. QED
    BY <1>2, <2>1, LastOfEquals
<1>4. now = ValueOf(t, LastOf(IdLines(t)))
  BY <1>3, ValueStays
<1>5. PICK all : all = Flushed(ds, id, proto)
  OBVIOUS
<1>6. /\ ListsTheNamed(s, all)
      /\ \A k \in DOMAIN all : all[k].protocol = ProtocolOf(s, all[k].id)
  BY <1>1, <1>2, <1>5, DevicesFlushed
<1>7. \A d \in Named(s) : d \in 1..n /\ d # now
  BY <1>2 DEF Within
<1>8. ListsAllBut(t, all, now)
  BY <1>2, <1>6, <1>7 DEF ListsTheNamed, ListsAllBut
<1>9. ASSUME NEW k \in DOMAIN all PROVE all[k].protocol = ProtocolOf(t, all[k].id)
  <2>1. all[k].id \in Named(s)
    BY <1>6, <1>9 DEF ListsTheNamed
  <2>. QED
    BY <1>6, <1>9, <2>1, ProtocolStays
<1>10. PICK b : b = BlockStart(s, n + 1)
  OBVIOUS
<1>11. BlockStart(t, n + 1) = b /\ b \in 1..(n + 1)
  BY <1>10, BlockStartStays
<1>12. OpenStart(t, n + 1, now) = b
  <2>1. CASE now # 0
    BY <1>11, <2>1 DEF OpenStart
  <2>2. CASE now = 0
    <3>1. /\ Before((n + 1) + 1, Named(s)) = Named(s) /\ Before(n + 1, Named(s)) = Named(s)
      BY <1>2 DEF Before, Within
    <3>2. BlockStart(t, (n + 1) + 1) = BlockStart(t, n + 1)
      BY <1>2, <2>2, <3>1 DEF BlockStart
    <3>. QED
      BY <1>11, <2>2, <3>2 DEF OpenStart
  <2>. QED
    BY <2>1, <2>2
<1>13. b..(n + 1) = (b..n) \cup {n + 1} /\ Within(b..n, n)
  BY <1>11 DEF Within
<1>14. FieldOf(t, "protocol", b..(n + 1)) = FieldOf(s, "protocol", b..n)
  <2>1. PICK S : S = b..n /\ Within(S, n) /\ b..(n + 1) = S \cup {n + 1}
    BY <1>13
  <2>2. FieldOf(t, "protocol", S \cup {n + 1}) = FieldOf(s, "protocol", S)
    <3>1. Within(S, n)
      BY <2>1
    <3>. QED
      BY <1>1, <3>1, FieldNext
  <2>. QED
    BY <2>1, <2>2
<1>15. FieldOf(s, "protocol", b..n) = IF id = 0 THEN proto ELSE 0
  <2>1. CASE id = 0
    BY <1>10, <2>1 DEF DevicesRight, OpenStart
  <2>2. CASE id # 0
    <3>1. id \in Named(s) /\ id = LastOf(IdLines(s)) /\ id \in 1..n
      BY <1>2, <2>2, LastId DEF DevicesRight
    <3>2. \A x \in IdLines(s) : x <= id
      BY <1>2, <3>1, LastOfIs
    <3>3. LastOf(Before(n + 1, Named(s))) = id
      <4>1. Before(n + 1, Named(s)) = Named(s)
        BY <1>2 DEF Before, Within
      <4>2. \A x \in Named(s) : x <= id
        BY <1>2, <3>2
      <4>. QED
        BY <1>2, <3>1, <4>1, <4>2, LastOfEquals
    <3>4. b = n + 1
      <4>1. NextOf(s, id, IdLines(s)) = n + 1
        BY <1>1, <1>2, <3>1, <3>2, NextIs
      <4>. QED
        BY <1>10, <2>2, <3>3, <4>1 DEF BlockStart
    <3>5. b..n = {}
      BY <3>4
    <3>. QED
      BY <2>2, <3>5 DEF FieldOf, Keyed, LastOf, ValueOf
  <2>. QED
    BY <2>1, <2>2
<1>. QED
  BY <1>4, <1>5, <1>8, <1>9, <1>12, <1>14, <1>15 DEF DevicesRight

\* The parser of devices: its fields are what the lines so far say.
DeviceInv ==
  file = "devices" =>
    /\ text \in Seq(DeviceLines) /\ devices \in Seq(DeviceType)
    /\ current_id \in Nat /\ protocol \in Nat
    /\ DevicesRight(text, Len(text), devices, current_id, protocol)

LEMMA DeviceKinds ==
  ASSUME NEW s \in Seq(DeviceLines)
  PROVE  /\ Len(s) \in Nat /\ Within(IdLines(s), Len(s))
         /\ \A i \in IdLines(s) : s[i].kind \in {"pair", "bare"}
<1>1. \A i \in DOMAIN s : s[i] \in DeviceLines
  OBVIOUS
<1>. QED
  BY <1>1, LinesAssumption, LenProperties DEF IdLines, Keyed, Within

LEMMA DeviceInit == Init => DeviceInv
<1> SUFFICES ASSUME Init PROVE DeviceInv
  OBVIOUS
<1>1. text = <<>> /\ devices = <<>> /\ current_id = 0 /\ protocol = 0
  BY DEF Init
<1>2. IdLines(<<>>) = {} /\ Named(<<>>) = {} /\ Len(<<>>) = 0 /\ DOMAIN <<>> = {}
  BY DEF IdLines, Named, Keyed
<1>3. LastOf({}) = 0 /\ ValueOf(<<>>, 0) = 0
  BY DEF LastOf, ValueOf
<1>4. BlockStart(<<>>, 1) = 1
  BY <1>2, <1>3 DEF BlockStart, Before
<1>5. FieldOf(<<>>, "protocol", OpenStart(<<>>, 0, 0)..0) = 0
  <2>1. OpenStart(<<>>, 0, 0) = 1
    BY <1>4 DEF OpenStart
  <2>2. OpenStart(<<>>, 0, 0)..0 = {}
    BY <2>1
  <2>. QED
    BY <1>3, <2>2 DEF FieldOf, Keyed
<1>6. DevicesRight(<<>>, 0, <<>>, 0, 0)
  BY <1>2, <1>3, <1>5 DEF DevicesRight, ListsAllBut
<1>. QED
  BY <1>1, <1>2, <1>6 DEF DeviceInv

LEMMA DeviceStep == DeviceInv /\ [Next]_vars => DeviceInv'
<1> SUFFICES ASSUME DeviceInv, [Next]_vars, file' = "devices" PROVE DeviceInv'
  BY DEF DeviceInv
<1>1. CASE UNCHANGED vars
  BY <1>1 DEF DeviceInv
<1>2. CASE Next
  <2>1. file = "devices"
    BY <1>2 DEF Next, Read
  <2>2. PICK line \in DeviceLines : Read(line) /\ DeviceLine(line)
    BY <1>2, <2>1 DEF Next
  <2>3. /\ text \in Seq(DeviceLines) /\ devices \in Seq(DeviceType)
        /\ current_id \in Nat /\ protocol \in Nat
        /\ DevicesRight(text, Len(text), devices, current_id, protocol)
    BY <2>1 DEF DeviceInv
  <2>4. PICK s, t, n : s = text /\ t = Append(text, line) /\ n = Len(text)
    OBVIOUS
  <2>5. Grows(s, t, n, line) /\ n \in Nat /\ t \in Seq(DeviceLines) /\ Len(t) = n + 1
    BY <2>3, <2>4, AppendGrows DEF Grows
  <2>6. text' = t /\ Now = n + 1
    BY <2>2, <2>4 DEF Read, Now
  <2>7. line.key \in {"id", "protocol"} /\ line.kind \in {"pair", "bare"}
    BY LinesAssumption
  <2>8. \A i \in IdLines(s) : s[i].kind \in {"pair", "bare"}
    BY <2>3, <2>4, DeviceKinds
  <2>9. PICK v : v = IF line.kind = "bare" THEN 0 ELSE n + 1
    OBVIOUS
  <2>10. Value(line) = v /\ v \in Nat
    BY <2>5, <2>6, <2>9 DEF Value
  <2>11. FlushedDevices = Flushed(devices, current_id, protocol)
         /\ FlushedDevices \in Seq(DeviceType)
    <3>1. [id |-> current_id, protocol |-> protocol] \in DeviceType
      BY <2>3 DEF DeviceType
    <3>. QED
      BY <2>3, <3>1 DEF FlushedDevices, Flushed
  <2>12. CASE line.key = "protocol"
    <3>1. devices' = devices /\ current_id' = current_id /\ protocol' = v
      BY <2>2, <2>10, <2>12 DEF DeviceLine
    <3>2. DevicesRight(t, n + 1, devices, current_id, v)
      BY <2>3, <2>4, <2>5, <2>8, <2>9, <2>12, ProtocolLine
    <3>. QED
      BY <2>3, <2>5, <2>6, <2>10, <3>1, <3>2 DEF DeviceInv
  <2>13. CASE line.key = "id"
    <3>1. PICK p : p = IF current_id = 0 THEN protocol ELSE 0
      OBVIOUS
    <3>2. devices' = FlushedDevices /\ current_id' = v /\ protocol' = p /\ p \in Nat
      BY <2>2, <2>3, <2>10, <2>13, <3>1 DEF DeviceLine
    <3>3. DevicesRight(t, n + 1, Flushed(devices, current_id, protocol), v, p)
      BY <2>3, <2>4, <2>5, <2>7, <2>8, <2>9, <2>13, <3>1, DeviceIdLine
    <3>. QED
      BY <2>5, <2>6, <2>10, <2>11, <3>2, <3>3 DEF DeviceInv
  <2>. QED
    BY <2>7, <2>12, <2>13
<1>. QED
  BY <1>1, <1>2

\* LoadDevicesFromFile registers the devices of the file, each with the protocol
\* among its own lines, whatever stands in what order.
THEOREM DevicesStayExact == Spec => []DevicesAreExact
<1>1. DeviceInv => DevicesAreExact
  <2> SUFFICES ASSUME DeviceInv, file = "devices"
               PROVE  /\ ListsTheNamed(text, FlushedDevices)
                      /\ \A n \in DOMAIN FlushedDevices :
                           FlushedDevices[n].protocol = ProtocolOf(text, FlushedDevices[n].id)
    BY DEF DevicesAreExact
  <2>1. /\ text \in Seq(DeviceLines) /\ devices \in Seq(DeviceType)
        /\ DevicesRight(text, Len(text), devices, current_id, protocol)
    BY DEF DeviceInv
  <2>2. FlushedDevices = Flushed(devices, current_id, protocol)
    BY DEF FlushedDevices, Flushed
  <2>3. PICK s, n : s = text /\ n = Len(text)
    OBVIOUS
  <2>. QED
    BY <2>1, <2>2, <2>3, DeviceKinds, DevicesFlushed
<1>. QED
  BY <1>1, DeviceInit, DeviceStep, PTL DEF Spec
-----------------------------------------------------------------------------
(***************************************************************************)
(* ConfigManager: the paths of a text, line by line.  A line's section is  *)
(* before it, so the paths are defined, and later lines do not change      *)
(* them.                                                                   *)
(***************************************************************************)
SectionsOf(s, i) ==
  {j \in 1..i-1 : s[j].kind = "bare" /\ \A k \in j+1..i : s[k].indent > s[j].indent}

LEMMA SectionIs ==
  ASSUME NEW s, NEW i \in Nat \ {0}
  PROVE  /\ SectionOf(s, i) = LastOf(SectionsOf(s, i))
         /\ Within(SectionsOf(s, i), i - 1) /\ SectionOf(s, i) \in 0..(i - 1)
<1>1. SectionOf(s, i) = LastOf(SectionsOf(s, i))
  BY DEF SectionOf, SectionsOf
<1>2. Within(SectionsOf(s, i), i - 1) /\ i - 1 \in Nat
  BY DEF Within, SectionsOf
<1>. QED
  BY <1>1, <1>2, LastOfIs

PathsTo(f, s, k) ==
  f = [i \in 0..k |-> IF i = 0 THEN <<>> ELSE Append(f[SectionOf(s, i)], s[i].key)]

LEMMA PathsExist ==
  ASSUME NEW s
  PROVE  \A k \in Nat : \E f : PathsTo(f, s, k)
<1>. DEFINE missing == {k \in Nat : ~ \E f : PathsTo(f, s, k)}
<1>1. ASSUME missing # {} PROVE FALSE
  <2>1. missing \subseteq Nat
    OBVIOUS
  <2>2. PICK k \in missing : \A j \in missing : k <= j
    <3>. HIDE DEF missing
    <3>. QED
      BY <1>1, <2>1, LeastLine
  <2>3. k # 0
    <3>1. SUFFICES ASSUME k = 0 PROVE FALSE
      OBVIOUS
    <3>. DEFINE f == [i \in 0..0 |-> <<>>]
    <3>2. PathsTo(f, s, 0)
      BY DEF PathsTo
    <3>. QED
      BY <2>2, <3>1, <3>2
  <2>4. k - 1 \in Nat /\ ~ (k <= k - 1)
    BY <2>2, <2>3
  <2>5. PICK f : PathsTo(f, s, k - 1)
    BY <2>2, <2>4
  <2>. DEFINE g == [i \in 0..k |-> IF i = k THEN Append(f[SectionOf(s, k)], s[k].key) ELSE f[i]]
              step(i) == IF i = 0 THEN <<>> ELSE Append(g[SectionOf(s, i)], s[i].key)
  <2>6. \A i \in 0..(k - 1) : i \in 0..k /\ g[i] = f[i]
    BY <2>4
  <2>7. g[k] = Append(f[SectionOf(s, k)], s[k].key)
    BY <2>4
  <2>8. g = [i \in 0..k |-> g[i]]
    OBVIOUS
  <2>. HIDE DEF g
  <2>9. ASSUME NEW i \in 0..k PROVE g[i] = step(i)
    <3>1. CASE i = k
      <4>1. SectionOf(s, k) \in 0..(k - 1)
        BY <2>3, <2>4, SectionIs
      <4>. QED
        BY <2>3, <2>6, <2>7, <3>1, <4>1
    <3>2. CASE i = 0
      <4>1. f[0] = <<>>
        BY <2>4, <2>5 DEF PathsTo
      <4>. QED
        BY <2>4, <2>6, <3>2, <4>1
    <3>3. CASE i # k /\ i # 0
      <4>1. i \in 0..(k - 1) /\ i \in Nat \ {0}
        BY <2>4, <3>3
      <4>2. SectionOf(s, i) \in 0..(k - 1)
        BY <2>4, <4>1, SectionIs
      <4>3. f[i] = Append(f[SectionOf(s, i)], s[i].key)
        BY <2>5, <3>3, <4>1 DEF PathsTo
      <4>. QED
        BY <2>6, <3>3, <4>1, <4>2, <4>3
    <3>. QED
      BY <3>1, <3>2, <3>3
  <2>10. [i \in 0..k |-> g[i]] = [i \in 0..k |-> step(i)]
    BY <2>9
  <2>11. PathsTo(g, s, k)
    BY <2>8, <2>10 DEF PathsTo
  <2>. QED
    BY <2>2, <2>11
<1>. QED
  BY <1>1

LEMMA PathsAre ==
  ASSUME NEW s, NEW n \in Nat, Len(s) = n
  PROVE  /\ PathsOf(s)[0] = <<>>
         /\ \A i \in 1..n : PathsOf(s)[i] = Append(PathsOf(s)[SectionOf(s, i)], s[i].key)
<1>1. \E f : PathsTo(f, s, n)
  BY PathsExist
<1>2. PathsTo(PathsOf(s), s, n)
  BY <1>1 DEF PathsTo, PathsOf
<1>3. PICK f : f = PathsOf(s)
  OBVIOUS
<1>4. \A i \in 0..n : f[i] = IF i = 0 THEN <<>> ELSE Append(f[SectionOf(s, i)], s[i].key)
  BY <1>2, <1>3 DEF PathsTo
<1>5. 0 \in 0..n /\ \A i \in 1..n : i \in 0..n /\ i # 0
  OBVIOUS
<1>. QED
  BY <1>3, <1>4, <1>5

LEMMA PathsStay ==
  ASSUME NEW s, NEW t, NEW n \in Nat, NEW line, Grows(s, t, n, line)
  PROVE  \A i \in 0..n : PathsOf(t)[i] = PathsOf(s)[i]
<1>. DEFINE moved == {i \in 0..n : PathsOf(t)[i] # PathsOf(s)[i]}
<1>1. SUFFICES ASSUME moved # {} PROVE FALSE
  OBVIOUS
<1>2. moved \subseteq Nat
  OBVIOUS
<1>3. PICK i \in moved : \A j \in moved : i <= j
  <2>. HIDE DEF moved
  <2>. QED
    BY <1>1, <1>2, LeastLine
<1>4. Len(s) = n /\ Len(t) = n + 1 /\ \A x \in 1..n : t[x] = s[x]
  BY DEF Grows
<1>5. i # 0
  BY <1>3, <1>4, PathsAre
<1>6. i \in 1..n /\ i \in 1..(n + 1) /\ i \in Nat \ {0}
  BY <1>3, <1>5
<1>7. SectionOf(t, i) = SectionOf(s, i)
  <2>1. SectionsOf(t, i) = SectionsOf(s, i)
    <3>1. \A x \in 1..i : t[x] = s[x]
      BY <1>4, <1>6
    <3>. QED
      BY <1>6, <3>1 DEF SectionsOf
  <2>. QED
    BY <1>6, <2>1, SectionIs
<1>8. PICK j : j = SectionOf(s, i)
  OBVIOUS
<1>9. j \in 0..(i - 1) /\ j \in 0..n /\ ~ (i <= j)
  BY <1>6, <1>8, SectionIs
<1>10. PathsOf(t)[j] = PathsOf(s)[j]
  BY <1>3, <1>9
<1>11. PathsOf(t)[i] = Append(PathsOf(t)[j], t[i].key)
       /\ PathsOf(s)[i] = Append(PathsOf(s)[j], s[i].key)
  BY <1>4, <1>6, <1>7, <1>8, PathsAre
<1>. QED
  BY <1>3, <1>4, <1>6, <1>10, <1>11
-----------------------------------------------------------------------------
(***************************************************************************)
(* The open sections are the keys without a value that every later line is *)
(* more indented than.  The stack has them in their order, so that a line  *)
(* closes an upper part of it, and its path is that of the last one left.  *)
(***************************************************************************)
IsOpen(s, n, j) ==
  j \in 1..n /\ s[j].kind = "bare" /\ \A k \in j+1..n : s[k].indent > s[j].indent

StackRight(s, n, st) ==
  /\ st \in Seq(Nat)
  /\ \A k \in DOMAIN st : IsOpen(s, n, st[k])
  /\ \A j \in 1..n : IsOpen(s, n, j) => \E k \in DOMAIN st : st[k] = j
  /\ \A j, k \in DOMAIN st : j < k => st[j] < st[k]

KeysOf(s, st) == [k \in DOMAIN st |-> s[st[k]].key]

PathsRight(s, st) ==
  \A k \in DOMAIN st : PathsOf(s)[st[k]] = KeysOf(s, SubSeq(st, 1, k))

Left(s, st, line) == LastOf({k \in DOMAIN st : s[st[k]].indent < line.indent})

Indented(s, n) == \A x \in 1..n : s[x].indent \in Nat

LEMMA LeftIs ==
  ASSUME NEW s, NEW n \in Nat, NEW st, StackRight(s, n, st), NEW line, line.indent \in Nat,
         Indented(s, n),
         NEW m, m = Left(s, st, line)
  PROVE  /\ Len(st) \in Nat /\ m \in 0..Len(st)
         /\ \A k \in DOMAIN st : k <= m <=> s[st[k]].indent < line.indent
<1>. DEFINE K == {k \in DOMAIN st : s[st[k]].indent < line.indent}
<1>1. Len(st) \in Nat /\ DOMAIN st = 1..Len(st) /\ \A k \in DOMAIN st : st[k] \in Nat
  BY LenProperties DEF StackRight
<1>2. Within(K, Len(st)) /\ m = LastOf(K)
  BY <1>1 DEF Within, Left
<1>. HIDE DEF K
<1>3. /\ m \in 0..Len(st) /\ (m # 0 => m \in K) /\ (m = 0 => K = {})
      /\ \A k \in K : k <= m
  BY <1>1, <1>2, LastOfIs
<1>4. ASSUME NEW j \in DOMAIN st, NEW k \in DOMAIN st, j < k
      PROVE  s[st[j]].indent < s[st[k]].indent
  <2>1. IsOpen(s, n, st[j]) /\ IsOpen(s, n, st[k]) /\ st[j] < st[k]
    BY <1>4 DEF StackRight
  <2>2. st[k] \in (st[j] + 1)..n /\ st[j] \in 1..n /\ st[k] \in 1..n
    BY <1>1, <2>1 DEF IsOpen
  <2>3. s[st[k]].indent > s[st[j]].indent
    BY <2>1, <2>2 DEF IsOpen
  <2>. QED
    BY <2>2, <2>3
<1>5. ASSUME NEW k \in DOMAIN st
      PROVE  k <= m <=> s[st[k]].indent < line.indent
  <2>1. st[k] \in 1..n /\ s[st[k]].indent \in Nat
    BY DEF StackRight, IsOpen, Indented
  <2>2. ASSUME s[st[k]].indent < line.indent PROVE k <= m
    BY <1>3, <2>2 DEF K
  <2>3. ASSUME k <= m PROVE s[st[k]].indent < line.indent
    <3>1. m \in DOMAIN st /\ m \in K
      BY <1>1, <1>3, <2>3
    <3>2. s[st[m]].indent < line.indent /\ st[m] \in 1..n /\ s[st[m]].indent \in Nat
      BY <3>1 DEF K, StackRight, IsOpen, Indented
    <3>3. CASE k = m
      BY <3>2, <3>3
    <3>4. CASE k < m
      <4>1. s[st[k]].indent < s[st[m]].indent
        BY <1>4, <3>1, <3>4
      <4>. QED
        BY <2>1, <3>2, <4>1
    <3>. QED
      BY <1>1, <1>3, <2>3, <3>3, <3>4
  <2>. QED
    BY <2>2, <2>3
<1>. QED
  BY <1>1, <1>3, <1>5

\* What is open after a line: the sections left, and the line if it starts one.
LEMMA OpenNext ==
  ASSUME NEW s, NEW t, NEW n \in Nat, NEW line, Grows(s, t, n, line), line.indent \in Nat,
         Indented(s, n),
         NEW st, StackRight(s, n, st), NEW m, m = Left(s, st, line)
  PROVE  /\ \A j \in 1..n : IsOpen(t, n + 1, j) <=> \E k \in 1..m : st[k] = j
         /\ IsOpen(t, n + 1, n + 1) <=> line.kind = "bare"
<1>0. Len(st) \in Nat /\ DOMAIN st = 1..Len(st)
  BY LenProperties DEF StackRight
<1>1. /\ Len(st) \in Nat /\ m \in 0..Len(st) /\ DOMAIN st = 1..Len(st)
      /\ \A k \in DOMAIN st : k <= m <=> s[st[k]].indent < line.indent
  BY <1>0, LeftIs
<1>2. t[n + 1] = line /\ \A x \in 1..n : t[x] = s[x]
  BY DEF Grows
<1>3. ASSUME NEW j \in 1..n
      PROVE  IsOpen(t, n + 1, j) <=> IsOpen(s, n, j) /\ s[j].indent < line.indent
  <2>1. (j + 1)..(n + 1) = ((j + 1)..n) \cup {n + 1} /\ j \in 1..(n + 1)
        /\ \A x \in (j + 1)..n : x \in 1..n
    OBVIOUS
  <2>2. (\A k \in j+1..(n + 1) : t[k].indent > t[j].indent)
        <=> (\A k \in j+1..n : s[k].indent > s[j].indent) /\ line.indent > s[j].indent
    BY <1>2, <2>1
  <2>3. s[j].indent \in Nat
    BY DEF Indented
  <2>. QED
    BY <1>2, <2>1, <2>2, <2>3 DEF IsOpen
<1>4. ASSUME NEW j \in 1..n
      PROVE  (\E k \in 1..m : st[k] = j) <=> IsOpen(s, n, j) /\ s[j].indent < line.indent
  <2>1. ASSUME NEW k \in 1..m, st[k] = j PROVE IsOpen(s, n, j) /\ s[j].indent < line.indent
    <3>1. k \in DOMAIN st /\ k <= m
      BY <1>1
    <3>. QED
      BY <1>1, <2>1, <3>1 DEF StackRight
  <2>2. ASSUME IsOpen(s, n, j), s[j].indent < line.indent PROVE \E k \in 1..m : st[k] = j
    <3>1. PICK k \in DOMAIN st : st[k] = j
      BY <2>2 DEF StackRight
    <3>2. k \in 1..m
      BY <1>1, <2>2, <3>1
    <3>. QED
      BY <3>1, <3>2
  <2>. QED
    BY <2>1, <2>2
<1>5. IsOpen(t, n + 1, n + 1) <=> line.kind = "bare"
  <2>1. ((n + 1) + 1)..(n + 1) = {} /\ n + 1 \in 1..(n + 1)
    OBVIOUS
  <2>. QED
    BY <1>2, <2>1 DEF IsOpen
<1>. QED
  BY <1>3, <1>4, <1>5

\* The first m places of a sequence.
LEMMA FirstPlaces ==
  ASSUME NEW X, NEW st \in Seq(X), NEW m \in 0..Len(st)
  PROVE  /\ SubSeq(st, 1, m) \in Seq(X) /\ Len(SubSeq(st, 1, m)) = m
         /\ DOMAIN SubSeq(st, 1, m) = 1..m
         /\ \A k \in 1..m : SubSeq(st, 1, m)[k] = st[k]
         /\ m = 0 => SubSeq(st, 1, m) = <<>>
<1>1. Len(st) \in Nat /\ m \in Nat /\ m <= Len(st)
  BY LenProperties
<1>2. /\ SubSeq(st, 1, m) \in Seq(X) /\ Len(SubSeq(st, 1, m)) = m
      /\ \A k \in 1..m : SubSeq(st, 1, m)[k] = st[k]
  BY <1>1, SubSeqProperties
<1>. QED
  BY <1>1, <1>2, LenProperties, EmptySeq

LEMMA PathNext ==
  ASSUME NEW s, NEW t, NEW n \in Nat, NEW line, Grows(s, t, n, line), line.indent \in Nat,
         Indented(s, n),
         NEW st, StackRight(s, n, st), PathsRight(s, st), NEW m, m = Left(s, st, line)
  PROVE  PathsOf(t)[n + 1] = Append(KeysOf(s, SubSeq(st, 1, m)), line.key)
<1>0. st \in Seq(Nat)
  BY DEF StackRight
<1>1. /\ Len(st) \in Nat /\ m \in 0..Len(st) /\ DOMAIN st = 1..Len(st) /\ st \in Seq(Nat)
  BY <1>0, LeftIs, LenProperties
<1>2. Len(t) = n + 1 /\ t[n + 1] = line /\ n + 1 \in Nat \ {0} /\ (n + 1) - 1 = n
      /\ n + 1 \in 1..(n + 1)
  BY DEF Grows
<1>3. PICK Z : Z = SectionsOf(t, n + 1)
  OBVIOUS
<1>4. \A j : j \in Z <=> j \in 1..n /\ IsOpen(t, n + 1, j)
  <2>1. \A j \in 1..n : j \in 1..(n + 1)
    OBVIOUS
  <2>. QED
    BY <1>2, <1>3, <2>1 DEF SectionsOf, IsOpen
<1>5. /\ \A j \in 1..n : IsOpen(t, n + 1, j) <=> \E k \in 1..m : st[k] = j
      /\ IsOpen(t, n + 1, n + 1) <=> line.kind = "bare"
  BY OpenNext
<1>6. \A k \in 1..m : k \in DOMAIN st /\ st[k] \in 1..n
  BY <1>1 DEF StackRight, IsOpen
<1>7. SectionOf(t, n + 1) = LastOf(Z) /\ Within(Z, n)
  BY <1>2, <1>3, SectionIs
<1>8. PICK p : p = SectionOf(t, n + 1)
  OBVIOUS
<1>9. p = IF m = 0 THEN 0 ELSE st[m]
  <2>1. CASE m = 0
    <3>1. Z = {}
      BY <1>4, <1>5, <2>1
    <3>. QED
      BY <1>7, <1>8, <2>1, <3>1 DEF LastOf
  <2>2. CASE m # 0
    <3>1. m \in 1..m
      BY <1>1, <2>2
    <3>2. st[m] \in Z
      BY <1>4, <1>5, <1>6, <3>1
    <3>3. ASSUME NEW j \in Z PROVE j <= st[m]
      <4>1. PICK k \in 1..m : st[k] = j
        BY <1>4, <1>5
      <4>2. k = m \/ k < m
        BY <1>1, <4>1
      <4>3. k < m => st[k] < st[m]
        BY <1>6, <3>1, <4>1 DEF StackRight
      <4>. QED
        BY <1>6, <3>1, <4>1, <4>2, <4>3
    <3>. QED
      BY <1>7, <1>8, <2>2, <3>2, <3>3, LastOfEquals
  <2>. QED
    BY <2>1, <2>2
<1>10. p \in 0..n
  BY <1>1, <1>6, <1>9
<1>11. PathsOf(t)[n + 1] = Append(PathsOf(t)[p], line.key)
  BY <1>2, <1>8, PathsAre
<1>12. PathsOf(t)[p] = PathsOf(s)[p]
  BY <1>10, PathsStay
<1>13. PathsOf(s)[p] = KeysOf(s, SubSeq(st, 1, m))
  <2>1. CASE m = 0
    <3>1. SubSeq(st, 1, m) = <<>>
      BY <1>1, <2>1, FirstPlaces
    <3>2. KeysOf(s, <<>>) = <<>>
      BY DEF KeysOf
    <3>3. Len(s) = n
      BY DEF Grows
    <3>. QED
      BY <1>9, <2>1, <3>1, <3>2, <3>3, PathsAre
  <2>2. CASE m # 0
    <3>1. m \in DOMAIN st /\ p = st[m]
      BY <1>1, <1>9, <2>2
    <3>. QED
      BY <3>1 DEF PathsRight
  <2>. QED
    BY <2>1, <2>2
<1>. QED
  BY <1>11, <1>12, <1>13

LEMMA StackNext ==
  ASSUME NEW s, NEW t, NEW n \in Nat, NEW line, Grows(s, t, n, line), line.indent \in Nat,
         Indented(s, n),
         NEW st, StackRight(s, n, st), PathsRight(s, st), NEW m, m = Left(s, st, line),
         NEW new, new = IF line.kind = "bare" THEN Append(SubSeq(st, 1, m), n + 1)
                        ELSE SubSeq(st, 1, m)
  PROVE  StackRight(t, n + 1, new) /\ PathsRight(t, new)
<1>0. st \in Seq(Nat) /\ m \in 0..Len(st)
  <2>1. m \in 0..Len(st)
    BY LeftIs
  <2>. QED
    BY <2>1 DEF StackRight
<1>1. /\ Len(st) \in Nat /\ m \in 0..Len(st) /\ DOMAIN st = 1..Len(st) /\ st \in Seq(Nat)
      /\ m \in Nat
  BY <1>0, LenProperties
<1>2. PICK u : u = SubSeq(st, 1, m)
  OBVIOUS
<1>3. /\ u \in Seq(Nat) /\ Len(u) = m /\ DOMAIN u = 1..m /\ \A k \in 1..m : u[k] = st[k]
  BY <1>1, <1>2, FirstPlaces
<1>4. PICK l : l = IF line.kind = "bare" THEN m + 1 ELSE m
  OBVIOUS
<1>5. /\ l \in Nat /\ new \in Seq(Nat) /\ Len(new) = l /\ DOMAIN new = 1..l
      /\ \A k \in 1..m : k \in 1..l /\ new[k] = st[k]
      /\ \A k \in 1..l : k \in 1..m \/ (line.kind = "bare" /\ k = m + 1 /\ new[k] = n + 1)
      /\ line.kind = "bare" => m + 1 \in 1..l /\ new[m + 1] = n + 1
  <2>1. CASE line.kind = "bare"
    <3>1. new = Append(u, n + 1) /\ l = m + 1
      BY <1>2, <1>4, <2>1
    <3>2. new \in Seq(Nat) /\ Len(new) = m + 1 /\ new[m + 1] = n + 1
          /\ \A k \in 1..m : new[k] = u[k]
      <4>1. n + 1 \in Nat
        OBVIOUS
      <4>. QED
        BY <1>1, <1>3, <3>1, <4>1, AppendProperties
    <3>. QED
      BY <1>1, <1>3, <2>1, <3>1, <3>2, LenProperties
  <2>2. CASE line.kind # "bare"
    BY <1>1, <1>2, <1>3, <1>4, <2>2
  <2>. QED
    BY <2>1, <2>2
<1>6. /\ \A j \in 1..n : IsOpen(t, n + 1, j) <=> \E k \in 1..m : st[k] = j
      /\ IsOpen(t, n + 1, n + 1) <=> line.kind = "bare"
  BY OpenNext
<1>7. \A k \in 1..m : k \in DOMAIN st /\ st[k] \in 1..n
  <2>1. \A k \in 1..m : k \in DOMAIN st
    BY <1>1
  <2>. QED
    BY <2>1 DEF StackRight, IsOpen
<1>8. StackRight(t, n + 1, new)
  <2>1. ASSUME NEW k \in DOMAIN new PROVE IsOpen(t, n + 1, new[k])
    BY <1>5, <1>6, <1>7, <2>1
  <2>2. ASSUME NEW j \in 1..(n + 1), IsOpen(t, n + 1, j)
        PROVE  \E k \in DOMAIN new : new[k] = j
    <3>1. CASE j = n + 1
      BY <1>5, <1>6, <2>2, <3>1
    <3>2. CASE j # n + 1
      <4>1. j \in 1..n
        BY <3>2
      <4>2. PICK k \in 1..m : st[k] = j
        BY <1>6, <2>2, <4>1
      <4>. QED
        BY <1>5, <4>2
    <3>. QED
      BY <3>1, <3>2
  <2>3. ASSUME NEW j \in DOMAIN new, NEW k \in DOMAIN new, j < k PROVE new[j] < new[k]
    <3>1. j \in 1..m
      BY <1>1, <1>5, <2>3
    <3>2. CASE k \in 1..m
      <4>1. st[j] < st[k]
        BY <1>7, <2>3, <3>1, <3>2 DEF StackRight
      <4>. QED
        BY <1>5, <3>1, <3>2, <4>1
    <3>3. CASE new[k] = n + 1
      <4>1. new[j] \in 1..n
        BY <1>5, <1>7, <3>1
      <4>2. \A x \in 1..n : x < n + 1
        OBVIOUS
      <4>. QED
        BY <3>3, <4>1, <4>2
    <3>. QED
      BY <1>5, <3>2, <3>3
  <2>. QED
    BY <1>5, <2>1, <2>2, <2>3 DEF StackRight
<1>9. ASSUME NEW k \in DOMAIN new
      PROVE  PathsOf(t)[new[k]] = KeysOf(t, SubSeq(new, 1, k))
  <2>1. k \in 0..l /\ k \in Nat
    BY <1>5
  <2>2. PICK v : v = SubSeq(new, 1, k)
    OBVIOUS
  <2>3. v \in Seq(Nat) /\ Len(v) = k /\ DOMAIN v = 1..k /\ \A j \in 1..k : v[j] = new[j]
    <3>1. k \in 0..Len(new) /\ new \in Seq(Nat)
      BY <1>5, <2>1
    <3>. QED
      BY <2>2, <3>1, FirstPlaces
  <2>4. \A x \in 1..n : t[x] = s[x]
    BY DEF Grows
  <2>5. CASE k \in 1..m
    <3>1. PICK w : w = SubSeq(st, 1, k)
      OBVIOUS
    <3>2. k \in 0..Len(st) /\ k \in DOMAIN st
      BY <1>1, <2>5
    <3>3. w \in Seq(Nat) /\ DOMAIN w = 1..k /\ \A j \in 1..k : w[j] = st[j]
      BY <1>1, <3>1, <3>2, FirstPlaces
    <3>4. \A j \in 1..k : j \in 1..m
      BY <1>1, <2>5
    <3>5. KeysOf(t, v) = KeysOf(s, w)
      BY <1>5, <1>7, <2>3, <2>4, <3>3, <3>4 DEF KeysOf
    <3>6. PathsOf(s)[st[k]] = KeysOf(s, w)
      BY <3>1, <3>2 DEF PathsRight
    <3>7. PathsOf(t)[st[k]] = PathsOf(s)[st[k]]
      <4>1. st[k] \in 0..n
        BY <1>7, <2>5
      <4>. QED
        BY <4>1, PathsStay
    <3>. QED
      BY <1>5, <2>2, <2>5, <3>5, <3>6, <3>7
  <2>6. CASE line.kind = "bare" /\ k = m + 1 /\ new[k] = n + 1
    <3>1. PathsOf(t)[n + 1] = Append(KeysOf(s, u), line.key)
      BY <1>2, PathNext
    <3>2. PICK q : q = KeysOf(s, u)
      OBVIOUS
    <3>3. q = [j \in 1..m |-> s[st[j]].key]
      BY <1>3, <3>2 DEF KeysOf
    <3>4. Append(q, line.key) = [j \in 1..(m + 1) |-> IF j = m + 1 THEN line.key ELSE q[j]]
      <4>1. PICK Q : Q = {s[st[j]].key : j \in 1..m}
        OBVIOUS
      <4>2. q \in [1..m -> Q]
        BY <3>3, <4>1
      <4>3. q \in Seq(Q) /\ Len(q) = m
        <5>1. m \in Nat
          BY <1>1
        <5>2. q \in Seq(Q)
          BY <4>2, <5>1, SeqDef
        <5>3. Len(q) \in Nat /\ DOMAIN q = 1..Len(q) /\ DOMAIN q = 1..m
          BY <4>2, <5>2, LenProperties
        <5>4. Len(q) = m
          BY <5>1, <5>3
        <5>. QED
          BY <5>2, <5>4
      <4>. QED
        BY <1>1, <4>3
    <3>5. KeysOf(t, v) = [j \in 1..(m + 1) |-> t[v[j]].key]
      BY <2>3, <2>6 DEF KeysOf
    <3>6. ASSUME NEW j \in 1..(m + 1)
          PROVE  t[v[j]].key = IF j = m + 1 THEN line.key ELSE q[j]
      <4>1. CASE j = m + 1
        <5>1. v[j] = n + 1 /\ t[n + 1] = line
          BY <2>3, <2>6, <4>1 DEF Grows
        <5>. QED
          BY <4>1, <5>1
      <4>2. CASE j # m + 1
        <5>1. j \in 1..m
          BY <1>1, <4>2
        <5>2. v[j] = st[j] /\ st[j] \in 1..n
          BY <1>5, <1>7, <2>3, <2>6, <5>1
        <5>. QED
          BY <2>4, <3>3, <4>2, <5>1, <5>2
      <4>. QED
        BY <4>1, <4>2
    <3>7. KeysOf(t, v) = Append(q, line.key)
      BY <3>4, <3>5, <3>6
    <3>. QED
      BY <2>2, <2>6, <3>1, <3>2, <3>7
  <2>. QED
    BY <1>5, <2>5, <2>6
<1>. QED
  BY <1>8, <1>9 DEF PathsRight

\* The values: for each path of a pair, the last line that gives it.
Pairs(s) == {i \in DOMAIN s : s[i].kind = "pair"}
SamePath(s, q) == {j \in Pairs(s) : PathsOf(s)[j] = q}

ValuesRight(s, v) ==
  /\ DOMAIN v = {PathsOf(s)[i] : i \in Pairs(s)}
  /\ \A i \in Pairs(s) : v[PathsOf(s)[i]] = LastOf(SamePath(s, PathsOf(s)[i]))

LEMMA ValuesNext ==
  ASSUME NEW s, NEW t, NEW n \in Nat, NEW line, Grows(s, t, n, line),
         NEW v, ValuesRight(s, v), NEW q, q = PathsOf(t)[n + 1],
         NEW new, new = IF line.kind = "pair" THEN Put(v, q, n + 1) ELSE v
  PROVE  ValuesRight(t, new)
<1>1. /\ DOMAIN s = 1..n /\ DOMAIN t = 1..(n + 1) /\ t[n + 1] = line
      /\ \A x \in 1..n : t[x] = s[x]
  BY DEF Grows
<1>2. /\ Pairs(s) \subseteq 1..n
      /\ line.kind = "pair" => Pairs(t) = Pairs(s) \cup {n + 1}
      /\ line.kind # "pair" => Pairs(t) = Pairs(s)
  BY <1>1 DEF Pairs
<1>3. \A i \in Pairs(s) : PathsOf(t)[i] = PathsOf(s)[i]
  <2>1. \A i \in 0..n : PathsOf(t)[i] = PathsOf(s)[i]
    BY PathsStay
  <2>. QED
    BY <1>2, <2>1
<1>4. CASE line.kind # "pair"
  <2>1. ASSUME NEW r PROVE SamePath(t, r) = SamePath(s, r)
    BY <1>2, <1>3, <1>4 DEF SamePath
  <2>. QED
    BY <1>2, <1>3, <1>4, <2>1 DEF ValuesRight
<1>5. CASE line.kind = "pair"
  <2>1. /\ DOMAIN new = DOMAIN v \cup {q} /\ new[q] = n + 1
        /\ \A r \in DOMAIN v : r # q => new[r] = v[r]
    BY <1>5 DEF Put
  <2>2. DOMAIN new = {PathsOf(t)[i] : i \in Pairs(t)}
    <3>1. DOMAIN v = {PathsOf(s)[i] : i \in Pairs(s)}
      BY DEF ValuesRight
    <3>2. {PathsOf(s)[i] : i \in Pairs(s)} = {PathsOf(t)[i] : i \in Pairs(s)}
      BY <1>3
    <3>3. {PathsOf(t)[i] : i \in Pairs(t)} = {PathsOf(t)[i] : i \in Pairs(s)} \cup {q}
      BY <1>2, <1>5
    <3>. QED
      BY <2>1, <3>1, <3>2, <3>3
  <2>3. ASSUME NEW i \in Pairs(t)
        PROVE  new[PathsOf(t)[i]] = LastOf(SamePath(t, PathsOf(t)[i]))
    <3>1. PICK r : r = PathsOf(t)[i]
      OBVIOUS
    <3>2. CASE r = q
      <4>1. n + 1 \in SamePath(t, q)
        BY <1>2, <1>5 DEF SamePath
      <4>2. n + 1 \in Nat /\ \A j \in SamePath(t, q) : j \in 1..(n + 1) /\ j <= n + 1
        BY <1>2, <1>5 DEF SamePath
      <4>3. Within(SamePath(t, q), n + 1)
        BY <4>2 DEF Within
      <4>4. LastOf(SamePath(t, q)) = n + 1
        BY <4>1, <4>2, <4>3, LastOfEquals
      <4>. QED
        BY <2>1, <3>1, <3>2, <4>4
    <3>3. CASE r # q
      <4>1. i \in Pairs(s) /\ r = PathsOf(s)[i]
        BY <1>2, <1>3, <1>5, <3>1, <3>3
      <4>2. SamePath(t, r) = SamePath(s, r)
        BY <1>2, <1>3, <1>5, <3>3 DEF SamePath
      <4>3. v[r] = LastOf(SamePath(s, r)) /\ r \in DOMAIN v
        BY <4>1 DEF ValuesRight
      <4>. QED
        BY <2>1, <3>1, <3>3, <4>2, <4>3
    <3>. QED
      BY <3>2, <3>3
  <2>. QED
    BY <2>2, <2>3 DEF ValuesRight
<1>. QED
  BY <1>4, <1>5

\* The parser of environments: its stack and its values are what the lines so far
\* say.
ConfigInv ==
  file = "config" =>
    /\ text \in Seq(ConfigLines)
    /\ StackRight(text, Len(text), stack) /\ PathsRight(text, stack)
    /\ ValuesRight(text, values_)

LEMMA ConfigIndents ==
  ASSUME NEW s \in Seq(ConfigLines)
  PROVE  Len(s) \in Nat /\ Indented(s, Len(s))
<1>1. Len(s) \in Nat /\ \A x \in 1..Len(s) : s[x] \in ConfigLines
  BY ElementOfSeq, LenProperties
<1>. QED
  BY <1>1, LinesAssumption DEF Indented

LEMMA ConfigInit == Init => ConfigInv
<1> SUFFICES ASSUME Init PROVE ConfigInv
  OBVIOUS
<1>1. text = <<>> /\ stack = <<>> /\ values_ = <<>>
  BY DEF Init
<1>2. Len(<<>>) = 0 /\ DOMAIN <<>> = {} /\ 1..0 = {}
  OBVIOUS
<1>3. \A X : <<>> \in Seq(X)
  BY EmptySeq
<1>4. StackRight(<<>>, 0, <<>>) /\ PathsRight(<<>>, <<>>)
  BY <1>2, <1>3 DEF StackRight, PathsRight
<1>5. ValuesRight(<<>>, <<>>)
  BY <1>2 DEF ValuesRight, Pairs
<1>. QED
  BY <1>1, <1>2, <1>3, <1>4, <1>5 DEF ConfigInv

LEMMA ConfigStep == ConfigInv /\ [Next]_vars => ConfigInv'
<1> SUFFICES ASSUME ConfigInv, [Next]_vars, file' = "config" PROVE ConfigInv'
  BY DEF ConfigInv
<1>1. CASE UNCHANGED vars
  BY <1>1 DEF ConfigInv
<1>2. CASE Next
  <2>1. file = "config"
    BY <1>2 DEF Next, Read
  <2>2. PICK line \in ConfigLines : Read(line) /\ ParseLine(line)
    BY <1>2, <2>1 DEF Next
  <2>3. /\ text \in Seq(ConfigLines)
        /\ StackRight(text, Len(text), stack) /\ PathsRight(text, stack)
        /\ ValuesRight(text, values_)
    BY <2>1 DEF ConfigInv
  <2>4. PICK s, t, n : s = text /\ t = Append(text, line) /\ n = Len(text)
    OBVIOUS
  <2>5. Grows(s, t, n, line) /\ n \in Nat /\ t \in Seq(ConfigLines) /\ Len(t) = n + 1
    BY <2>3, <2>4, AppendGrows DEF Grows
  <2>6. text' = t /\ Now = n + 1
    BY <2>2, <2>4 DEF Read, Now
  <2>7. Indented(s, n) /\ line.indent \in Nat
    BY <2>3, <2>4, ConfigIndents, LinesAssumption
  <2>8. PICK m, u : m = Left(s, stack, line) /\ u = SubSeq(stack, 1, m)
    OBVIOUS
  <2>9. Open(line) = u
    BY <2>4, <2>8 DEF Open, Left
  <2>10. PICK q : q = PathsOf(t)[n + 1]
    OBVIOUS
  <2>11. q = Append(Path(Open(line)), line.key)
    <3>1. q = Append(KeysOf(s, u), line.key)
      BY <2>3, <2>4, <2>5, <2>7, <2>8, <2>10, PathNext
    <3>2. Path(u) = KeysOf(s, u)
      BY <2>4 DEF Path, KeysOf
    <3>. QED
      BY <2>9, <3>1, <3>2
  <2>12. /\ stack' = IF line.kind = "bare" THEN Append(u, n + 1) ELSE u
         /\ values_' = IF line.kind = "pair" THEN Put(values_, q, n + 1) ELSE values_
    BY <2>2, <2>6, <2>9, <2>11 DEF ParseLine
  <2>13. StackRight(t, n + 1, stack') /\ PathsRight(t, stack')
    BY <2>3, <2>4, <2>5, <2>7, <2>8, <2>12, StackNext
  <2>14. ValuesRight(t, values_')
    BY <2>3, <2>4, <2>5, <2>10, <2>12, ValuesNext
  <2>. QED
    BY <2>5, <2>6, <2>13, <2>14 DEF ConfigInv
<1>. QED
  BY <1>1, <1>2

\* ConfigManager keeps every value under the sections that its indentation puts
\* it in, for any text.
THEOREM ConfigStaysExact == Spec => []ConfigIsExact
<1>1. ConfigInv => ConfigIsExact
  <2> SUFFICES ASSUME ConfigInv, file = "config" PROVE ConfigIsExact
    BY DEF ConfigIsExact
  <2>1. ValuesRight(text, values_)
    BY DEF ConfigInv
  <2>. QED
    BY <2>1 DEF ConfigIsExact, ValuesRight, Pairs, SamePath
<1>. QED
  BY <1>1, ConfigInit, ConfigStep, PTL DEF Spec
-----------------------------------------------------------------------------
(***************************************************************************)
(* LoadRulesFile: where rules and actions start, and which are open after  *)
(* n lines.                                                                *)
(***************************************************************************)
Starts(s) == Bounds(s) \cup TypeLines(s)

OpenAt(s)      == IF Bounds(s) = {} THEN 1 ELSE LastOf(Bounds(s))
LastType(s)    == LastOf(TypeLines(s))
Acting(s)      == LastType(s) >= OpenAt(s)
OpenTypes(s, n) == TypeLines(s) \cap (OpenAt(s)..n)

\* Keys before a type line that no action has taken yet are from this line on.
WaitingFrom(s) == IF TypeLines(s) = {} THEN 1 ELSE NextOf(s, LastType(s), Starts(s))

LEMMA EndIs ==
  ASSUME NEW s, NEW x
  PROVE  ActionEnd(s, x) = NextOf(s, x, Starts(s)) - 1
BY DEF ActionEnd, Starts

LEMMA StartsNext ==
  ASSUME NEW s, NEW t, NEW n, NEW line, Grows(s, t, n, line)
  PROVE  /\ Within(Bounds(s), n) /\ Within(TypeLines(s), n) /\ Within(Starts(s), n)
         /\ line.key = "id" /\ IdLines(s) # {} => Bounds(t) = Bounds(s) \cup {n + 1}
         /\ line.key # "id" \/ IdLines(s) = {} => Bounds(t) = Bounds(s)
         /\ line.key = "type" => TypeLines(t) = TypeLines(s) \cup {n + 1}
         /\ line.key # "type" => TypeLines(t) = TypeLines(s)
<1>1. n \in Nat
  BY DEF Grows
<1>2. PICK I, J : I = IdLines(s) /\ J = IdLines(t)
  OBVIOUS
<1>3. /\ Within(I, n)
      /\ line.key = "id" => J = I \cup {n + 1}
      /\ line.key # "id" => J = I
  BY <1>2, IdsNext
<1>4. Bounds(s) = {i \in I : Before(i, I) # {}} /\ Bounds(t) = {i \in J : Before(i, J) # {}}
  BY <1>2 DEF Bounds
<1>5. (\A i \in I : i \in 1..n /\ i \in Nat) /\ n + 1 \notin I
  BY <1>1, <1>3 DEF Within
<1>6. ASSUME NEW i \in I PROVE Before(i, I \cup {n + 1}) = Before(i, I)
  BY <1>1, <1>5 DEF Before
<1>7. Before(n + 1, I \cup {n + 1}) = I
  BY <1>1, <1>5 DEF Before
<1>8. Within(Bounds(s), n)
  BY <1>4, <1>5 DEF Within
<1>9. /\ line.key = "id" /\ I # {} => Bounds(t) = Bounds(s) \cup {n + 1}
      /\ line.key # "id" \/ I = {} => Bounds(t) = Bounds(s)
  BY <1>3, <1>4, <1>6, <1>7
<1>10. /\ Within(TypeLines(s), n)
       /\ line.key = "type" => TypeLines(t) = TypeLines(s) \cup {n + 1}
       /\ line.key # "type" => TypeLines(t) = TypeLines(s)
  BY KeyedNext DEF TypeLines
<1>11. Within(Starts(s), n)
  BY <1>8, <1>10 DEF Starts, Within
<1>. QED
  BY <1>2, <1>8, <1>9, <1>10, <1>11

\* The rule that is open has no bound after its own, and it has an action when no
\* bound follows the last type line.
LEMMA OpenIs ==
  ASSUME NEW s, NEW n \in Nat, Len(s) = n, Within(Bounds(s), n), Within(TypeLines(s), n)
  PROVE  /\ OpenAt(s) \in 1..(n + 1) /\ LastType(s) \in 0..n
         /\ OpenAt(s) = 1 \/ OpenAt(s) \in Bounds(s)
         /\ \A b \in Bounds(s) : b <= OpenAt(s)
         /\ \A x \in TypeLines(s) : x <= LastType(s)
         /\ LastType(s) = 0 <=> TypeLines(s) = {}
         /\ LastType(s) # 0 => LastType(s) \in TypeLines(s)
         /\ Acting(s) => /\ LastType(s) \in OpenTypes(s, n)
                         /\ ~ Followed(Starts(s), LastType(s))
         /\ ~ Acting(s) => /\ OpenTypes(s, n) = {}
                           /\ LastType(s) # 0 => Followed(Starts(s), LastType(s))
         /\ WaitingFrom(s) \in 1..(n + 1)
<1>1. PICK B, T, o, a : B = Bounds(s) /\ T = TypeLines(s) /\ o = OpenAt(s) /\ a = LastType(s)
  OBVIOUS
<1>2. Within(B, n) /\ Within(T, n)
  BY <1>1
<1>3. /\ LastOf(B) \in 0..n /\ (LastOf(B) = 0 <=> B = {})
      /\ (B # {} => LastOf(B) \in B) /\ \A x \in B : x <= LastOf(B)
  BY <1>2, LastOfIs
<1>4. /\ a \in 0..n /\ (a = 0 <=> T = {}) /\ (a # 0 => a \in T) /\ \A x \in T : x <= a
  BY <1>1, <1>2, LastOfIs DEF LastType
<1>5. o \in 1..(n + 1) /\ (o = 1 \/ o \in B) /\ \A b \in B : b <= o
  BY <1>1, <1>3 DEF OpenAt
<1>6. (\A x \in B : x \in 1..n) /\ \A x \in T : x \in 1..n
  BY <1>2 DEF Within
<1>7. Starts(s) = B \cup T /\ OpenTypes(s, n) = T \cap (o..n) /\ (Acting(s) <=> a >= o)
  BY <1>1 DEF Starts, OpenTypes, Acting
<1>8. a >= o => a \in T /\ a \in o..n /\ \A x \in B \cup T : ~ (x > a)
  BY <1>4, <1>5, <1>6
<1>9. ~ (a >= o) => T \cap (o..n) = {} /\ (a # 0 => o \in B /\ o > a)
  BY <1>4, <1>5, <1>6
<1>10. Acting(s) => LastType(s) \in OpenTypes(s, n) /\ ~ Followed(Starts(s), LastType(s))
  BY <1>1, <1>7, <1>8 DEF Followed
<1>11. ~ Acting(s) => /\ OpenTypes(s, n) = {}
                      /\ LastType(s) # 0 => Followed(Starts(s), LastType(s))
  BY <1>1, <1>7, <1>9 DEF Followed
<1>12. WaitingFrom(s) \in 1..(n + 1)
  <2>1. Within(Starts(s), n)
    BY <1>2, <1>7 DEF Within
  <2>2. NextOf(s, a, Starts(s)) \in 1..(n + 1)
    BY <1>4, <2>1, NextIs
  <2>. QED
    BY <1>1, <2>2 DEF WaitingFrom
<1>. QED
  BY <1>1, <1>4, <1>5, <1>10, <1>11, <1>12

\* An action is complete with the next start.
LEMMA ActionStays ==
  ASSUME NEW s, NEW t, NEW n, NEW line, Grows(s, t, n, line), NEW x \in TypeLines(s),
         Starts(t) = Starts(s) \cup {n + 1} \/ Starts(t) = Starts(s),
         Starts(t) = Starts(s) => Followed(Starts(s), x)
  PROVE  ActionAt(t, x) = ActionAt(s, x)
<1>1. n \in Nat /\ Len(s) = n
  BY DEF Grows
<1>2. PICK S, U : S = Starts(s) /\ U = Starts(t)
  OBVIOUS
<1>3. Within(S, n) /\ Within(TypeLines(s), n) /\ TypeLines(s) \subseteq S
  BY <1>2, StartsNext DEF Starts
<1>4. x \in 1..n /\ x \in 1..(n + 1) /\ x \in 0..n
  BY <1>1, <1>3 DEF Within
<1>5. PICK p : p = LastOf(Before(x, TypeLines(s)))
  OBVIOUS
<1>6. p \in 0..n /\ p < x /\ Before(x, TypeLines(s) \cup {n + 1}) = Before(x, TypeLines(s))
  BY <1>1, <1>3, <1>4, <1>5, BeforeIs
<1>7. p = LastOf(Before(x, TypeLines(t)))
  <2>1. TypeLines(t) = TypeLines(s) \/ TypeLines(t) = TypeLines(s) \cup {n + 1}
    BY StartsNext
  <2>. QED
    BY <1>5, <1>6, <2>1
<1>8. Followed(S, p) /\ (U = S \cup {n + 1} \/ (U = S /\ Followed(S, x)))
  BY <1>2, <1>3, <1>6 DEF Followed
<1>9. NextOf(t, p, U) = NextOf(s, p, S)
  <2>1. /\ NextOf(t, p, S \cup {n + 1}) = NextOf(s, p, S)
        /\ Followed(S, p) => NextOf(t, p, S) = NextOf(s, p, S)
    BY <1>3, <1>6, NextStays
  <2>. QED
    BY <1>8, <2>1
<1>10. NextOf(t, x, U) = NextOf(s, x, S)
  <2>1. /\ NextOf(t, x, S \cup {n + 1}) = NextOf(s, x, S)
        /\ Followed(S, x) => NextOf(t, x, S) = NextOf(s, x, S)
    BY <1>3, <1>4, NextStays
  <2>. QED
    BY <1>8, <2>1
<1>11. PICK e, f : e = ActionEnd(s, x) /\ f = IF p = 0 THEN 1 ELSE ActionEnd(s, p) + 1
  OBVIOUS
<1>12. ActionEnd(t, x) = e /\ f = IF p = 0 THEN 1 ELSE ActionEnd(t, p) + 1
  BY <1>2, <1>9, <1>10, <1>11 DEF ActionEnd, Starts
<1>13. e \in 0..n /\ f \in 1..(n + 1)
  <2>1. NextOf(s, x, S) \in 1..(n + 1) /\ NextOf(s, p, S) \in 1..(n + 1)
    BY <1>1, <1>3, <1>4, <1>6, NextIs
  <2>. QED
    BY <1>1, <1>2, <1>11, <2>1 DEF ActionEnd, Starts
<1>14. Within(f..e, n) /\ Within(x..e, n)
  BY <1>1, <1>4, <1>13 DEF Within
<1>15. ActionAt(s, x) = [type |-> ValueOf(s, x), actuator_id |-> FieldOf(s, "actuator_id", f..e),
                         value |-> FieldOf(s, "value", x..e)]
  BY <1>5, <1>11 DEF ActionAt
<1>16. ActionAt(t, x) = [type |-> ValueOf(t, x), actuator_id |-> FieldOf(t, "actuator_id", f..e),
                         value |-> FieldOf(t, "value", x..e)]
  BY <1>7, <1>12 DEF ActionAt
<1>. QED
  BY <1>4, <1>14, <1>15, <1>16, ValueStays, FieldStays

\* A field read while an action is open is that action's.
LEMMA ActionNext ==
  ASSUME NEW s, NEW t, NEW n, NEW line, Grows(s, t, n, line), NEW x \in TypeLines(s),
         Starts(t) = Starts(s), TypeLines(t) = TypeLines(s), ~ Followed(Starts(s), x),
         NEW v, v = IF line.kind = "bare" THEN 0 ELSE n + 1,
         NEW A, A = ActionAt(s, x)
  PROVE  ActionAt(t, x) =
           [type |-> A.type,
            actuator_id |-> IF line.key = "actuator_id" THEN v ELSE A.actuator_id,
            value |-> IF line.key = "value" THEN v ELSE A.value]
<1>1. n \in Nat /\ Len(s) = n /\ Len(t) = n + 1
  BY DEF Grows
<1>2. PICK S : S = Starts(s)
  OBVIOUS
<1>3. Within(S, n) /\ Within(S, n + 1) /\ Within(TypeLines(s), n) /\ TypeLines(s) \subseteq S
  BY <1>1, <1>2, StartsNext DEF Starts, Within
<1>4. x \in 1..n /\ x \in 1..(n + 1) /\ x \in 0..n /\ x \in 0..(n + 1)
  BY <1>1, <1>3 DEF Within
<1>5. PICK p : p = LastOf(Before(x, TypeLines(s)))
  OBVIOUS
<1>6. p \in 0..n /\ p < x
  BY <1>1, <1>3, <1>4, <1>5, BeforeIs
<1>7. Followed(S, p)
  BY <1>2, <1>3, <1>6 DEF Followed
<1>8. NextOf(t, p, S) = NextOf(s, p, S)
  <2>1. /\ NextOf(t, p, S \cup {n + 1}) = NextOf(s, p, S)
        /\ Followed(S, p) => NextOf(t, p, S) = NextOf(s, p, S)
    BY <1>3, <1>6, NextStays
  <2>. QED
    BY <1>7, <2>1
<1>9. \A y \in S : y <= x
  BY <1>2, <1>3, <1>4 DEF Followed, Within
<1>10. NextOf(s, x, S) = n + 1
  BY <1>1, <1>3, <1>4, <1>9, NextIs
<1>11. NextOf(t, x, S) = (n + 1) + 1
  BY <1>1, <1>3, <1>4, <1>9, NextIs
<1>12. PICK f : f = IF p = 0 THEN 1 ELSE ActionEnd(s, p) + 1
  OBVIOUS
<1>13. f \in 1..(n + 1)
  <2>1. NextOf(s, p, S) \in 1..(n + 1)
    BY <1>1, <1>3, <1>6, NextIs
  <2>. QED
    BY <1>1, <1>2, <1>12, <2>1 DEF ActionEnd, Starts
<1>14. ActionEnd(s, x) = n /\ ActionEnd(t, x) = n + 1
       /\ f = IF p = 0 THEN 1 ELSE ActionEnd(t, p) + 1
  <2>1. /\ ActionEnd(s, x) = NextOf(s, x, S) - 1 /\ ActionEnd(t, x) = NextOf(t, x, S) - 1
        /\ ActionEnd(s, p) = NextOf(s, p, S) - 1 /\ ActionEnd(t, p) = NextOf(t, p, S) - 1
    BY <1>2, EndIs
  <2>. QED
    BY <1>1, <1>8, <1>10, <1>11, <1>12, <2>1
<1>15. PICK P, V : P = f..n /\ V = x..n
  OBVIOUS
<1>16. /\ Within(P, n) /\ f..(n + 1) = P \cup {n + 1}
       /\ Within(V, n) /\ x..(n + 1) = V \cup {n + 1}
  BY <1>1, <1>4, <1>13, <1>15 DEF Within
<1>17. A = [type |-> ValueOf(s, x), actuator_id |-> FieldOf(s, "actuator_id", P),
            value |-> FieldOf(s, "value", V)]
  BY <1>5, <1>12, <1>14, <1>15 DEF ActionAt
<1>18. ActionAt(t, x) = [type |-> ValueOf(t, x),
                         actuator_id |-> FieldOf(t, "actuator_id", P \cup {n + 1}),
                         value |-> FieldOf(t, "value", V \cup {n + 1})]
  BY <1>5, <1>14, <1>16 DEF ActionAt
<1>19. ValueOf(t, x) = ValueOf(s, x)
  BY <1>4, ValueStays
<1>20. FieldOf(t, "actuator_id", P \cup {n + 1}) =
         IF line.key = "actuator_id" THEN v ELSE FieldOf(s, "actuator_id", P)
  BY <1>16, FieldNext
<1>21. FieldOf(t, "value", V \cup {n + 1}) =
         IF line.key = "value" THEN v ELSE FieldOf(s, "value", V)
  BY <1>16, FieldNext
<1>. QED
  BY <1>17, <1>18, <1>19, <1>20, <1>21

\* A type line starts an action with the actuator that waits for one.
LEMMA ActionBegins ==
  ASSUME NEW s, NEW t, NEW n, NEW line, Grows(s, t, n, line), line.key = "type",
         NEW v, v = IF line.kind = "bare" THEN 0 ELSE n + 1
  PROVE  ActionAt(t, n + 1) =
           [type |-> v, actuator_id |-> FieldOf(s, "actuator_id", WaitingFrom(s)..n), value |-> 0]
<1>1. n \in Nat /\ Len(s) = n /\ Len(t) = n + 1
  BY DEF Grows
<1>2. PICK S, T : S = Starts(s) /\ T = TypeLines(s)
  OBVIOUS
<1>3. /\ Within(S, n) /\ Within(T, n) /\ Within(Bounds(s), n)
      /\ TypeLines(t) = T \cup {n + 1} /\ Bounds(t) = Bounds(s)
  BY <1>2, StartsNext
<1>4. Starts(t) = S \cup {n + 1} /\ Within(S \cup {n + 1}, n + 1)
  BY <1>1, <1>2, <1>3 DEF Starts, Within
<1>5. PICK p : p = LastType(s)
  OBVIOUS
<1>6. p \in 0..n /\ (p = 0 <=> T = {})
  BY <1>1, <1>2, <1>3, <1>5, OpenIs
<1>7. LastOf(Before(n + 1, TypeLines(t))) = p
  <2>1. Before(n + 1, T \cup {n + 1}) = T
    <3>1. n + 1 \notin T /\ \A y \in T : y < n + 1
      BY <1>1, <1>3 DEF Within
    <3>2. ~ (n + 1 < n + 1)
      BY <1>1
    <3>. QED
      BY <3>1, <3>2 DEF Before
  <2>. QED
    BY <1>2, <1>3, <1>5, <2>1 DEF LastType
<1>8. NextOf(t, p, S \cup {n + 1}) = NextOf(s, p, S)
  BY <1>3, <1>6, NextStays
<1>9. PICK w : w = WaitingFrom(s)
  OBVIOUS
<1>10. w \in 1..(n + 1)
  <2>1. Within(TypeLines(s), n)
    BY <1>2, <1>3
  <2>. QED
    BY <1>1, <1>3, <1>9, <2>1, OpenIs
<1>11. w = IF p = 0 THEN 1 ELSE NextOf(s, p, S)
  BY <1>2, <1>5, <1>6, <1>9 DEF WaitingFrom
<1>12. NextOf(s, p, S) \in 1..(n + 1)
  BY <1>1, <1>3, <1>6, NextIs
<1>13. w = IF p = 0 THEN 1 ELSE ActionEnd(t, p) + 1
  <2>1. ActionEnd(t, p) = NextOf(s, p, S) - 1
    BY <1>4, <1>8, EndIs
  <2>. QED
    BY <1>1, <1>11, <1>12, <2>1
<1>14. ActionEnd(t, n + 1) = n + 1
  <2>1. \A y \in S \cup {n + 1} : y <= n + 1
    BY <1>1, <1>3 DEF Within
  <2>2. n + 1 \in Nat /\ n + 1 \in 0..(n + 1)
    BY <1>1
  <2>3. NextOf(t, n + 1, S \cup {n + 1}) = (n + 1) + 1
    BY <1>1, <1>4, <2>1, <2>2, NextIs
  <2>. QED
    <3>1. ActionEnd(t, n + 1) = NextOf(t, n + 1, S \cup {n + 1}) - 1
      BY <1>4, EndIs
    <3>2. ((n + 1) + 1) - 1 = n + 1
      BY <1>1
    <3>. QED
      BY <2>3, <3>1, <3>2
<1>15. PICK P : P = w..n
  OBVIOUS
<1>16. Within(P, n) /\ w..(n + 1) = P \cup {n + 1} /\ (n + 1)..(n + 1) = {} \cup {n + 1}
       /\ Within({}, n)
  BY <1>1, <1>10, <1>15 DEF Within
<1>17. ActionAt(t, n + 1) =
         [type |-> ValueOf(t, n + 1),
          actuator_id |-> FieldOf(t, "actuator_id", P \cup {n + 1}),
          value |-> FieldOf(t, "value", {} \cup {n + 1})]
  BY <1>7, <1>13, <1>14, <1>16 DEF ActionAt
<1>18. /\ FieldOf(t, "actuator_id", P \cup {n + 1}) = FieldOf(s, "actuator_id", P)
       /\ FieldOf(t, "value", {} \cup {n + 1}) = FieldOf(s, "value", {})
  BY <1>16, FieldNext
<1>19. FieldOf(s, "value", {}) = 0
  BY DEF FieldOf, Keyed, LastOf, ValueOf
<1>. QED
  BY <1>9, <1>15, <1>17, <1>18, <1>19, ValueStays

LEMMA NoneWaits ==
  ASSUME NEW s, NEW n \in Nat, Len(s) = n, Within(Bounds(s), n), Within(TypeLines(s), n),
         Acting(s)
  PROVE  WaitingFrom(s) = n + 1 /\ \A key : FieldOf(s, key, WaitingFrom(s)..n) = 0
<1>1. PICK S, a : S = Starts(s) /\ a = LastType(s)
  OBVIOUS
<1>2. Within(S, n)
  BY <1>1 DEF Starts, Within
<1>3. a \in OpenTypes(s, n) /\ ~ Followed(S, a) /\ a \in 0..n
  BY <1>1, OpenIs
<1>4. TypeLines(s) # {}
  BY <1>3 DEF OpenTypes
<1>5. \A y \in S : y <= a
  BY <1>2, <1>3 DEF Followed, Within
<1>6. NextOf(s, a, S) = n + 1
  BY <1>2, <1>3, <1>5, NextIs
<1>7. WaitingFrom(s) = n + 1
  BY <1>1, <1>4, <1>6 DEF WaitingFrom
<1>8. WaitingFrom(s)..n = {}
  BY <1>7
<1>. QED
  BY <1>7, <1>8 DEF FieldOf, Keyed, LastOf, ValueOf

LEMMA WaitingStays ==
  ASSUME NEW s, NEW t, NEW n, NEW line, Grows(s, t, n, line), TypeLines(t) = TypeLines(s),
         Starts(t) = Starts(s) \cup {n + 1} \/ Starts(t) = Starts(s),
         Starts(t) = Starts(s) => ~ Acting(s)
  PROVE  WaitingFrom(t) = WaitingFrom(s)
<1>1. n \in Nat /\ Len(s) = n
  BY DEF Grows
<1>2. PICK S, U, a : S = Starts(s) /\ U = Starts(t) /\ a = LastType(s)
  OBVIOUS
<1>3. Within(S, n) /\ Within(TypeLines(s), n) /\ Within(Bounds(s), n)
  BY <1>2, StartsNext
<1>4. a = LastType(t)
  BY <1>2 DEF LastType
<1>5. CASE TypeLines(s) = {}
  BY <1>5 DEF WaitingFrom
<1>6. CASE TypeLines(s) # {}
  <2>1. /\ a \in 0..n /\ a # 0
        /\ ~ Acting(s) => Followed(S, a)
    BY <1>1, <1>2, <1>3, <1>6, OpenIs
  <2>2. /\ NextOf(t, a, S \cup {n + 1}) = NextOf(s, a, S)
        /\ Followed(S, a) => NextOf(t, a, S) = NextOf(s, a, S)
    BY <1>3, <2>1, NextStays
  <2>3. U = S \cup {n + 1} \/ (U = S /\ Followed(S, a))
    BY <1>2, <2>1
  <2>4. NextOf(t, a, U) = NextOf(s, a, S)
    BY <2>2, <2>3
  <2>. QED
    BY <1>2, <1>4, <1>6, <2>4 DEF WaitingFrom
<1>. QED
  BY <1>5, <1>6

LEMMA ActionsStay ==
  ASSUME NEW s, NEW t, NEW then, NEW types, HasActions(s, then, types),
         \A x \in types : ActionAt(t, x) = ActionAt(s, x)
  PROVE  HasActions(t, then, types)
BY DEF HasActions

LEMMA ActionsGrow ==
  ASSUME NEW s, NEW X, NEW then \in Seq(X), NEW types, types \subseteq Nat,
         HasActions(s, then, types),
         NEW a \in Nat, \A x \in types : x < a,
         NEW A, A = ActionAt(s, a)
  PROVE  HasActions(s, Append(then, A), types \cup {a})
<1>1. PICK at \in [DOMAIN then -> types] :
        /\ types = {at[n] : n \in DOMAIN then}
        /\ \A m, n \in DOMAIN then : m < n => at[m] < at[n]
        /\ \A n \in DOMAIN then : then[n] = ActionAt(s, at[n])
  BY DEF HasActions
<1>2. PICK k, all : k = Len(then) /\ all = Append(then, A)
  OBVIOUS
<1>3. /\ k \in Nat /\ DOMAIN then = 1..k /\ DOMAIN all = 1..(k + 1)
      /\ all[k + 1] = A /\ \A n \in 1..k : all[n] = then[n]
  BY <1>2, AppendProperties, LenProperties
<1>4. PICK on : on = [n \in DOMAIN all |-> IF n = k + 1 THEN a ELSE at[n]]
  OBVIOUS
<1>5. DOMAIN on = 1..(k + 1) /\ on[k + 1] = a /\ \A n \in 1..k : on[n] = at[n]
  BY <1>3, <1>4
<1>6. on \in [DOMAIN all -> types \cup {a}]
  BY <1>1, <1>3, <1>4
<1>7. types \cup {a} = {on[n] : n \in DOMAIN all}
  <2>1. \A n \in DOMAIN all : n = k + 1 \/ n \in 1..k
    BY <1>3
  <2>2. k + 1 \in DOMAIN all /\ \A n \in 1..k : n \in DOMAIN all
    BY <1>3
  <2>3. \A n \in DOMAIN all : on[n] \in types \cup {a}
    BY <1>6
  <2>4. ASSUME NEW x \in types PROVE \E n \in DOMAIN all : on[n] = x
    <3>1. PICK n \in 1..k : at[n] = x
      BY <1>1, <1>3
    <3>. QED
      BY <1>5, <2>2, <3>1
  <2>. QED
    BY <1>5, <2>2, <2>3, <2>4
<1>8. ASSUME NEW m \in DOMAIN all, NEW n \in DOMAIN all, m < n PROVE on[m] < on[n]
  <2>1. m \in 1..k /\ (n = k + 1 \/ n \in 1..k)
    BY <1>3, <1>8
  <2>2. CASE n = k + 1
    <3>1. at[m] \in types
      BY <1>1, <1>3, <2>1
    <3>. QED
      BY <1>5, <2>1, <2>2, <3>1
  <2>3. CASE n \in 1..k
    BY <1>1, <1>3, <1>5, <1>8, <2>1, <2>3
  <2>. QED
    BY <2>1, <2>2, <2>3
<1>9. ASSUME NEW n \in DOMAIN all PROVE all[n] = ActionAt(s, on[n])
  <2>1. n = k + 1 \/ n \in 1..k
    BY <1>3
  <2>2. CASE n = k + 1
    BY <1>3, <1>5, <2>2
  <2>3. CASE n \in 1..k
    BY <1>1, <1>3, <1>5, <2>3
  <2>. QED
    BY <2>1, <2>2, <2>3
<1>. QED
  BY <1>2, <1>6, <1>7, <1>8, <1>9 DEF HasActions
-----------------------------------------------------------------------------
(***************************************************************************)
(* LoadRulesFile: the open rule and its open action are what the lines of  *)
(* the open block say, and the finished rules are out of reach.            *)
(***************************************************************************)
ActionType == [type : Nat, actuator_id : Nat, value : Nat]
RuleType ==
  [id : Nat, enabled : Nat, sensor_id : Nat, value : Nat, then : Seq(ActionType)]

\* The lines that may set the threshold: those above the open rule's actions.
Condition(s, n) == {k \in OpenAt(s)..n : \A x \in OpenTypes(s, n) : k < x}

CurrentRight(s, n, cur, act) ==
  /\ cur.id = ValueOf(s, LastOf(IdLines(s)))
  /\ cur.enabled = FieldOf(s, "enabled", OpenAt(s)..n)
  /\ cur.sensor_id = FieldOf(s, "sensor_id", OpenAt(s)..n)
  /\ cur.value = FieldOf(s, "value", Condition(s, n))
  /\ HasActions(s, cur.then, OpenTypes(s, n) \ {LastType(s)})
  /\ act = IF Acting(s) THEN ActionAt(s, LastType(s))
           ELSE [type |-> 0, actuator_id |-> FieldOf(s, "actuator_id", WaitingFrom(s)..n),
                 value |-> 0]

FinishedRight(s, rs, id) ==
  /\ ListsAllBut(s, rs, id)
  /\ \A k \in DOMAIN rs : IsRule(s, rs[k], BlockOf(s, rs[k].id))

LEMMA FieldShape ==
  ASSUME NEW s, NEW t, NEW n, NEW line, Grows(s, t, n, line),
         line.key # "type", line.key # "id" \/ IdLines(s) = {}
  PROVE  /\ TypeLines(t) = TypeLines(s) /\ Starts(t) = Starts(s)
         /\ OpenAt(t) = OpenAt(s) /\ LastType(t) = LastType(s) /\ (Acting(t) <=> Acting(s))
         /\ OpenTypes(t, n + 1) = OpenTypes(s, n)
         /\ OpenAt(s)..(n + 1) = (OpenAt(s)..n) \cup {n + 1} /\ Within(OpenAt(s)..n, n)
         /\ Condition(t, n + 1) =
              IF Acting(s) THEN Condition(s, n) ELSE Condition(s, n) \cup {n + 1}
         /\ Within(Condition(s, n), n)
<1>1. n \in Nat /\ Len(s) = n
  BY DEF Grows
<1>2. /\ Within(Bounds(s), n) /\ Within(TypeLines(s), n)
      /\ Bounds(t) = Bounds(s) /\ TypeLines(t) = TypeLines(s)
  BY StartsNext
<1>3. /\ Starts(t) = Starts(s) /\ OpenAt(t) = OpenAt(s) /\ LastType(t) = LastType(s)
      /\ (Acting(t) <=> Acting(s))
  BY <1>2 DEF Starts, OpenAt, LastType, Acting
<1>4. PICK o, a, T, X : /\ o = OpenAt(s) /\ a = LastType(s) /\ T = TypeLines(s)
                        /\ X = OpenTypes(s, n)
  OBVIOUS
<1>5. /\ o \in 1..(n + 1) /\ a \in 0..n
      /\ Acting(s) => a \in X
      /\ ~ Acting(s) => X = {}
  BY <1>1, <1>2, <1>4, OpenIs
<1>6. \A x \in T : x \in 1..n
  BY <1>2, <1>4 DEF Within
<1>7. X = T \cap (o..n) /\ OpenTypes(t, n + 1) = T \cap (o..(n + 1))
  BY <1>2, <1>3, <1>4 DEF OpenTypes
<1>8. OpenTypes(t, n + 1) = X
  BY <1>1, <1>5, <1>6, <1>7
<1>9. o..(n + 1) = (o..n) \cup {n + 1} /\ Within(o..n, n)
  BY <1>1, <1>5 DEF Within
<1>10. Condition(s, n) = {k \in o..n : \A x \in X : k < x}
  BY <1>4 DEF Condition
<1>11. Condition(t, n + 1) = {k \in (o..n) \cup {n + 1} : \A x \in X : k < x}
  BY <1>3, <1>4, <1>8, <1>9 DEF Condition
<1>12. Within(Condition(s, n), n)
  BY <1>9, <1>10 DEF Within
<1>13. CASE Acting(s)
  <2>1. ~ \A x \in X : n + 1 < x
    BY <1>1, <1>5, <1>13
  <2>. QED
    BY <1>2, <1>3, <1>4, <1>8, <1>9, <1>10, <1>11, <1>12, <1>13, <2>1
<1>14. CASE ~ Acting(s)
  <2>1. X = {}
    BY <1>5, <1>14
  <2>. QED
    BY <1>2, <1>3, <1>4, <1>8, <1>9, <1>10, <1>11, <1>12, <1>14, <2>1
<1>. QED
  BY <1>13, <1>14

LEMMA TypeShape ==
  ASSUME NEW s, NEW t, NEW n, NEW line, Grows(s, t, n, line), line.key = "type"
  PROVE  /\ Starts(t) = Starts(s) \cup {n + 1}
         /\ OpenAt(t) = OpenAt(s) /\ LastType(t) = n + 1 /\ Acting(t)
         /\ OpenTypes(t, n + 1) \ {n + 1} = OpenTypes(s, n)
         /\ OpenAt(s)..(n + 1) = (OpenAt(s)..n) \cup {n + 1} /\ Within(OpenAt(s)..n, n)
         /\ Condition(t, n + 1) = Condition(s, n) /\ Within(Condition(s, n), n)
<1>1. n \in Nat /\ Len(s) = n
  BY DEF Grows
<1>2. /\ Within(Bounds(s), n) /\ Within(TypeLines(s), n)
      /\ Bounds(t) = Bounds(s) /\ TypeLines(t) = TypeLines(s) \cup {n + 1}
  BY StartsNext
<1>3. Starts(t) = Starts(s) \cup {n + 1} /\ OpenAt(t) = OpenAt(s)
  BY <1>2 DEF Starts, OpenAt
<1>4. PICK o, T, X : o = OpenAt(s) /\ T = TypeLines(s) /\ X = OpenTypes(s, n)
  OBVIOUS
<1>5. o \in 1..(n + 1)
  BY <1>1, <1>2, <1>4, OpenIs
<1>6. \A x \in T : x \in 1..n
  BY <1>2, <1>4 DEF Within
<1>7. LastType(t) = n + 1
  <2>1. Within(T \cup {n + 1}, n + 1) /\ \A y \in T \cup {n + 1} : y <= n + 1
    BY <1>1, <1>6 DEF Within
  <2>2. n + 1 \in Nat /\ n + 1 \in T \cup {n + 1}
    BY <1>1
  <2>3. LastOf(T \cup {n + 1}) = n + 1
    BY <2>1, <2>2, LastOfEquals
  <2>. QED
    BY <1>2, <1>4, <2>3 DEF LastType
<1>8. Acting(t)
  BY <1>1, <1>3, <1>4, <1>5, <1>7 DEF Acting
<1>9. o..(n + 1) = (o..n) \cup {n + 1} /\ Within(o..n, n) /\ n + 1 \notin o..n
  BY <1>1, <1>5 DEF Within
<1>10. X = T \cap (o..n)
  BY <1>4 DEF OpenTypes
<1>11. OpenTypes(t, n + 1) = X \cup {n + 1}
  <2>1. OpenTypes(t, n + 1) = (T \cup {n + 1}) \cap ((o..n) \cup {n + 1})
    BY <1>2, <1>3, <1>4, <1>9 DEF OpenTypes
  <2>2. n + 1 \notin T
    BY <1>1, <1>6
  <2>. QED
    BY <1>10, <2>1, <2>2
<1>12. OpenTypes(t, n + 1) \ {n + 1} = X
  BY <1>9, <1>10, <1>11
<1>13. Condition(s, n) = {k \in o..n : \A x \in X : k < x}
  BY <1>4 DEF Condition
<1>14. Condition(t, n + 1) = {k \in (o..n) \cup {n + 1} : \A x \in X \cup {n + 1} : k < x}
  BY <1>3, <1>4, <1>9, <1>11 DEF Condition
<1>15. (\A k \in o..n : k < n + 1) /\ ~ (n + 1 < n + 1)
  BY <1>1, <1>5
<1>16. Condition(t, n + 1) = Condition(s, n) /\ Within(Condition(s, n), n)
  BY <1>9, <1>13, <1>14, <1>15 DEF Within
<1>. QED
  BY <1>3, <1>4, <1>7, <1>8, <1>9, <1>12, <1>16

LEMMA IdShape ==
  ASSUME NEW s, NEW t, NEW n, NEW line, Grows(s, t, n, line),
         line.key = "id", IdLines(s) # {}
  PROVE  /\ Starts(t) = Starts(s) \cup {n + 1} /\ TypeLines(t) = TypeLines(s)
         /\ OpenAt(t) = n + 1 /\ LastType(t) = LastType(s) /\ ~ Acting(t)
         /\ OpenTypes(t, n + 1) = {}
         /\ Condition(t, n + 1) = {n + 1} /\ OpenAt(t)..(n + 1) = {n + 1}
<1>1. n \in Nat /\ Len(s) = n
  BY DEF Grows
<1>2. /\ Within(Bounds(s), n) /\ Within(TypeLines(s), n)
      /\ Bounds(t) = Bounds(s) \cup {n + 1} /\ TypeLines(t) = TypeLines(s)
  BY StartsNext
<1>3. Starts(t) = Starts(s) \cup {n + 1} /\ LastType(t) = LastType(s)
  BY <1>2 DEF Starts, LastType
<1>4. PICK B, T, a : B = Bounds(s) /\ T = TypeLines(s) /\ a = LastType(s)
  OBVIOUS
<1>5. a \in 0..n
  BY <1>1, <1>2, <1>4, OpenIs
<1>6. OpenAt(t) = n + 1
  <2>1. Within(B \cup {n + 1}, n + 1) /\ \A y \in B \cup {n + 1} : y <= n + 1
    BY <1>1, <1>2, <1>4 DEF Within
  <2>2. n + 1 \in Nat /\ n + 1 \in B \cup {n + 1}
    BY <1>1
  <2>3. LastOf(B \cup {n + 1}) = n + 1
    BY <2>1, <2>2, LastOfEquals
  <2>. QED
    BY <1>2, <1>4, <2>3 DEF OpenAt
<1>7. ~ Acting(t)
  BY <1>1, <1>3, <1>4, <1>5, <1>6 DEF Acting
<1>8. (n + 1)..(n + 1) = {n + 1}
  BY <1>1
<1>9. \A x \in T : x \in 1..n
  BY <1>2, <1>4 DEF Within
<1>10. OpenTypes(t, n + 1) = {}
  <2>1. OpenTypes(t, n + 1) = T \cap {n + 1}
    BY <1>2, <1>4, <1>6, <1>8 DEF OpenTypes
  <2>2. n + 1 \notin T
    BY <1>1, <1>9
  <2>. QED
    BY <2>1, <2>2
<1>11. Condition(t, n + 1) = {n + 1}
  BY <1>6, <1>8, <1>10 DEF Condition
<1>. QED
  BY <1>2, <1>3, <1>6, <1>7, <1>8, <1>10, <1>11

\* flush_action: with the open action, the open rule is a rule of the text.
Done(s, cur, act) == IF Acting(s) THEN [cur EXCEPT !.then = Append(@, act)] ELSE cur

LEMMA DoneIs ==
  ASSUME NEW s, NEW n \in Nat, Len(s) = n, Within(Bounds(s), n), Within(TypeLines(s), n),
         NEW cur \in RuleType, NEW act \in ActionType, CurrentRight(s, n, cur, act)
  PROVE  /\ Done(s, cur, act) \in RuleType
         /\ Done(s, cur, act).id = cur.id /\ Done(s, cur, act).enabled = cur.enabled
         /\ Done(s, cur, act).sensor_id = cur.sensor_id /\ Done(s, cur, act).value = cur.value
         /\ HasActions(s, Done(s, cur, act).then, OpenTypes(s, n))
<1>1. PICK X, a, then : X = OpenTypes(s, n) /\ a = LastType(s) /\ then = cur.then
  OBVIOUS
<1>2. HasActions(s, then, X \ {a}) /\ then \in Seq(ActionType)
  BY <1>1 DEF CurrentRight, RuleType
<1>3. /\ a \in 0..n /\ \A x \in TypeLines(s) : x <= a
      /\ Acting(s) => a \in X
      /\ ~ Acting(s) => X = {}
  BY <1>1, OpenIs
<1>4. CASE Acting(s)
  <2>1. PICK d : d = Done(s, cur, act)
    OBVIOUS
  <2>2. d = [cur EXCEPT !.then = Append(cur.then, act)]
    BY <1>4, <2>1 DEF Done
  <2>3. Append(cur.then, act) \in Seq(ActionType)
    BY <1>1, <1>2
  <2>4. /\ d \in RuleType /\ d.id = cur.id /\ d.enabled = cur.enabled
        /\ d.sensor_id = cur.sensor_id /\ d.value = cur.value
        /\ d.then = Append(cur.then, act)
    BY <2>2, <2>3 DEF RuleType
  <2>5. act = ActionAt(s, a)
    BY <1>1, <1>4 DEF CurrentRight
  <2>6. /\ X \ {a} \subseteq Nat /\ a \in Nat /\ (\A x \in X \ {a} : x < a)
        /\ (X \ {a}) \cup {a} = X
    <3>1. \A x \in X : x <= a /\ x \in 1..n
      BY <1>1, <1>3 DEF OpenTypes, Within
    <3>. QED
      BY <1>3, <1>4, <3>1
  <2>7. PICK Y : Y = X \ {a}
    OBVIOUS
  <2>8. HasActions(s, Append(then, act), Y \cup {a})
    <3>1. Y \subseteq Nat /\ a \in Nat /\ (\A x \in Y : x < a) /\ HasActions(s, then, Y)
      BY <1>2, <2>6, <2>7
    <3>. QED
      BY <1>2, <2>5, <3>1, ActionsGrow
  <2>. QED
    BY <1>1, <2>1, <2>4, <2>6, <2>7, <2>8
<1>5. CASE ~ Acting(s)
  <2>1. X \ {a} = X
    BY <1>3, <1>5
  <2>. QED
    BY <1>1, <1>2, <1>5, <2>1 DEF Done
<1>. QED
  BY <1>4, <1>5

LEMMA DoneIsRule ==
  ASSUME NEW s, NEW n \in Nat, Len(s) = n, Within(Bounds(s), n), Within(TypeLines(s), n),
         NEW cur \in RuleType, NEW act \in ActionType, CurrentRight(s, n, cur, act)
  PROVE  IsRule(s, Done(s, cur, act), OpenAt(s)..n)
<1>1. PICK d, b : d = Done(s, cur, act) /\ b = OpenAt(s)..n
  OBVIOUS
<1>2. /\ d.enabled = cur.enabled /\ d.sensor_id = cur.sensor_id /\ d.value = cur.value
      /\ HasActions(s, d.then, TypeLines(s) \cap b)
  BY <1>1, DoneIs DEF OpenTypes
<1>3. Condition(s, n) = {k \in b : \A x \in TypeLines(s) \cap b : k < x}
  BY <1>1 DEF Condition, OpenTypes
<1>4. /\ cur.enabled = FieldOf(s, "enabled", b) /\ cur.sensor_id = FieldOf(s, "sensor_id", b)
      /\ cur.value = FieldOf(s, "value", Condition(s, n))
  BY <1>1 DEF CurrentRight
<1>. QED
  BY <1>1, <1>2, <1>3, <1>4 DEF IsRule

\* A rule with a bound after it is what it was, whatever follows.
LEMMA RuleStays ==
  ASSUME NEW s, NEW t, NEW n, NEW line, Grows(s, t, n, line), NEW d \in Named(s), NEW r,
         IsRule(s, r, BlockOf(s, d)),
         Followed(Bounds(s), d) \/ (line.key = "id" /\ IdLines(s) # {})
  PROVE  IsRule(t, r, BlockOf(t, d))
<1>1. n \in Nat /\ Len(s) = n
  BY DEF Grows
<1>2. PICK B, C, T, U : /\ B = Bounds(s) /\ C = Bounds(t)
                        /\ T = TypeLines(s) /\ U = TypeLines(t)
  OBVIOUS
<1>3. /\ Within(B, n) /\ Within(T, n) /\ Within(Named(s), n)
      /\ C = B \cup {n + 1} \/ (C = B /\ Followed(B, d))
      /\ U = T \cup {n + 1} \/ U = T
  <2>1. /\ Within(B, n) /\ Within(T, n)
        /\ line.key = "id" /\ IdLines(s) # {} => C = B \cup {n + 1}
        /\ line.key # "id" \/ IdLines(s) = {} => C = B
        /\ line.key = "type" => U = T \cup {n + 1}
        /\ line.key # "type" => U = T
    BY <1>2, StartsNext
  <2>2. Within(Named(s), n)
    BY IdsNext
  <2>. QED
    BY <1>2, <2>1, <2>2
<1>4. d \in 1..n /\ d \in 0..n
  BY <1>3 DEF Within
<1>5. (\A x \in B : x \in 1..n) /\ (\A x \in T : x \in 1..n)
  BY <1>3 DEF Within
<1>6. PICK e : e = NextOf(s, d, B)
  OBVIOUS
<1>7. NextOf(t, d, C) = e
  <2>1. /\ NextOf(t, d, B \cup {n + 1}) = NextOf(s, d, B)
        /\ Followed(B, d) => NextOf(t, d, B) = NextOf(s, d, B)
    BY <1>3, <1>4, NextStays
  <2>. QED
    BY <1>3, <1>6, <2>1
<1>8. e \in 1..(n + 1) /\ (Followed(B, d) => e \in B)
  BY <1>1, <1>3, <1>4, <1>6, NextIs
<1>9. d \in C <=> d \in B
  BY <1>1, <1>3, <1>4
<1>10. PICK b : b = (IF d \in B THEN d ELSE 1)..(e - 1)
  OBVIOUS
<1>11. BlockOf(s, d) = b /\ BlockOf(t, d) = b
  BY <1>2, <1>6, <1>7, <1>9, <1>10 DEF BlockOf
<1>12. \A x \in b : x \in 1..n /\ x < e
  BY <1>1, <1>4, <1>8, <1>10
<1>13. U \cap b = T \cap b
  BY <1>1, <1>3, <1>12
<1>14. ASSUME NEW x \in T \cap b PROVE ActionAt(t, x) = ActionAt(s, x)
  <2>1. Starts(s) = B \cup T /\ Starts(t) = C \cup U
    BY <1>2 DEF Starts
  <2>2. CASE C = B /\ U = T
    <3>1. e \in B /\ e > x
      <4>1. n + 1 \notin B
        BY <1>1, <1>5
      <4>2. Followed(B, d)
        BY <1>3, <2>2, <4>1
      <4>. QED
        BY <1>5, <1>8, <1>12, <4>2
    <3>2. Followed(Starts(s), x) /\ Starts(t) = Starts(s)
      BY <2>1, <2>2, <3>1 DEF Followed
    <3>. QED
      BY <1>2, <3>2, ActionStays
  <2>3. CASE ~ (C = B /\ U = T)
    <3>1. Starts(t) = Starts(s) \cup {n + 1}
      BY <1>3, <2>1, <2>3
    <3>2. n + 1 \notin Starts(s)
      BY <1>1, <1>5, <2>1
    <3>3. Starts(t) # Starts(s)
      BY <3>1, <3>2
    <3>. QED
      BY <1>2, <3>1, <3>3, ActionStays
  <2>. QED
    BY <2>2, <2>3
<1>15. PICK X, K : X = T \cap b /\ K = {k \in b : \A x \in X : k < x}
  OBVIOUS
<1>16. Within(b, n) /\ Within(K, n)
  BY <1>12, <1>15 DEF Within
<1>17. /\ r.enabled = FieldOf(s, "enabled", b) /\ r.sensor_id = FieldOf(s, "sensor_id", b)
       /\ r.value = FieldOf(s, "value", K) /\ HasActions(s, r.then, X)
  BY <1>2, <1>11, <1>15 DEF IsRule
<1>18. HasActions(t, r.then, X)
  BY <1>14, <1>15, <1>17, ActionsStay
<1>19. /\ r.enabled = FieldOf(t, "enabled", b) /\ r.sensor_id = FieldOf(t, "sensor_id", b)
       /\ r.value = FieldOf(t, "value", K)
  BY <1>16, <1>17, FieldStays
<1>20. TypeLines(t) \cap b = X
  BY <1>2, <1>13, <1>15
<1>. QED
  BY <1>11, <1>15, <1>18, <1>19, <1>20 DEF IsRule

\* A field goes to the open rule, or to its action when it has one; the first id
\* of the file names the rule that its first lines are about.
LEMMA FieldLine ==
  ASSUME NEW s, NEW t, NEW n, NEW line, Grows(s, t, n, line),
         line.key # "type", line.key # "id" \/ IdLines(s) = {},
         NEW v, v = IF line.kind = "bare" THEN 0 ELSE n + 1,
         NEW cur, NEW act, CurrentRight(s, n, cur, act),
         NEW cur2, NEW act2,
         cur2.id = IF line.key = "id" THEN v ELSE cur.id,
         cur2.enabled = IF line.key = "enabled" THEN v ELSE cur.enabled,
         cur2.sensor_id = IF line.key = "sensor_id" THEN v ELSE cur.sensor_id,
         cur2.value = IF line.key = "value" /\ ~ Acting(s) THEN v ELSE cur.value,
         cur2.then = cur.then,
         act2 = [type |-> act.type,
                 actuator_id |-> IF line.key = "actuator_id" THEN v ELSE act.actuator_id,
                 value |-> IF line.key = "value" /\ Acting(s) THEN v ELSE act.value]
  PROVE  CurrentRight(t, n + 1, cur2, act2)
<1>1. n \in Nat /\ Len(s) = n
  BY DEF Grows
<1>2. /\ TypeLines(t) = TypeLines(s) /\ Starts(t) = Starts(s)
      /\ OpenAt(t) = OpenAt(s) /\ LastType(t) = LastType(s) /\ (Acting(t) <=> Acting(s))
      /\ OpenTypes(t, n + 1) = OpenTypes(s, n)
      /\ OpenAt(s)..(n + 1) = (OpenAt(s)..n) \cup {n + 1} /\ Within(OpenAt(s)..n, n)
      /\ Condition(t, n + 1) =
           IF Acting(s) THEN Condition(s, n) ELSE Condition(s, n) \cup {n + 1}
      /\ Within(Condition(s, n), n)
  BY FieldShape
<1>3. Within(Bounds(s), n) /\ Within(TypeLines(s), n) /\ Within(IdLines(s), n)
  BY StartsNext, IdsNext
<1>4. cur2.id = ValueOf(t, LastOf(IdLines(t)))
  <2>1. cur.id = ValueOf(s, LastOf(IdLines(s)))
    BY DEF CurrentRight
  <2>2. CASE line.key = "id"
    <3>1. IdLines(t) = {n + 1}
      BY <2>2, IdsNext
    <3>2. Within({n + 1}, n + 1) /\ (\A y \in {n + 1} : y <= n + 1) /\ n + 1 \in Nat
      BY <1>1 DEF Within
    <3>3. LastOf({n + 1}) = n + 1
      BY <3>2, LastOfEquals
    <3>. QED
      BY <2>2, <3>1, <3>3, ValueStays
  <2>3. CASE line.key # "id"
    <3>1. IdLines(t) = IdLines(s)
      BY <2>3, IdsNext
    <3>2. LastOf(IdLines(s)) \in 0..n
      BY <1>1, <1>3, LastOfIs
    <3>. QED
      BY <2>1, <2>3, <3>1, <3>2, ValueStays
  <2>. QED
    BY <2>2, <2>3
<1>5. PICK b, K, w : b = OpenAt(s)..n /\ K = Condition(s, n) /\ w = WaitingFrom(s)
  OBVIOUS
<1>6. Within(b, n) /\ OpenAt(t)..(n + 1) = b \cup {n + 1} /\ Within(K, n)
  BY <1>2, <1>5
<1>7. /\ cur.enabled = FieldOf(s, "enabled", b) /\ cur.sensor_id = FieldOf(s, "sensor_id", b)
      /\ cur.value = FieldOf(s, "value", K)
  BY <1>5 DEF CurrentRight
<1>8. cur2.enabled = FieldOf(t, "enabled", b \cup {n + 1})
  BY <1>6, <1>7, FieldNext
<1>9. cur2.sensor_id = FieldOf(t, "sensor_id", b \cup {n + 1})
  BY <1>6, <1>7, FieldNext
<1>10. cur2.value = FieldOf(t, "value", Condition(t, n + 1))
  <2>1. CASE Acting(s)
    <3>1. FieldOf(t, "value", K) = FieldOf(s, "value", K)
      BY <1>6, FieldStays
    <3>. QED
      BY <1>2, <1>5, <1>7, <2>1, <3>1
  <2>2. CASE ~ Acting(s)
    <3>1. cur2.value = FieldOf(t, "value", K \cup {n + 1})
      BY <1>6, <1>7, <2>2, FieldNext
    <3>. QED
      BY <1>2, <1>5, <2>2, <3>1
  <2>. QED
    BY <2>1, <2>2
<1>11. HasActions(t, cur2.then, OpenTypes(t, n + 1) \ {LastType(t)})
  <2>1. PICK X, a, Y : X = OpenTypes(s, n) /\ a = LastType(s) /\ Y = X \ {a}
    OBVIOUS
  <2>2. HasActions(s, cur.then, Y)
    BY <2>1 DEF CurrentRight
  <2>3. /\ a \in 0..n /\ \A x \in TypeLines(s) : x <= a
        /\ a # 0 => a \in TypeLines(s)
    BY <1>1, <1>3, <2>1, OpenIs
  <2>4. ASSUME NEW x \in Y PROVE ActionAt(t, x) = ActionAt(s, x)
    <3>1. x \in TypeLines(s) /\ x # a /\ x \in 1..n
      BY <1>3, <2>1, <2>4 DEF OpenTypes, Within
    <3>2. a \in Starts(s) /\ a > x
      BY <1>1, <2>3, <3>1 DEF Starts
    <3>. QED
      BY <1>2, <3>1, <3>2, ActionStays DEF Followed
  <2>5. HasActions(t, cur.then, Y)
    BY <2>2, <2>4, ActionsStay
  <2>. QED
    BY <1>2, <2>1, <2>5
<1>12. act2 = IF Acting(t) THEN ActionAt(t, LastType(t))
              ELSE [type |-> 0, actuator_id |-> FieldOf(t, "actuator_id", WaitingFrom(t)..(n + 1)),
                    value |-> 0]
  <2>1. CASE Acting(s)
    <3>1. PICK x \in TypeLines(s) : x = LastType(s)
      BY <1>1, <1>3, <2>1, OpenIs DEF OpenTypes
    <3>2. ~ Followed(Starts(s), x)
      BY <1>1, <1>3, <2>1, <3>1, OpenIs
    <3>3. act = ActionAt(s, x)
      BY <2>1, <3>1 DEF CurrentRight
    <3>4. ActionAt(t, x) =
            [type |-> act.type,
             actuator_id |-> IF line.key = "actuator_id" THEN v ELSE act.actuator_id,
             value |-> IF line.key = "value" THEN v ELSE act.value]
      BY <1>2, <3>2, <3>3, ActionNext
    <3>. QED
      BY <1>2, <2>1, <3>1, <3>4
  <2>2. CASE ~ Acting(s)
    <3>1. WaitingFrom(t) = w
      BY <1>2, <1>5, <2>2, WaitingStays
    <3>2. w \in 1..(n + 1)
      BY <1>1, <1>3, <1>5, OpenIs
    <3>3. PICK P : P = w..n
      OBVIOUS
    <3>4. Within(P, n) /\ w..(n + 1) = P \cup {n + 1}
      BY <1>1, <3>2, <3>3 DEF Within
    <3>5. act = [type |-> 0, actuator_id |-> FieldOf(s, "actuator_id", P), value |-> 0]
      BY <1>5, <2>2, <3>3 DEF CurrentRight
    <3>6. FieldOf(t, "actuator_id", P \cup {n + 1}) =
            IF line.key = "actuator_id" THEN v ELSE FieldOf(s, "actuator_id", P)
      BY <3>4, FieldNext
    <3>. QED
      BY <1>2, <2>2, <3>1, <3>4, <3>5, <3>6
  <2>. QED
    BY <2>1, <2>2
<1>. QED
  BY <1>4, <1>6, <1>8, <1>9, <1>10, <1>11, <1>12 DEF CurrentRight

\* A type line completes the action before it and starts another.
LEMMA TypeLine ==
  ASSUME NEW s, NEW t, NEW n, NEW line, Grows(s, t, n, line), line.key = "type",
         NEW v, v = IF line.kind = "bare" THEN 0 ELSE n + 1,
         NEW cur \in RuleType, NEW act \in ActionType, CurrentRight(s, n, cur, act),
         NEW cur2, cur2 = Done(s, cur, act)
  PROVE  CurrentRight(t, n + 1, cur2,
           [type |-> v, actuator_id |-> IF Acting(s) THEN 0 ELSE act.actuator_id, value |-> 0])
<1>1. n \in Nat /\ Len(s) = n
  BY DEF Grows
<1>2. /\ Starts(t) = Starts(s) \cup {n + 1}
      /\ OpenAt(t) = OpenAt(s) /\ LastType(t) = n + 1 /\ Acting(t)
      /\ OpenTypes(t, n + 1) \ {n + 1} = OpenTypes(s, n)
      /\ OpenAt(s)..(n + 1) = (OpenAt(s)..n) \cup {n + 1} /\ Within(OpenAt(s)..n, n)
      /\ Condition(t, n + 1) = Condition(s, n) /\ Within(Condition(s, n), n)
  BY TypeShape
<1>3. /\ Within(Bounds(s), n) /\ Within(TypeLines(s), n) /\ Within(Starts(s), n)
      /\ Within(IdLines(s), n) /\ IdLines(t) = IdLines(s)
  BY StartsNext, IdsNext
<1>4. /\ cur2.id = cur.id /\ cur2.enabled = cur.enabled
      /\ cur2.sensor_id = cur.sensor_id /\ cur2.value = cur.value
      /\ HasActions(s, cur2.then, OpenTypes(s, n))
  BY <1>1, <1>3, DoneIs
<1>5. cur2.id = ValueOf(t, LastOf(IdLines(t)))
  <2>1. LastOf(IdLines(s)) \in 0..n
    BY <1>1, <1>3, LastOfIs
  <2>. QED
    BY <1>3, <1>4, <2>1, ValueStays DEF CurrentRight
<1>6. PICK b, K, w : b = OpenAt(s)..n /\ K = Condition(s, n) /\ w = WaitingFrom(s)
  OBVIOUS
<1>7. Within(b, n) /\ OpenAt(t)..(n + 1) = b \cup {n + 1} /\ Within(K, n)
      /\ Condition(t, n + 1) = K
  BY <1>2, <1>6
<1>8. /\ cur.enabled = FieldOf(s, "enabled", b) /\ cur.sensor_id = FieldOf(s, "sensor_id", b)
      /\ cur.value = FieldOf(s, "value", K)
  BY <1>6 DEF CurrentRight
<1>9. cur2.enabled = FieldOf(t, "enabled", b \cup {n + 1})
  BY <1>4, <1>7, <1>8, FieldNext
<1>10. cur2.sensor_id = FieldOf(t, "sensor_id", b \cup {n + 1})
  BY <1>4, <1>7, <1>8, FieldNext
<1>11. cur2.value = FieldOf(t, "value", K)
  BY <1>4, <1>7, <1>8, FieldStays
<1>12. HasActions(t, cur2.then, OpenTypes(t, n + 1) \ {LastType(t)})
  <2>1. n + 1 \notin Starts(s)
    BY <1>1, <1>3 DEF Within
  <2>2. Starts(t) # Starts(s)
    BY <1>2, <2>1
  <2>3. ASSUME NEW x \in OpenTypes(s, n) PROVE ActionAt(t, x) = ActionAt(s, x)
    <3>1. x \in TypeLines(s)
      BY <2>3 DEF OpenTypes
    <3>. QED
      BY <1>2, <2>2, <3>1, ActionStays
  <2>4. HasActions(t, cur2.then, OpenTypes(s, n))
    BY <1>4, <2>3, ActionsStay
  <2>. QED
    BY <1>2, <2>4
<1>13. ActionAt(t, n + 1) =
         [type |-> v, actuator_id |-> FieldOf(s, "actuator_id", w..n), value |-> 0]
  BY <1>6, ActionBegins
<1>14. FieldOf(s, "actuator_id", w..n) = IF Acting(s) THEN 0 ELSE act.actuator_id
  <2>1. CASE Acting(s)
    BY <1>1, <1>3, <1>6, <2>1, NoneWaits
  <2>2. CASE ~ Acting(s)
    BY <1>6, <2>2 DEF CurrentRight
  <2>. QED
    BY <2>1, <2>2
<1>. QED
  BY <1>2, <1>5, <1>7, <1>9, <1>10, <1>11, <1>12, <1>13, <1>14 DEF CurrentRight

\* An id line leaves nothing of the rule before it; an actuator that no type line
\* has taken waits on.
LEMMA NextId ==
  ASSUME NEW s, NEW t, NEW n, NEW line, Grows(s, t, n, line),
         line.key = "id", IdLines(s) # {},
         NEW v, v = IF line.kind = "bare" THEN 0 ELSE n + 1,
         NEW cur, NEW act, CurrentRight(s, n, cur, act)
  PROVE  CurrentRight(t, n + 1, [NoRule EXCEPT !.id = v], IF Acting(s) THEN NoAction ELSE act)
<1>1. n \in Nat /\ Len(s) = n
  BY DEF Grows
<1>2. /\ Starts(t) = Starts(s) \cup {n + 1} /\ TypeLines(t) = TypeLines(s)
      /\ OpenAt(t) = n + 1 /\ LastType(t) = LastType(s) /\ ~ Acting(t)
      /\ OpenTypes(t, n + 1) = {}
      /\ Condition(t, n + 1) = {n + 1} /\ OpenAt(t)..(n + 1) = {n + 1}
  BY IdShape
<1>3. /\ Within(Bounds(s), n) /\ Within(TypeLines(s), n) /\ Within(Starts(s), n)
      /\ Within(IdLines(s), n) /\ IdLines(t) = IdLines(s) \cup {n + 1}
  BY StartsNext, IdsNext
<1>4. v = ValueOf(t, LastOf(IdLines(t)))
  <2>1. /\ Within(IdLines(t), n + 1) /\ (\A y \in IdLines(t) : y <= n + 1)
        /\ n + 1 \in IdLines(t) /\ n + 1 \in Nat
    BY <1>1, <1>3 DEF Within
  <2>2. LastOf(IdLines(t)) = n + 1
    BY <2>1, LastOfEquals
  <2>. QED
    BY <2>2, ValueStays
<1>5. PICK r : r = [NoRule EXCEPT !.id = v]
  OBVIOUS
<1>6. /\ r.id = v /\ r.enabled = 0 /\ r.sensor_id = 0 /\ r.value = 0 /\ r.then = <<>>
  BY <1>5 DEF NoRule
<1>7. Within({}, n) /\ {n + 1} = {} \cup {n + 1}
  BY DEF Within
<1>8. \A key : FieldOf(s, key, {}) = 0
  BY DEF FieldOf, Keyed, LastOf, ValueOf
<1>9. /\ FieldOf(t, "enabled", {n + 1}) = 0 /\ FieldOf(t, "sensor_id", {n + 1}) = 0
      /\ FieldOf(t, "value", {n + 1}) = 0
  <2>1. /\ FieldOf(t, "enabled", {} \cup {n + 1}) = FieldOf(s, "enabled", {})
        /\ FieldOf(t, "sensor_id", {} \cup {n + 1}) = FieldOf(s, "sensor_id", {})
        /\ FieldOf(t, "value", {} \cup {n + 1}) = FieldOf(s, "value", {})
    BY <1>7, FieldNext
  <2>. QED
    BY <1>7, <1>8, <2>1
<1>10. HasActions(t, <<>>, {})
  <2>1. DOMAIN <<>> = {}
    OBVIOUS
  <2>2. PICK at : at = [x \in {} |-> x]
    OBVIOUS
  <2>3. at \in [{} -> {}]
    BY <2>2
  <2>. QED
    BY <2>1, <2>3 DEF HasActions
<1>11. HasActions(t, r.then, OpenTypes(t, n + 1) \ {LastType(t)})
  BY <1>2, <1>6, <1>10
<1>12. PICK w : w = WaitingFrom(s)
  OBVIOUS
<1>13. WaitingFrom(t) = w
  <2>1. n + 1 \notin Starts(s)
    BY <1>1, <1>3 DEF Within
  <2>2. Starts(t) # Starts(s)
    BY <1>2, <2>1
  <2>. QED
    BY <1>2, <1>12, <2>2, WaitingStays
<1>14. w \in 1..(n + 1)
  BY <1>1, <1>3, <1>12, OpenIs
<1>15. PICK P : P = w..n
  OBVIOUS
<1>16. Within(P, n) /\ w..(n + 1) = P \cup {n + 1}
  BY <1>1, <1>14, <1>15 DEF Within
<1>17. FieldOf(t, "actuator_id", P \cup {n + 1}) = FieldOf(s, "actuator_id", P)
  BY <1>16, FieldNext
<1>18. PICK a : a = IF Acting(s) THEN NoAction ELSE act
  OBVIOUS
<1>19. a = [type |-> 0, actuator_id |-> FieldOf(s, "actuator_id", P), value |-> 0]
  <2>1. CASE Acting(s)
    <3>1. FieldOf(s, "actuator_id", P) = 0
      BY <1>1, <1>3, <1>12, <1>15, <2>1, NoneWaits
    <3>. QED
      BY <1>18, <2>1, <3>1 DEF NoAction
  <2>2. CASE ~ Acting(s)
    BY <1>12, <1>15, <1>18, <2>2 DEF CurrentRight
  <2>. QED
    BY <2>1, <2>2
<1>20. CurrentRight(t, n + 1, r, a)
  BY <1>2, <1>4, <1>6, <1>9, <1>11, <1>13, <1>16, <1>17, <1>19 DEF CurrentRight
<1>. QED
  BY <1>5, <1>18, <1>20

\* The last id's block is the open one, and every other named rule has a bound
\* after it.
LEMMA OpenBlock ==
  ASSUME NEW s, NEW n \in Nat, Len(s) = n, Within(IdLines(s), n), Within(Bounds(s), n),
         \A i \in IdLines(s) : s[i].kind \in {"pair", "bare"},
         NEW id, id = ValueOf(s, LastOf(IdLines(s)))
  PROVE  /\ id # 0 => BlockOf(s, id) = OpenAt(s)..n
         /\ \A d \in Named(s) : d # id => Followed(Bounds(s), d)
<1>1. /\ id # 0 => id \in Named(s) /\ id = LastOf(IdLines(s)) /\ id \in 1..n
      /\ \A d \in Named(s) : d # id => d < LastOf(IdLines(s)) /\ d # 0
  BY LastId
<1>2. PICK I, B, last : I = IdLines(s) /\ B = Bounds(s) /\ last = LastOf(I)
  OBVIOUS
<1>3. /\ last \in 0..n /\ (last # 0 => last \in I) /\ \A x \in I : x <= last
      /\ last = 0 <=> I = {}
  BY <1>2, LastOfIs
<1>4. \A x : x \in B <=> x \in I /\ \E y \in I : y < x
  BY <1>2 DEF Bounds, Before
<1>5. \A x \in I : x \in 1..n
  BY <1>2 DEF Within
<1>6. Named(s) \subseteq I
  BY <1>2 DEF Named
<1>7. ASSUME NEW d \in Named(s), d # id PROVE Followed(B, d)
  <2>1. d \in I /\ d < last /\ last \in I
    BY <1>1, <1>2, <1>3, <1>6, <1>7
  <2>2. last \in B /\ last > d
    BY <1>3, <1>4, <1>5, <2>1
  <2>. QED
    BY <2>2 DEF Followed
<1>8. CASE id # 0
  <2>1. id = last /\ id \in I /\ id \in 1..n /\ id \in 0..n
    BY <1>1, <1>2, <1>6, <1>8
  <2>2. \A x \in B : x <= id
    BY <1>3, <1>4, <2>1
  <2>3. NextOf(s, id, B) = n + 1
    BY <1>2, <2>1, <2>2, NextIs
  <2>4. OpenAt(s) = IF id \in B THEN id ELSE 1
    <3>1. CASE id \in B
      <4>1. LastOf(B) = id /\ B # {}
        BY <1>2, <2>2, <3>1, LastOfEquals
      <4>. QED
        BY <1>2, <3>1, <4>1 DEF OpenAt
    <3>2. CASE id \notin B
      <4>1. ASSUME NEW x \in B PROVE FALSE
        <5>1. x \in I /\ x < id
          <6>1. x \in I /\ x # id /\ x <= id
            BY <1>4, <2>2, <3>2, <4>1
          <6>2. x \in 1..n
            BY <1>5, <6>1
          <6>. QED
            BY <2>1, <6>1, <6>2
        <5>. QED
          BY <1>4, <2>1, <3>2, <5>1
      <4>2. B = {}
        BY <4>1
      <4>. QED
        BY <1>2, <3>2, <4>2 DEF OpenAt
    <3>. QED
      BY <3>1, <3>2
  <2>5. (n + 1) - 1 = n
    OBVIOUS
  <2>. QED
    BY <1>2, <1>7, <2>3, <2>4, <2>5 DEF BlockOf
<1>. QED
  BY <1>2, <1>7, <1>8

\* flush_rule.
LEMMA RulesFlushed ==
  ASSUME NEW s, NEW n \in Nat, Len(s) = n,
         Within(IdLines(s), n), Within(Bounds(s), n), Within(TypeLines(s), n),
         \A i \in IdLines(s) : s[i].kind \in {"pair", "bare"},
         NEW cur \in RuleType, NEW act \in ActionType, CurrentRight(s, n, cur, act),
         NEW rs \in Seq(RuleType), FinishedRight(s, rs, cur.id),
         NEW all, all = IF cur.id = 0 THEN rs ELSE Append(rs, Done(s, cur, act))
  PROVE  /\ all \in Seq(RuleType) /\ ListsTheNamed(s, all)
         /\ \A k \in DOMAIN all : IsRule(s, all[k], BlockOf(s, all[k].id))
<1>1. PICK id, r : id = cur.id /\ r = Done(s, cur, act)
  OBVIOUS
<1>2. r \in RuleType /\ r.id = id
  BY <1>1, DoneIs
<1>3. id = ValueOf(s, LastOf(IdLines(s))) /\ ListsAllBut(s, rs, id)
  BY <1>1 DEF CurrentRight, FinishedRight
<1>4. all = IF id = 0 THEN rs ELSE Append(rs, r)
  BY <1>1
<1>5. ListsTheNamed(s, all)
  BY <1>2, <1>3, <1>4, ListsAll
<1>6. all \in Seq(RuleType)
  BY <1>2, <1>4
<1>7. ASSUME NEW k \in DOMAIN all PROVE IsRule(s, all[k], BlockOf(s, all[k].id))
  <2>1. CASE id = 0
    BY <1>4, <1>7, <2>1 DEF FinishedRight
  <2>2. CASE id # 0
    <3>1. IsRule(s, r, BlockOf(s, id))
      <4>1. BlockOf(s, id) = OpenAt(s)..n
        BY <1>3, <2>2, OpenBlock
      <4>. QED
        BY <1>1, <4>1, DoneIsRule
    <3>2. PICK m : m = Len(rs)
      OBVIOUS
    <3>3. /\ m \in Nat /\ DOMAIN all = 1..(m + 1) /\ DOMAIN rs = 1..m
          /\ all[m + 1] = r /\ \A j \in 1..m : all[j] = rs[j]
      BY <1>2, <1>4, <2>2, <3>2, AppendProperties, LenProperties
    <3>4. k = m + 1 \/ k \in 1..m
      BY <1>7, <3>3
    <3>5. CASE k = m + 1
      BY <1>2, <3>1, <3>3, <3>5
    <3>6. CASE k \in 1..m
      BY <3>3, <3>6 DEF FinishedRight
    <3>. QED
      BY <3>4, <3>5, <3>6
  <2>. QED
    BY <2>1, <2>2
<1>. QED
  BY <1>5, <1>6, <1>7

\* A line that is not a second id finishes no rule, and changes no finished one.
LEMMA FinishedStay ==
  ASSUME NEW s, NEW t, NEW n, NEW line, Grows(s, t, n, line),
         line.key # "id" \/ IdLines(s) = {}, line.kind \in {"pair", "bare"},
         NEW v, v = IF line.kind = "bare" THEN 0 ELSE n + 1,
         \A i \in IdLines(s) : s[i].kind \in {"pair", "bare"},
         NEW id, id = ValueOf(s, LastOf(IdLines(s))),
         NEW rs, FinishedRight(s, rs, id)
  PROVE  FinishedRight(t, rs, IF line.key = "id" THEN v ELSE id)
<1>1. n \in Nat /\ Len(s) = n
  BY DEF Grows
<1>2. /\ Within(Bounds(s), n) /\ Within(IdLines(s), n)
      /\ Named(s) \subseteq IdLines(s)
      /\ line.key # "id" => Named(t) = Named(s)
      /\ line.key = "id" /\ line.kind = "pair" => Named(t) = Named(s) \cup {n + 1}
      /\ line.kind # "pair" => Named(t) = Named(s)
  BY StartsNext, IdsNext
<1>3. CASE line.key # "id"
  <2>1. ListsAllBut(t, rs, id)
    BY <1>2, <1>3 DEF FinishedRight, ListsAllBut
  <2>2. ASSUME NEW k \in DOMAIN rs PROVE IsRule(t, rs[k], BlockOf(t, rs[k].id))
    <3>1. PICK d \in Named(s) : d = rs[k].id /\ d # id
      BY <2>2 DEF FinishedRight, ListsAllBut
    <3>2. Followed(Bounds(s), d)
      BY <1>1, <1>2, <3>1, OpenBlock
    <3>3. IsRule(s, rs[k], BlockOf(s, d))
      BY <2>2, <3>1 DEF FinishedRight
    <3>4. IsRule(t, rs[k], BlockOf(t, d))
      BY <3>2, <3>3, RuleStays
    <3>. QED
      BY <3>1, <3>4
  <2>. QED
    BY <1>3, <2>1, <2>2 DEF FinishedRight
<1>4. CASE line.key = "id"
  <2>1. Named(s) = {}
    BY <1>2, <1>4
  <2>2. DOMAIN rs = {}
    BY <2>1 DEF FinishedRight, ListsAllBut
  <2>3. \A d \in Named(t) : d = v
    BY <1>2, <1>4, <2>1
  <2>. QED
    BY <1>4, <2>2, <2>3 DEF FinishedRight, ListsAllBut
<1>. QED
  BY <1>3, <1>4

\* The parser of rules: its flags and fields are what the lines so far say.
RuleInv ==
  file = "rules" =>
    /\ text \in Seq(RuleLines) /\ rules \in Seq(RuleType)
    /\ current \in RuleType /\ action \in ActionType
    /\ in_rule \in BOOLEAN /\ in_action \in BOOLEAN
    /\ in_rule <=> IdLines(text) # {}
    /\ in_action <=> Acting(text)
    /\ CurrentRight(text, Len(text), current, action)
    /\ FinishedRight(text, rules, current.id)

LEMMA RuleKinds ==
  ASSUME NEW s \in Seq(RuleLines)
  PROVE  /\ Len(s) \in Nat /\ Within(IdLines(s), Len(s))
         /\ Within(Bounds(s), Len(s)) /\ Within(TypeLines(s), Len(s))
         /\ \A i \in IdLines(s) : s[i].kind \in {"pair", "bare"}
<1>1. \A i \in DOMAIN s : s[i] \in RuleLines
  OBVIOUS
<1>2. Len(s) \in Nat /\ DOMAIN s = 1..Len(s)
  BY LenProperties
<1>3. Within(IdLines(s), Len(s)) /\ Within(TypeLines(s), Len(s))
  BY <1>2 DEF IdLines, TypeLines, Keyed, Within
<1>4. Within(Bounds(s), Len(s))
  BY <1>3 DEF Bounds, Within
<1>5. \A i \in IdLines(s) : s[i].kind \in {"pair", "bare"}
  BY <1>1, LinesAssumption DEF IdLines, Keyed
<1>. QED
  BY <1>2, <1>3, <1>4, <1>5

LEMMA RuleInit == Init => RuleInv
<1> SUFFICES ASSUME Init PROVE RuleInv
  OBVIOUS
<1>1. /\ text = <<>> /\ rules = <<>> /\ current = NoRule /\ action = NoAction
      /\ in_rule = FALSE /\ in_action = FALSE
  BY DEF Init
<1>2. Len(<<>>) = 0 /\ DOMAIN <<>> = {}
  OBVIOUS
<1>3. /\ IdLines(<<>>) = {} /\ TypeLines(<<>>) = {} /\ Named(<<>>) = {} /\ Bounds(<<>>) = {}
  BY <1>2 DEF IdLines, TypeLines, Named, Bounds, Keyed
<1>4. LastOf({}) = 0 /\ ValueOf(<<>>, 0) = 0
  BY DEF LastOf, ValueOf
<1>5. /\ OpenAt(<<>>) = 1 /\ LastType(<<>>) = 0 /\ WaitingFrom(<<>>) = 1
      /\ ~ Acting(<<>>) /\ OpenTypes(<<>>, 0) = {}
  <2>1. OpenAt(<<>>) = 1 /\ LastType(<<>>) = 0 /\ WaitingFrom(<<>>) = 1
    BY <1>3, <1>4 DEF OpenAt, LastType, WaitingFrom
  <2>2. ~ (0 >= 1)
    OBVIOUS
  <2>. QED
    BY <1>3, <2>1, <2>2 DEF Acting, OpenTypes
<1>6. 1..0 = {} /\ Condition(<<>>, 0) = {}
  BY <1>5 DEF Condition
<1>7. \A key : FieldOf(<<>>, key, {}) = 0
  BY <1>4 DEF FieldOf, Keyed
<1>8. HasActions(<<>>, <<>>, {})
  <2>1. PICK at : at = [x \in {} |-> x]
    OBVIOUS
  <2>2. at \in [{} -> {}]
    BY <2>1
  <2>. QED
    BY <1>2, <2>2 DEF HasActions
<1>9. CurrentRight(<<>>, 0, NoRule, NoAction)
  <2>1. /\ NoRule.id = 0 /\ NoRule.enabled = 0 /\ NoRule.sensor_id = 0
        /\ NoRule.value = 0 /\ NoRule.then = <<>>
    BY DEF NoRule
  <2>2. {} \ {LastType(<<>>)} = {}
    OBVIOUS
  <2>. QED
    BY <1>3, <1>4, <1>5, <1>6, <1>7, <1>8, <2>1, <2>2 DEF CurrentRight, NoAction
<1>10. FinishedRight(<<>>, <<>>, NoRule.id)
  BY <1>2, <1>3 DEF FinishedRight, ListsAllBut
<1>11. NoRule \in RuleType /\ NoAction \in ActionType
  BY DEF NoRule, NoAction, RuleType, ActionType
<1>. QED
  <2>1. CurrentRight(text, Len(text), current, action)
    BY <1>1, <1>2, <1>9
  <2>2. FinishedRight(text, rules, current.id)
    BY <1>1, <1>10
  <2>3. /\ in_rule <=> IdLines(text) # {}
        /\ in_action <=> Acting(text)
        /\ in_rule \in BOOLEAN /\ in_action \in BOOLEAN
    BY <1>1, <1>3, <1>5
  <2>4. /\ text \in Seq(RuleLines) /\ rules \in Seq(RuleType)
        /\ current \in RuleType /\ action \in ActionType
    BY <1>1, <1>11
  <2>. QED
    BY <2>1, <2>2, <2>3, <2>4 DEF RuleInv

\* The flushed rules of the model are those of the lemmas.
LEMMA FlushedIs ==
  ASSUME RuleInv, file = "rules"
  PROVE  /\ FlushedRule = Done(text, current, action)
         /\ FlushedRules = IF current.id = 0 THEN rules
                           ELSE Append(rules, Done(text, current, action))
<1>1. /\ in_rule <=> IdLines(text) # {}
      /\ in_action <=> Acting(text)
      /\ current.id = ValueOf(text, LastOf(IdLines(text)))
  BY DEF RuleInv, CurrentRight
<1>2. FlushedRule = Done(text, current, action)
  BY <1>1 DEF FlushedRule, Done
<1>3. ~ in_rule => current.id = 0
  BY <1>1 DEF LastOf, ValueOf
<1>. QED
  BY <1>2, <1>3 DEF FlushedRules

LEMMA RuleStep == RuleInv /\ [Next]_vars => RuleInv'
<1> SUFFICES ASSUME RuleInv, [Next]_vars, file' = "rules" PROVE RuleInv'
  BY DEF RuleInv
<1>1. CASE UNCHANGED vars
  BY <1>1 DEF RuleInv
<1>2. CASE Next
  <2>1. file = "rules"
    BY <1>2 DEF Next, Read
  <2>2. PICK line \in RuleLines : Read(line) /\ RuleLine(line)
    BY <1>2, <2>1 DEF Next
  <2>3. /\ text \in Seq(RuleLines) /\ rules \in Seq(RuleType)
        /\ current \in RuleType /\ action \in ActionType
        /\ in_rule \in BOOLEAN /\ in_action \in BOOLEAN
        /\ in_rule <=> IdLines(text) # {}
        /\ in_action <=> Acting(text)
        /\ CurrentRight(text, Len(text), current, action)
        /\ FinishedRight(text, rules, current.id)
    BY <2>1 DEF RuleInv
  <2>4. PICK s, t, n, cur, act, rs : /\ s = text /\ t = Append(text, line) /\ n = Len(text)
                                     /\ cur = current /\ act = action /\ rs = rules
    OBVIOUS
  <2>5. Grows(s, t, n, line) /\ n \in Nat /\ t \in Seq(RuleLines) /\ Len(t) = n + 1 /\ Len(s) = n
    BY <2>3, <2>4, AppendGrows DEF Grows
  <2>6. text' = t /\ Now = n + 1 /\ file' = file
    BY <2>2, <2>4 DEF Read, Now
  <2>7. line.key \in {"id", "enabled", "sensor_id", "value", "type", "actuator_id"}
        /\ line.kind \in {"pair", "bare"}
    BY LinesAssumption
  <2>8. /\ Within(IdLines(s), n) /\ Within(Bounds(s), n) /\ Within(TypeLines(s), n)
        /\ \A i \in IdLines(s) : s[i].kind \in {"pair", "bare"}
    BY <2>3, <2>4, RuleKinds
  <2>9. PICK v : v = IF line.kind = "bare" THEN 0 ELSE n + 1
    OBVIOUS
  <2>10. Value(line) = v /\ v \in Nat
    BY <2>5, <2>6, <2>9 DEF Value
  <2>11. PICK all : all = IF cur.id = 0 THEN rs ELSE Append(rs, Done(s, cur, act))
    OBVIOUS
  <2>12. FlushedRule = Done(s, cur, act) /\ FlushedRules = all
    BY <2>1, <2>4, <2>11, FlushedIs
  <2>13. /\ cur \in RuleType /\ act \in ActionType /\ rs \in Seq(RuleType)
         /\ CurrentRight(s, n, cur, act) /\ FinishedRight(s, rs, cur.id)
         /\ cur.id = ValueOf(s, LastOf(IdLines(s)))
    BY <2>3, <2>4 DEF CurrentRight
  <2>14. /\ all \in Seq(RuleType) /\ ListsTheNamed(s, all)
         /\ \A k \in DOMAIN all : IsRule(s, all[k], BlockOf(s, all[k].id))
    BY <2>5, <2>8, <2>11, <2>13, RulesFlushed
  <2>15. /\ in_rule <=> IdLines(s) # {}
         /\ in_action <=> Acting(s)
    BY <2>3, <2>4
  <2>16. CASE line.key = "type"
    <3>1. StartAction(line)
      BY <2>2, <2>16 DEF RuleLine
    <3>2. PICK b : b = [type |-> v, actuator_id |-> IF Acting(s) THEN 0 ELSE act.actuator_id,
                        value |-> 0]
      OBVIOUS
    <3>3. action' = b /\ b \in ActionType
      <4>1. act = [type |-> act.type, actuator_id |-> act.actuator_id, value |-> act.value]
            /\ act.actuator_id \in Nat
        BY <2>13 DEF ActionType
      <4>2. ~ Acting(s) => act.value = 0
        BY <2>13 DEF CurrentRight
      <4>3. CASE Acting(s)
        BY <2>10, <2>15, <3>1, <3>2, <4>3 DEF StartAction, NoAction, ActionType
      <4>4. CASE ~ Acting(s)
        <5>1. action' = [act EXCEPT !.type = v]
          BY <2>4, <2>10, <2>15, <3>1, <4>4 DEF StartAction
        <5>. QED
          BY <2>10, <3>2, <4>1, <4>2, <4>4, <5>1 DEF ActionType
      <4>. QED
        BY <4>3, <4>4
    <3>4. /\ current' = Done(s, cur, act) /\ in_action' = TRUE
          /\ rules' = rs /\ in_rule' = in_rule
      BY <2>4, <2>12, <3>1 DEF StartAction
    <3>5. CurrentRight(t, n + 1, Done(s, cur, act), b)
      BY <2>5, <2>9, <2>13, <2>16, <3>2, TypeLine
    <3>6. Done(s, cur, act) \in RuleType /\ Done(s, cur, act).id = cur.id
      BY <2>5, <2>8, <2>13, DoneIs
    <3>7. FinishedRight(t, rs, cur.id)
      BY <2>5, <2>7, <2>8, <2>9, <2>13, <2>16, FinishedStay
    <3>8. IdLines(t) = IdLines(s) /\ Acting(t)
      BY <2>5, <2>16, IdsNext, TypeShape
    <3>. QED
      BY <2>5, <2>6, <2>13, <2>15, <3>3, <3>4, <3>5, <3>6, <3>7, <3>8, <2>3 DEF RuleInv
  <2>17. CASE line.key = "id" /\ IdLines(s) # {}
    <3>1. StartRule(line) /\ in_rule
      BY <2>2, <2>15, <2>17 DEF RuleLine
    <3>2. PICK r, b : r = [NoRule EXCEPT !.id = v] /\ b = IF Acting(s) THEN NoAction ELSE act
      OBVIOUS
    <3>3. rules' = all /\ current' = r /\ in_rule' = TRUE
      BY <2>10, <2>12, <3>1, <3>2 DEF StartRule
    <3>4. action' = b /\ in_action' = FALSE
      BY <2>3, <2>4, <2>15, <3>1, <3>2 DEF StartRule
    <3>5. r \in RuleType /\ r.id = v /\ b \in ActionType
      <4>1. r = [id |-> v, enabled |-> 0, sensor_id |-> 0, value |-> 0, then |-> <<>>]
        BY <3>2 DEF NoRule
      <4>2. <<>> \in Seq(ActionType)
        OBVIOUS
      <4>3. r \in RuleType /\ r.id = v
        BY <2>10, <4>1, <4>2 DEF RuleType
      <4>4. NoAction \in ActionType
        BY DEF NoAction, ActionType
      <4>. QED
        BY <2>13, <3>2, <4>3, <4>4
    <3>6. CurrentRight(t, n + 1, r, b)
      BY <2>5, <2>9, <2>13, <2>17, <3>2, NextId
    <3>7. IdLines(t) # {} /\ ~ Acting(t)
      <4>1. IdLines(t) = IdLines(s) \cup {n + 1}
        BY <2>5, <2>17, IdsNext
      <4>. QED
        BY <2>5, <2>17, <4>1, IdShape
    <3>8. FinishedRight(t, all, v)
      <4>1. /\ Within(Named(s), n)
            /\ line.kind = "pair" => Named(t) = Named(s) \cup {n + 1}
            /\ line.kind # "pair" => Named(t) = Named(s)
        BY <2>5, <2>17, IdsNext
      <4>2. \A d \in Named(s) : d # v
        BY <2>5, <2>9, <4>1 DEF Within
      <4>3. \A d \in Named(t) : d # v => d \in Named(s)
        BY <2>7, <2>9, <4>1
      <4>4. Named(s) \subseteq Named(t)
        BY <2>7, <4>1
      <4>5. ListsAllBut(t, all, v)
        BY <2>14, <4>2, <4>3, <4>4 DEF ListsTheNamed, ListsAllBut
      <4>6. ASSUME NEW k \in DOMAIN all PROVE IsRule(t, all[k], BlockOf(t, all[k].id))
        <5>1. PICK d \in Named(s) : d = all[k].id
          BY <2>14, <4>6 DEF ListsTheNamed
        <5>2. IsRule(s, all[k], BlockOf(s, d))
          BY <2>14, <4>6, <5>1
        <5>3. IsRule(t, all[k], BlockOf(t, d))
          BY <2>5, <2>17, <5>2, RuleStays
        <5>. QED
          BY <5>1, <5>3
      <4>. QED
        BY <4>5, <4>6 DEF FinishedRight
    <3>. QED
      BY <2>5, <2>6, <2>14, <3>3, <3>4, <3>5, <3>6, <3>7, <3>8 DEF RuleInv
  <2>18. CASE line.key # "type" /\ (line.key # "id" \/ IdLines(s) = {})
    <3>1. /\ rules' = rs /\ in_action' = in_action
          /\ in_rule' = (in_rule \/ line.key = "id")
      <4>1. CASE line.key = "id"
        <5>1. StartRule(line) /\ ~ in_rule
          BY <2>2, <2>15, <2>18, <4>1 DEF RuleLine
        <5>. QED
          BY <2>4, <4>1, <5>1 DEF StartRule, FlushedRules
      <4>2. CASE line.key # "id"
        <5>1. SetField(line)
          BY <2>2, <2>18, <4>2 DEF RuleLine
        <5>. QED
          BY <2>3, <2>4, <4>2, <5>1 DEF SetField
      <4>. QED
        BY <4>1, <4>2
    <3>2. PICK c : c = [id |-> IF line.key = "id" THEN v ELSE cur.id,
                        enabled |-> IF line.key = "enabled" THEN v ELSE cur.enabled,
                        sensor_id |-> IF line.key = "sensor_id" THEN v ELSE cur.sensor_id,
                        value |-> IF line.key = "value" /\ ~ Acting(s) THEN v ELSE cur.value,
                        then |-> cur.then]
      OBVIOUS
    <3>3. PICK b : b = [type |-> act.type,
                        actuator_id |-> IF line.key = "actuator_id" THEN v ELSE act.actuator_id,
                        value |-> IF line.key = "value" /\ Acting(s) THEN v ELSE act.value]
      OBVIOUS
    <3>4. c \in RuleType /\ b \in ActionType
      BY <2>10, <2>13, <3>2, <3>3 DEF RuleType, ActionType
    <3>5. current' = c /\ action' = b
      <4>1. /\ cur = [id |-> cur.id, enabled |-> cur.enabled, sensor_id |-> cur.sensor_id,
                      value |-> cur.value, then |-> cur.then]
            /\ act = [type |-> act.type, actuator_id |-> act.actuator_id, value |-> act.value]
        BY <2>13 DEF RuleType, ActionType
      <4>2. CASE line.key = "id"
        <5>1. StartRule(line) /\ ~ in_rule
          BY <2>2, <2>15, <2>18, <4>2 DEF RuleLine
        <5>2. current' = [cur EXCEPT !.id = v] /\ action' = act
          BY <2>4, <2>10, <5>1 DEF StartRule
        <5>. QED
          BY <3>2, <3>3, <4>1, <4>2, <5>2
      <4>3. CASE line.key # "id"
        <5>1. SetField(line)
          BY <2>2, <2>18, <4>3 DEF RuleLine
        <5>2. CASE line.key = "actuator_id"
          <6>1. current' = cur /\ action' = [act EXCEPT !.actuator_id = v]
            BY <2>4, <2>10, <5>1, <5>2 DEF SetField
          <6>. QED
            BY <3>2, <3>3, <4>1, <5>2, <6>1
        <5>3. CASE line.key = "value" /\ Acting(s)
          <6>1. current' = cur /\ action' = [act EXCEPT !.value = v]
            BY <2>4, <2>10, <2>15, <5>1, <5>3 DEF SetField
          <6>. QED
            BY <3>2, <3>3, <4>1, <5>3, <6>1
        <5>4. CASE line.key = "value" /\ ~ Acting(s)
          <6>1. action' = act /\ current' = [cur EXCEPT !.value = v]
            BY <2>4, <2>10, <2>15, <5>1, <5>4 DEF SetField
          <6>. QED
            BY <3>2, <3>3, <4>1, <5>4, <6>1
        <5>5. CASE line.key = "enabled"
          <6>1. action' = act /\ current' = [cur EXCEPT !.enabled = v]
            BY <2>4, <2>10, <5>1, <5>5 DEF SetField
          <6>. QED
            BY <3>2, <3>3, <4>1, <5>5, <6>1
        <5>6. CASE line.key = "sensor_id"
          <6>1. action' = act /\ current' = [cur EXCEPT !.sensor_id = v]
            BY <2>4, <2>10, <5>1, <5>6 DEF SetField
          <6>. QED
            BY <3>2, <3>3, <4>1, <5>6, <6>1
        <5>. QED
          BY <2>7, <2>18, <4>3, <5>2, <5>3, <5>4, <5>5, <5>6
      <4>. QED
        BY <4>2, <4>3
    <3>6. CurrentRight(t, n + 1, c, b)
      <4>1. /\ c.id = IF line.key = "id" THEN v ELSE cur.id
            /\ c.enabled = IF line.key = "enabled" THEN v ELSE cur.enabled
            /\ c.sensor_id = IF line.key = "sensor_id" THEN v ELSE cur.sensor_id
            /\ c.value = IF line.key = "value" /\ ~ Acting(s) THEN v ELSE cur.value
            /\ c.then = cur.then
        BY <3>2
      <4>. QED
        BY <2>5, <2>9, <2>13, <2>18, <3>3, <4>1, FieldLine
    <3>7. FinishedRight(t, rs, c.id)
      <4>1. PICK i : i = IF line.key = "id" THEN v ELSE cur.id
        OBVIOUS
      <4>2. c.id = i
        BY <3>2, <4>1
      <4>3. FinishedRight(t, rs, i)
        BY <2>5, <2>7, <2>8, <2>9, <2>13, <2>18, <4>1, FinishedStay
      <4>. QED
        BY <4>2, <4>3
    <3>8. /\ in_rule' \in BOOLEAN /\ in_action' \in BOOLEAN
          /\ in_rule' <=> IdLines(t) # {}
          /\ in_action' <=> Acting(t)
      <4>1. Acting(t) <=> Acting(s)
        BY <2>5, <2>18, FieldShape
      <4>2. /\ line.key = "id" => IdLines(t) = IdLines(s) \cup {n + 1}
            /\ line.key # "id" => IdLines(t) = IdLines(s)
        BY <2>5, IdsNext
      <4>. QED
        BY <2>3, <2>15, <3>1, <4>1, <4>2
    <3>. QED
      BY <2>5, <2>6, <2>13, <3>1, <3>4, <3>5, <3>6, <3>7, <3>8 DEF RuleInv
  <2>. QED
    BY <2>16, <2>17, <2>18
<1>. QED
  BY <1>1, <1>2

\* LoadRulesFile reads every rule with its own switch and condition, and with an
\* action of its own type and value for each of its type lines, in whatever order
\* the lines stand.  The actuator_id of an action is the last one in it, or else the
\* last one since the action before it, which may be that of a rule without actions.
THEOREM RulesStayExact == Spec => []RulesAreExact
<1>1. RuleInv => RulesAreExact
  <2> SUFFICES ASSUME RuleInv, file = "rules"
               PROVE  /\ ListsTheNamed(text, FlushedRules)
                      /\ \A n \in DOMAIN FlushedRules :
                           IsRule(text, FlushedRules[n], BlockOf(text, FlushedRules[n].id))
    BY DEF RulesAreExact
  <2>1. /\ text \in Seq(RuleLines) /\ rules \in Seq(RuleType)
        /\ current \in RuleType /\ action \in ActionType
        /\ CurrentRight(text, Len(text), current, action)
        /\ FinishedRight(text, rules, current.id)
    BY DEF RuleInv
  <2>2. FlushedRules = IF current.id = 0 THEN rules
                       ELSE Append(rules, Done(text, current, action))
    BY FlushedIs
  <2>3. PICK s, n, cur, act, rs : /\ s = text /\ n = Len(text)
                                  /\ cur = current /\ act = action /\ rs = rules
    OBVIOUS
  <2>4. /\ n \in Nat /\ Len(s) = n
        /\ Within(IdLines(s), n) /\ Within(Bounds(s), n) /\ Within(TypeLines(s), n)
        /\ \A i \in IdLines(s) : s[i].kind \in {"pair", "bare"}
    BY <2>1, <2>3, RuleKinds
  <2>5. PICK all : all = IF cur.id = 0 THEN rs ELSE Append(rs, Done(s, cur, act))
    OBVIOUS
  <2>6. /\ ListsTheNamed(s, all)
        /\ \A k \in DOMAIN all : IsRule(s, all[k], BlockOf(s, all[k].id))
    <3>1. /\ cur \in RuleType /\ act \in ActionType /\ rs \in Seq(RuleType)
          /\ CurrentRight(s, n, cur, act) /\ FinishedRight(s, rs, cur.id)
      BY <2>1, <2>3
    <3>. QED
      BY <2>4, <2>5, <3>1, RulesFlushed
  <2>. QED
    BY <2>2, <2>3, <2>5, <2>6
<1>. QED
  BY <1>1, RuleInit, RuleStep, PTL DEF Spec
=============================================================================
