---------------------------- MODULE EscapeProofs ----------------------------
(***************************************************************************)
(* For every text, any number of directives and both settings of           *)
(* standard_conforming_strings: what postgres_escape writes fits its       *)
(* buffer, and the server reads it back as the text it was made of         *)
(* (LiteralReads); and no query is made of a text as it came.              *)
(***************************************************************************)
EXTENDS Escape, DataInduction

-----------------------------------------------------------------------------
(* How the server reads, one byte after the other *)

(* The function behind FoldLeft in Read: the state after the bytes of a set *)
(* of places, the last of them last.                                        *)
LastPlace(s) == CHOOSE x \in s : \A y \in s : x >= y
Start == [at |-> "outside", text |-> <<>>]
Reading(c, lit, D, g) ==
    g = [s \in SUBSET D |->
           IF s = {} THEN Start ELSE ReadByte(c, g[s \ {LastPlace(s)}], lit[LastPlace(s)])]

(* A set of places has a last one.                                          *)
LEMMA LastIs ==
    ASSUME NEW n \in Nat, NEW s \in SUBSET (1..n), s # {}
    PROVE  LastPlace(s) \in s /\ \A y \in s : LastPlace(s) >= y
<1>1. s \in SUBSET (0..n)  OBVIOUS
<1>2. PICK m \in s : \A y \in s : y <= m  BY <1>1, GreatestNat
<1>3. \A y \in s : m >= y  BY <1>2
<1>4. \E x \in s : \A y \in s : x >= y  BY <1>3
<1> QED  BY <1>4 DEF LastPlace

(* The function exists, by induction over the number of places.             *)
LEMMA ReadingExists ==
    ASSUME NEW n \in Nat, NEW c, NEW lit
    PROVE  \E g : Reading(c, lit, 1..n, g)
<1> DEFINE D == 1..n
           step(g, s) == ReadByte(c, g[s \ {LastPlace(s)}], lit[LastPlace(s)])
           small(m) == {s \in SUBSET D : Cardinality(s) <= m}
           upTo(m, g) == g = [s \in small(m) |-> IF s = {} THEN Start ELSE step(g, s)]
           P == {m \in Nat : \E g : upTo(m, g)}
<1>f. IsFiniteSet(D)  BY FS_Interval
<1>s. \A s \in SUBSET D : IsFiniteSet(s) /\ Cardinality(s) \in Nat
                         /\ Cardinality(s) <= Cardinality(D)
                         /\ (Cardinality(s) = 0 <=> s = {})
  BY <1>f, FS_Subset, FS_CardinalityType, FS_EmptySet
<1>n. \A s \in SUBSET D : s # {} =>
         /\ s \ {LastPlace(s)} \in SUBSET D
         /\ Cardinality(s \ {LastPlace(s)}) = Cardinality(s) - 1
  BY <1>s, LastIs, FS_RemoveElement
<1>c. \A g, h, s : g[s \ {LastPlace(s)}] = h[s \ {LastPlace(s)}] => step(g, s) = step(h, s)
  OBVIOUS
<1> HIDE DEF D, step
<1>1. 0 \in P
  <2>1. \A s \in small(0) : s = {}  BY <1>s
  <2>2. upTo(0, [s \in small(0) |-> Start])
    <3> DEFINE g == [s \in small(0) |-> Start]
    <3>1. \A s \in small(0) : g[s] = IF s = {} THEN Start ELSE step(g, s)
      BY <2>1
    <3> HIDE DEF small
    <3> QED  BY <3>1
  <2> HIDE DEF upTo
  <2> QED  BY <2>2
<1>2. ASSUME NEW m \in P  PROVE m + 1 \in P
  <2>1. PICK g : upTo(m, g)  BY <1>2
  <2>2. m \in Nat  OBVIOUS
  <2> DEFINE h == [s \in small(m + 1) |-> IF s \in small(m) THEN g[s] ELSE step(g, s)]
  <2>3. \A s \in small(m + 1) : s # {} => s \ {LastPlace(s)} \in small(m)
    BY <1>s, <1>n, <2>2
  <2>4. \A s \in small(m) : s \in small(m + 1)  BY <1>s, <2>2
  <2>5. {} \in small(m)  BY <1>s, <2>2
  <2> HIDE DEF small
  <2>6. \A s \in small(m) : g[s] = IF s = {} THEN Start ELSE step(g, s)
    BY <2>1
  <2>7. \A s \in small(m) : h[s] = g[s]  BY <2>4
  <2>8. \A s \in small(m + 1) : s \notin small(m) => h[s] = step(g, s)
    OBVIOUS
  <2> HIDE DEF h
  <2>9. \A s \in small(m + 1) : s # {} => step(h, s) = step(g, s)
    <3> TAKE s \in small(m + 1)
    <3>1. s # {} => h[s \ {LastPlace(s)}] = g[s \ {LastPlace(s)}]
      BY <2>3, <2>7
    <3> QED  BY <1>c, <3>1
  <2>10. \A s \in small(m + 1) : h[s] = IF s = {} THEN Start ELSE step(h, s)
    BY <2>5, <2>6, <2>7, <2>8, <2>9
  <2>11. h = [s \in small(m + 1) |-> h[s]]  BY DEF h
  <2>12. upTo(m + 1, h)  BY <2>10, <2>11
  <2> HIDE DEF upTo
  <2> QED  BY <2>2, <2>12
<1> HIDE DEF P
<1>3. P = Nat  BY <1>1, <1>2, NatSetInduction DEF P
<1>4. Cardinality(D) \in P  BY <1>f, <1>3, FS_CardinalityType
<1>5. \E g : upTo(Cardinality(D), g)
  <2> HIDE DEF upTo
  <2> QED  BY <1>4 DEF P
<1>6. small(Cardinality(D)) = SUBSET D  BY <1>s
<1> HIDE DEF small
<1> QED  BY <1>5, <1>6 DEF Reading, D, step

(* The states of a reader.                                                  *)
LEMMA ReadSteps ==
    ASSUME NEW S, NEW lit \in Seq(S), NEW c
    PROVE  \E r : /\ r[0] = Start /\ Read(c, lit) = r[Len(lit)]
                  /\ \A i \in 1..Len(lit) : r[i] = ReadByte(c, r[i - 1], lit[i])
<1>1. PICK n \in Nat : n = Len(lit) /\ DOMAIN lit = 1..n
  OBVIOUS
<1> DEFINE g == CHOOSE g : g = [s \in SUBSET (1..n) |->
                   IF s = {} THEN Start ELSE ReadByte(c, g[s \ {LastPlace(s)}], lit[LastPlace(s)])]
<1>2. Reading(c, lit, 1..n, g)
  <2>1. \E h : Reading(c, lit, 1..n, h)  BY ReadingExists
  <2> QED  BY <2>1 DEF Reading
<1>3. Read(c, lit) = g[1..n]
  BY <1>1 DEF Read, FoldLeft, MapThenFoldSet, Max, LastPlace, Start
<1> HIDE DEF g
<1>4. g[{}] = Start
  BY <1>2 DEF Reading
<1>5. \A s \in SUBSET (1..n) : s # {} => g[s] = ReadByte(c, g[s \ {LastPlace(s)}], lit[LastPlace(s)])
  BY <1>2 DEF Reading
<1>6. ASSUME NEW i \in 1..n
      PROVE  g[1..i] = ReadByte(c, g[1..(i - 1)], lit[i])
  <2>1. 1..i \in SUBSET (1..n) /\ i \in 1..i /\ (1..i) \ {i} = 1..(i - 1)
    OBVIOUS
  <2>2. LastPlace(1..i) \in 1..i /\ \A y \in 1..i : LastPlace(1..i) >= y
    BY <2>1, LastIs
  <2>3. LastPlace(1..i) = i
    BY <2>1, <2>2
  <2>4. 1..i # {}
    BY <2>1
  <2>5. g[1..i] = ReadByte(c, g[(1..i) \ {LastPlace(1..i)}], lit[LastPlace(1..i)])
    BY <1>5, <2>1, <2>4
  <2> QED  BY <2>1, <2>3, <2>5
<1> DEFINE r == [i \in 0..n |-> g[1..i]]
<1>7. r[0] = Start /\ r[n] = g[1..n]
  <2>1. 1..0 = {} /\ 0 \in 0..n /\ n \in 0..n  OBVIOUS
  <2> QED  BY <1>4, <2>1
<1>8. \A i \in 1..n : r[i] = ReadByte(c, r[i - 1], lit[i])
  <2>1. \A i \in 1..n : i \in 0..n /\ i - 1 \in 0..n  OBVIOUS
  <2> QED  BY <1>6, <2>1
<1> HIDE DEF r
<1> QED  BY <1>1, <1>3, <1>7, <1>8

-----------------------------------------------------------------------------
(* What libpq writes *)

Letters == Bytes \cup {"NULL"}

(* The text of a value: all of it before its first zero byte.               *)
LEMMA TextIs ==
    ASSUME NEW v \in Seq(Letters)
    PROVE  /\ TextOf(v) \in Seq(Letters) /\ Len(TextOf(v)) <= Len(v)
           /\ v = <<>> => TextOf(v) = <<>>
<1> DEFINE zeros == {i \in DOMAIN v : v[i] = "0"}
<1>1. TextOf(v) = IF zeros = {} THEN v ELSE SubSeq(v, 1, Min(zeros) - 1)
  BY DEF TextOf
<1>2. CASE zeros = {}
  BY <1>1, <1>2
<1>3. CASE zeros # {}
  <2>1. zeros \in SUBSET Nat
    OBVIOUS
  <2>2. PICK m \in zeros : \A y \in zeros : m <= y
    BY <1>3, <2>1, LeastNat
  <2>3. Min(zeros) \in zeros
    BY <2>2 DEF Min
  <2>4. PICK k : k = Min(zeros)
    OBVIOUS
  <2>5. k \in 1..Len(v)
    BY <2>3, <2>4
  <2>6. /\ SubSeq(v, 1, k - 1) \in Seq(Letters)
        /\ Len(SubSeq(v, 1, k - 1)) = k - 1
    BY <2>5
  <2>7. TextOf(v) = SubSeq(v, 1, k - 1)
    BY <1>1, <1>3, <2>4
  <2>8. v # <<>>
    BY <2>5
  <2> QED  BY <2>5, <2>6, <2>7, <2>8
<1> QED  BY <1>2, <1>3

(* The bytes that libpq writes for one byte of the text.                    *)
Special == IF std THEN {"'"} ELSE {"'", "\\"}
Escaped(byte) == IF byte \in Special THEN <<byte, byte>> ELSE <<byte>>

(* Where the bytes of each letter of t are in esc: those of the m-th begin  *)
(* after the place p[m - 1].                                                *)
Places(t, esc, p) ==
    /\ p \in [0..Len(t) -> Nat] /\ p[0] = 0 /\ p[Len(t)] = Len(esc)
    /\ \A m \in 1..Len(t) :
          /\ p[m] = p[m - 1] + Len(Escaped(t[m]))
          /\ \A j \in 1..Len(Escaped(t[m])) : esc[p[m - 1] + j] = Escaped(t[m])[j]

LEMMA EscapePlaces ==
    ASSUME NEW v \in Seq(Letters)
    PROVE  /\ PQescapeString(v) \in Seq(Letters)
           /\ \E p : Places(TextOf(v), PQescapeString(v), p)
<1>1. PICK t \in Seq(Letters) : t = TextOf(v)
  BY TextIs
<1> DEFINE s == [i \in DOMAIN t |-> Escaped(t[i])]
<1>2. PQescapeString(v) = FlattenSeq(s)
  BY <1>1 DEF PQescapeString, Escaped, Special
<1>3. \A i \in DOMAIN t : Escaped(t[i]) \in Seq(Letters)
  <2>1. \A x \in Letters : <<x, x>> \in Seq(Letters) /\ <<x>> \in Seq(Letters)
    OBVIOUS
  <2>2. \A i \in DOMAIN t : t[i] \in Letters
    OBVIOUS
  <2> QED  BY <2>1, <2>2 DEF Escaped
<1>4. DOMAIN t = 1..Len(t) /\ Len(t) \in Nat
  OBVIOUS
<1>5. s \in Seq(Seq(Letters)) /\ Len(s) = Len(t)
  <2>1. s \in [1..Len(t) -> Seq(Letters)]
    BY <1>3, <1>4
  <2> HIDE DEF s
  <2> QED  BY <1>4, <2>1
<1>6. \A i \in 1..Len(t) : s[i] = Escaped(t[i])
  BY <1>4
<1> HIDE DEF s
<1>7. CASE s = <<>>
  <2>1. FlattenSeq(s) = <<>>
    BY <1>7 DEF FlattenSeq
  <2>2. Len(t) = 0
    BY <1>5, <1>7
  <2>3. [i \in 0..0 |-> 0] \in [0..0 -> Nat] /\ [i \in 0..0 |-> 0][0] = 0
    OBVIOUS
  <2>4. 1..0 = {} /\ Len(<<>>) = 0 /\ <<>> \in Seq(Letters)
    OBVIOUS
  <2>5. \E p : Places(t, <<>>, p)
    BY <2>2, <2>3, <2>4 DEF Places
  <2> QED  BY Zenon, <1>1, <1>2, <2>1, <2>4, <2>5
<1>8. CASE s # <<>>
  <2>1. FlattenSeq(s) \in Seq(Letters)
    BY <1>5, <1>8, FlattenPlaces
  <2>2. PICK p \in [0..Len(s) -> Nat] :
          /\ p[0] = 0 /\ p[Len(s)] = Len(FlattenSeq(s))
          /\ \A m \in 1..Len(s) :
                /\ p[m] = p[m - 1] + Len(s[m])
                /\ \A j \in 1..Len(s[m]) : FlattenSeq(s)[p[m - 1] + j] = s[m][j]
    BY <1>5, <1>8, FlattenPlaces
  <2>3. \A m \in 1..Len(t) :
           /\ p[m] = p[m - 1] + Len(Escaped(t[m]))
           /\ \A j \in 1..Len(Escaped(t[m])) : FlattenSeq(s)[p[m - 1] + j] = Escaped(t[m])[j]
    <3> TAKE m \in 1..Len(t)
    <3>1. m \in 1..Len(s) /\ s[m] = Escaped(t[m])
      BY <1>5, <1>6
    <3> QED  BY <2>2, <3>1
  <2>4. p \in [0..Len(t) -> Nat] /\ p[0] = 0 /\ p[Len(t)] = Len(FlattenSeq(s))
    BY <1>5, <2>2
  <2>5. Places(t, FlattenSeq(s), p)
    BY Zenon, <2>3, <2>4 DEF Places
  <2> QED  BY Zenon, <1>1, <1>2, <2>1, <2>5
<1> QED  BY <1>7, <1>8

(* What is read of a literal of which a number of letters have been.        *)
Inside(t, m) == [at |-> "inside", text |-> SubSeq(t, 1, m)]

(* The reader that has the setting libpq last heard of.                     *)
Step(state, byte) == ReadByte(std, state, byte)
ReadBack(literal) == Read(std, literal)

LEMMA ReadBackSteps ==
    ASSUME NEW S, NEW lit \in Seq(S), NEW n \in Nat, n = Len(lit)
    PROVE  \E r : /\ r[0] = Start /\ ReadBack(lit) = r[n]
                  /\ \A i \in 1..n : r[i] = Step(r[i - 1], lit[i])
<1>1. PICK r : /\ r[0] = Start /\ Read(std, lit) = r[Len(lit)]
               /\ \A i \in 1..Len(lit) : r[i] = ReadByte(std, r[i - 1], lit[i])
  BY ReadSteps
<1>2. r[0] = Start /\ ReadBack(lit) = r[n]
  BY <1>1 DEF ReadBack
<1>3. \A i \in 1..n : r[i] = Step(r[i - 1], lit[i])
  BY <1>1 DEF Step
<1> QED  BY <1>2, <1>3

(* One byte, in each state that a literal of libpq leads to.                *)
LEMMA ByteReads ==
    ASSUME NEW x, NEW y
    PROVE  /\ Step(Start, "'") = [at |-> "inside", text |-> <<>>]
           /\ Step([at |-> "inside", text |-> y], "'") = [at |-> "quote", text |-> y]
           /\ Step([at |-> "quote", text |-> y], "'") = [at |-> "inside", text |-> Append(y, "'")]
           /\ "'" \in Special
           /\ x \in Special /\ x # "'" =>
                 Step([at |-> "inside", text |-> y], x) = [at |-> "backslash", text |-> y]
           /\ Step([at |-> "backslash", text |-> y], x) = [at |-> "inside", text |-> Append(y, x)]
           /\ x \notin Special =>
                 Step([at |-> "inside", text |-> y], x) = [at |-> "inside", text |-> Append(y, x)]
<1>1. Step(Start, "'") = [at |-> "inside", text |-> <<>>]
  BY DEF Step, ReadByte, Start
<1>2. Step([at |-> "inside", text |-> y], "'") = [at |-> "quote", text |-> y]
  BY DEF Step, ReadByte
<1>3. PICK z : z = Append(y, "'")
  OBVIOUS
<1>4. Step([at |-> "quote", text |-> y], "'") = [at |-> "inside", text |-> z]
  BY <1>3 DEF Step, ReadByte
<1>5. "'" \in Special
  BY DEF Special
<1>6. x \in Special /\ x # "'" =>
         Step([at |-> "inside", text |-> y], x) = [at |-> "backslash", text |-> y]
  BY DEF Step, ReadByte, Special
<1>7. PICK w : w = Append(y, x)
  OBVIOUS
<1>8. Step([at |-> "backslash", text |-> y], x) = [at |-> "inside", text |-> w]
  BY <1>7 DEF Step, ReadByte
<1>9. x \notin Special => Step([at |-> "inside", text |-> y], x) = [at |-> "inside", text |-> w]
  BY <1>7 DEF Step, ReadByte, Special
<1> QED  BY <1>1, <1>2, <1>3, <1>4, <1>5, <1>6, <1>7, <1>8, <1>9

(* A letter is read back, escaped or not.                                   *)
LEMMA LetterReads ==
    ASSUME NEW t \in Seq(Letters), NEW m \in 1..Len(t), NEW a, NEW b, NEW c,
           a = Inside(t, m - 1),
           IF t[m] \in Special THEN b = Step(a, t[m]) /\ c = Step(b, t[m])
           ELSE c = Step(a, t[m])
    PROVE  c = Inside(t, m)
<1>1. SubSeq(t, 1, m) = Append(SubSeq(t, 1, m - 1), t[m])
  OBVIOUS
<1>2. PICK x, y, z : x = t[m] /\ y = SubSeq(t, 1, m - 1) /\ z = Append(y, x)
  OBVIOUS
<1>3. a = [at |-> "inside", text |-> y]
  BY <1>2 DEF Inside
<1>4. c = [at |-> "inside", text |-> z]
  <2>1. CASE x = "'"
    <3>1. b = Step(a, x) /\ c = Step(b, x)
      BY <1>2, <2>1, ByteReads
    <3>2. b = [at |-> "quote", text |-> y]
      BY <1>3, <2>1, <3>1, ByteReads
    <3> QED  BY <1>2, <2>1, <3>1, <3>2, ByteReads
  <2>2. CASE x \in Special /\ x # "'"
    <3>1. b = Step(a, x) /\ c = Step(b, x)
      BY <1>2, <2>2
    <3>2. b = [at |-> "backslash", text |-> y]
      <4>1. Step([at |-> "inside", text |-> y], x) = [at |-> "backslash", text |-> y]
        BY <2>2, ByteReads
      <4> QED  BY <1>3, <3>1, <4>1
    <3>3. Step([at |-> "backslash", text |-> y], x) = [at |-> "inside", text |-> z]
      BY <1>2, ByteReads
    <3> QED  BY <3>1, <3>2, <3>3
  <2>3. CASE x \notin Special
    <3>1. c = Step(a, x)
      BY <1>2, <2>3
    <3> QED  BY <1>2, <1>3, <2>3, <3>1, ByteReads
  <2> QED  BY <2>1, <2>2, <2>3
<1>5. z = SubSeq(t, 1, m)
  BY <1>1, <1>2
<1> QED  BY <1>4, <1>5 DEF Inside

(* Places that grow stay below the last of them.                            *)
LEMMA PlacesGrow ==
    ASSUME NEW n \in Nat, NEW p \in [0..n -> Nat], \A m \in 1..n : p[m - 1] < p[m],
           NEW m \in 1..n
    PROVE  p[m] <= p[n]
<1> DEFINE P == {d \in Nat : d <= n - m => p[m] <= p[m + d]}
<1>1. 0 \in P
  OBVIOUS
<1>2. ASSUME NEW d \in P  PROVE d + 1 \in P
  <2>1. CASE d + 1 <= n - m
    <3>1. PICK k \in 1..n : k = m + (d + 1) /\ k - 1 = m + d
      BY <2>1
    <3>2. p[k - 1] < p[k] /\ p[m] <= p[m + d]
      BY <2>1, <3>1
    <3>3. m \in 0..n /\ k \in 0..n /\ k - 1 \in 0..n
      BY <3>1
    <3>4. p[m] \in Nat /\ p[k] \in Nat /\ p[k - 1] \in Nat
      BY <3>3
    <3>5. p[m] <= p[k]
      BY <3>1, <3>2, <3>4
    <3>6. p[m] <= p[m + (d + 1)]
      BY <3>1, <3>5
    <3> QED  BY <3>6
  <2>2. CASE ~(d + 1 <= n - m)
    BY <2>2
  <2> QED  BY <2>1, <2>2
<1> HIDE DEF P
<1>3. P = Nat
  BY <1>1, <1>2, NatSetInduction DEF P
<1>4. n - m \in P
  BY <1>3
<1>5. m + (n - m) = n
  OBVIOUS
<1> QED  BY <1>4, <1>5 DEF P

(* A text of n letters, the m-th of them between the places p[m - 1] and    *)
(* p[m] of esc, which the literal has one place later; the reader's states. *)
LettersPlaced(n, p, len, t, esc, lit, r) ==
    /\ n \in Nat /\ p \in [0..n -> Nat] /\ len \in Nat /\ p[0] = 0 /\ p[n] = len
    /\ \A m \in 1..n :
          /\ p[m] = p[m - 1] + (IF t[m] \in Special THEN 2 ELSE 1)
          /\ esc[p[m - 1] + 1] = t[m]
          /\ t[m] \in Special => esc[p[m - 1] + 2] = t[m]
    /\ \A k \in 1..len : lit[k + 1] = esc[k]
    /\ \A i \in 1..(len + 2) : r[i] = Step(r[i - 1], lit[i])
    /\ r[1] = Inside(t, 0)
    /\ \A m \in 1..n : t[m] \in Special =>
          Step(Step(Inside(t, m - 1), t[m]), t[m]) = Inside(t, m)
    /\ \A m \in 1..n : t[m] \notin Special =>
          Step(Inside(t, m - 1), t[m]) = Inside(t, m)

(* After the byte 1 + p[m] the m-th letter has been read.                   *)
LEMMA LettersRead ==
    ASSUME NEW n, NEW p, NEW len, NEW t, NEW esc, NEW lit, NEW r,
           LettersPlaced(n, p, len, t, esc, lit, r)
    PROVE  len <= 2 * n /\ r[1 + len] = Inside(t, n)
<1> SUFFICES ASSUME
           n \in Nat, p \in [0..n -> Nat], len \in Nat, p[0] = 0, p[n] = len,
           \A m \in 1..n :
              /\ p[m] = p[m - 1] + (IF t[m] \in Special THEN 2 ELSE 1)
              /\ esc[p[m - 1] + 1] = t[m]
              /\ t[m] \in Special => esc[p[m - 1] + 2] = t[m],
           \A k \in 1..len : lit[k + 1] = esc[k],
           \A i \in 1..(len + 2) : r[i] = Step(r[i - 1], lit[i]),
           r[1] = Inside(t, 0),
           \A m \in 1..n : t[m] \in Special =>
              Step(Step(Inside(t, m - 1), t[m]), t[m]) = Inside(t, m),
           \A m \in 1..n : t[m] \notin Special =>
              Step(Inside(t, m - 1), t[m]) = Inside(t, m)
    PROVE  len <= 2 * n /\ r[1 + len] = Inside(t, n)
  BY DEF LettersPlaced
<1>1. \A m \in 1..n : m - 1 \in 0..n /\ p[m - 1] \in Nat /\ p[m] \in Nat /\ p[m - 1] < p[m]
                      /\ p[m] <= p[m - 1] + 2
  <2> TAKE m \in 1..n
  <2>1. m - 1 \in 0..n
    OBVIOUS
  <2>2. PICK k \in Nat : k = p[m - 1]
    BY <2>1
  <2>3. p[m] = k + 2 \/ p[m] = k + 1
    BY <2>2
  <2> QED  BY <2>1, <2>2, <2>3
<1> DEFINE P == {m \in Nat : m <= n => p[m] <= 2 * m /\ r[1 + p[m]] = Inside(t, m)}
<1>2. 0 \in P
  OBVIOUS
<1>3. ASSUME NEW i \in P  PROVE i + 1 \in P
  <2>1. CASE ~(i + 1 <= n)
    BY <2>1
  <2>2. CASE i + 1 <= n
    <3>1. PICK m \in 1..n : m = i + 1 /\ m - 1 = i
      BY <2>2
    <3>2. PICK q \in Nat : q = p[m - 1]
      BY <1>1, <3>1
    <3>3. q <= 2 * i /\ r[1 + q] = Inside(t, m - 1)
      <4>1. i <= n /\ p[i] = q
        BY <2>2, <3>1, <3>2
      <4>2. p[i] <= 2 * i /\ r[1 + p[i]] = Inside(t, i)
        BY <1>3, <4>1
      <4> QED  BY <3>1, <4>1, <4>2
    <3> HIDE DEF P
    <3>4. p[m] \in Nat /\ p[m] <= len
      BY <1>1, <3>1, PlacesGrow
    <3>5. CASE t[m] \in Special
      <4>1. p[m] = q + 2 /\ esc[q + 1] = t[m] /\ esc[q + 2] = t[m]
        BY <3>2, <3>5
      <4>2. q + 1 \in 1..len /\ q + 2 \in 1..len /\ q + 2 \in 1..(len + 2) /\ q + 3 \in 1..(len + 2)
        BY <3>4, <4>1
      <4>3. lit[q + 2] = t[m] /\ lit[q + 3] = t[m]
        <5>1. lit[(q + 1) + 1] = esc[q + 1] /\ lit[(q + 2) + 1] = esc[q + 2]
          BY <4>2
        <5>2. (q + 1) + 1 = q + 2 /\ (q + 2) + 1 = q + 3
          OBVIOUS
        <5> QED  BY <4>1, <5>1, <5>2
      <4>4. r[q + 2] = Step(r[q + 1], lit[q + 2]) /\ r[q + 3] = Step(r[q + 2], lit[q + 3])
        <5>1. (q + 2) - 1 = q + 1 /\ (q + 3) - 1 = q + 2
          OBVIOUS
        <5>2. /\ r[q + 2] = Step(r[(q + 2) - 1], lit[q + 2])
              /\ r[q + 3] = Step(r[(q + 3) - 1], lit[q + 3])
          BY <4>2
        <5> QED  BY <5>1, <5>2
      <4>5. 1 + q = q + 1 /\ 1 + p[m] = q + 3 /\ p[m] <= 2 * m
        BY <3>1, <3>3, <4>1
      <4>6. r[q + 3] = Inside(t, m)
        <5>1. r[q + 1] = Inside(t, m - 1)
          BY <3>3, <4>5
        <5>2. Step(Step(Inside(t, m - 1), t[m]), t[m]) = Inside(t, m)
          BY <3>5
        <5> QED  BY <4>3, <4>4, <5>1, <5>2
      <4>7. r[1 + p[m]] = Inside(t, m)
        BY <4>5, <4>6
      <4> QED  BY <3>1, <4>5, <4>7 DEF P
    <3>6. CASE t[m] \notin Special
      <4>1. p[m] = q + 1 /\ esc[q + 1] = t[m]
        BY <3>2, <3>6
      <4>2. q + 1 \in 1..len /\ q + 2 \in 1..(len + 2)
        BY <3>4, <4>1
      <4>3. lit[q + 2] = t[m]
        <5>1. lit[(q + 1) + 1] = esc[q + 1]
          BY <4>2
        <5>2. (q + 1) + 1 = q + 2
          OBVIOUS
        <5> QED  BY <4>1, <5>1, <5>2
      <4>4. r[q + 2] = Step(r[q + 1], lit[q + 2])
        <5>1. (q + 2) - 1 = q + 1
          OBVIOUS
        <5>2. r[q + 2] = Step(r[(q + 2) - 1], lit[q + 2])
          BY <4>2
        <5> QED  BY <5>1, <5>2
      <4>5. 1 + q = q + 1 /\ 1 + p[m] = q + 2 /\ p[m] <= 2 * m
        BY <3>1, <3>3, <4>1
      <4>6. r[q + 2] = Inside(t, m)
        <5>1. r[q + 1] = Inside(t, m - 1)
          BY <3>3, <4>5
        <5>2. Step(Inside(t, m - 1), t[m]) = Inside(t, m)
          BY <3>6
        <5> QED  BY <4>3, <4>4, <5>1, <5>2
      <4>7. r[1 + p[m]] = Inside(t, m)
        BY <4>5, <4>6
      <4> QED  BY <3>1, <4>5, <4>7 DEF P
    <3> QED  BY <3>5, <3>6
  <2> QED  BY <2>1, <2>2
<1> HIDE DEF P
<1>4. P = Nat
  BY <1>2, <1>3, NatSetInduction DEF P
<1>5. n \in P
  BY <1>4
<1> QED  BY <1>5 DEF P

(* A text between two quotes.                                               *)
LEMMA QuotedIs ==
    ASSUME NEW esc \in Seq(Letters), NEW len \in Nat, len = Len(esc)
    PROVE  /\ Quoted(esc) \in Seq(Letters) /\ Len(Quoted(esc)) = len + 2
           /\ Quoted(esc)[1] = "'" /\ Quoted(esc)[len + 2] = "'"
           /\ \A k \in 1..len : Quoted(esc)[k + 1] = esc[k]
<1>1. PICK q \in Seq(Letters) : q = <<"'">> /\ Len(q) = 1 /\ q[1] = "'"
  <2>1. <<"'">> \in Seq(Letters)
    BY DEF Letters, Bytes
  <2> QED  BY <2>1
<1>2. \A x, y \in Seq(Letters) : x \o y \in Seq(Letters)
  OBVIOUS
<1>3. PICK half \in Seq(Letters) : half = q \o esc
  BY Zenon, <1>2
<1>4. PICK whole \in Seq(Letters) : whole = half \o q
  BY Zenon, <1>2
<1>5. Len(half) = len + 1 /\ half[1] = "'" /\ \A k \in 1..len : half[k + 1] = esc[k]
  BY <1>1, <1>3
<1>6. Len(whole) = len + 2 /\ whole[len + 2] = "'" /\ \A k \in 1..(len + 1) : whole[k] = half[k]
  BY <1>1, <1>4, <1>5
<1>7. whole[1] = half[1] /\ \A k \in 1..len : whole[k + 1] = half[k + 1]
  BY <1>6
<1>8. whole = Quoted(esc)
  BY Zenon, <1>1, <1>3, <1>4 DEF Quoted
<1> QED  BY <1>5, <1>6, <1>7, <1>8

(* What is written between two quotes is read back as the text, and takes   *)
(* at most twice the length of the value.                                   *)
LEMMA LiteralReads ==
    ASSUME NEW v \in Seq(Letters)
    PROVE  /\ ReadBack(Quoted(PQescapeString(v))) = [at |-> "quote", text |-> TextOf(v)]
           /\ Len(Quoted(PQescapeString(v))) <= Allocated(v)
           /\ Quoted(PQescapeString(v)) \in Seq(Letters)
<1> DEFINE t == TextOf(v)
           esc == PQescapeString(v)
           lit == Quoted(esc)
<1>1. PICK n \in Nat : n = Len(t)
  BY TextIs
<1>2. PICK len \in Nat : len = Len(esc)
  BY EscapePlaces
<1>3. PICK p \in [0..n -> Nat] :
        /\ p[0] = 0 /\ p[n] = len
        /\ \A m \in 1..n :
              /\ p[m] = p[m - 1] + Len(Escaped(t[m]))
              /\ \A j \in 1..Len(Escaped(t[m])) : esc[p[m - 1] + j] = Escaped(t[m])[j]
  <2>1. \E p : Places(t, esc, p)
    BY EscapePlaces
  <2> HIDE DEF t, esc
  <2> QED  BY <1>1, <1>2, <2>1 DEF Places
<1>4. /\ lit \in Seq(Letters) /\ Len(lit) = len + 2 /\ lit[1] = "'" /\ lit[len + 2] = "'"
      /\ \A k \in 1..len : lit[k + 1] = esc[k]
  BY <1>2, EscapePlaces, QuotedIs
<1>5. PICK r : /\ r[0] = Start /\ ReadBack(lit) = r[len + 2]
               /\ \A i \in 1..(len + 2) : r[i] = Step(r[i - 1], lit[i])
  <2>1. PICK k \in Nat : k = len + 2
    OBVIOUS
  <2> HIDE DEF lit
  <2>2. \E r : /\ r[0] = Start /\ ReadBack(lit) = r[k]
               /\ \A i \in 1..k : r[i] = Step(r[i - 1], lit[i])
    BY <1>4, <2>1, ReadBackSteps
  <2> QED  BY <2>1, <2>2
<1>6. \A m \in 1..n :
         /\ t[m] \in Special => Step(Step(Inside(t, m - 1), t[m]), t[m]) = Inside(t, m)
         /\ t[m] \notin Special => Step(Inside(t, m - 1), t[m]) = Inside(t, m)
  <2>1. t \in Seq(Letters)
    BY TextIs
  <2> HIDE DEF t
  <2> QED  BY <1>1, <2>1, LetterReads
<1>7. t \in Seq(Letters) /\ SubSeq(t, 1, 0) = <<>> /\ SubSeq(t, 1, n) = t /\ n <= Len(v)
  <2>1. t \in Seq(Letters) /\ Len(t) <= Len(v)
    BY TextIs
  <2> HIDE DEF t
  <2> QED  BY <1>1, <2>1
<1> HIDE DEF t, esc, lit
<1>8. r[1] = Inside(t, 0)
  <2>1. r[1] = Step(r[1 - 1], lit[1])
    BY <1>5
  <2>2. r[1] = Step(Start, "'")
    BY <1>4, <1>5, <2>1
  <2> QED  BY <1>7, <2>2, ByteReads DEF Inside
<1>9. \A m \in 1..n :
         /\ p[m] = p[m - 1] + (IF t[m] \in Special THEN 2 ELSE 1)
         /\ esc[p[m - 1] + 1] = t[m]
         /\ t[m] \in Special => esc[p[m - 1] + 2] = t[m]
  <2>1. \A x : /\ x \in Special => /\ Len(Escaped(x)) = 2
                                 /\ Escaped(x)[1] = x /\ Escaped(x)[2] = x
               /\ x \notin Special => Len(Escaped(x)) = 1 /\ Escaped(x)[1] = x
    BY DEF Escaped
  <2> TAKE m \in 1..n
  <2>2. /\ p[m] = p[m - 1] + Len(Escaped(t[m]))
        /\ \A j \in 1..Len(Escaped(t[m])) : esc[p[m - 1] + j] = Escaped(t[m])[j]
    BY <1>3
  <2>3. CASE t[m] \in Special
    <3>1. Len(Escaped(t[m])) = 2 /\ Escaped(t[m])[1] = t[m] /\ Escaped(t[m])[2] = t[m]
      BY <2>1, <2>3
    <3>2. 1 \in 1..2 /\ 2 \in 1..2
      OBVIOUS
    <3> QED  BY <2>2, <2>3, <3>1, <3>2
  <2>4. CASE t[m] \notin Special
    <3>1. Len(Escaped(t[m])) = 1 /\ Escaped(t[m])[1] = t[m]
      BY <2>1, <2>4
    <3>2. 1 \in 1..1
      OBVIOUS
    <3> QED  BY <2>2, <2>4, <3>1, <3>2
  <2> QED  BY <2>3, <2>4
<1>10. len <= 2 * n /\ r[1 + len] = Inside(t, n)
  <2>1. p[0] = 0 /\ p[n] = len
    BY <1>3
  <2>2. \A k \in 1..len : lit[k + 1] = esc[k]
    BY <1>4
  <2>3. \A i \in 1..(len + 2) : r[i] = Step(r[i - 1], lit[i])
    BY <1>5
  <2>4. \A m \in 1..n : t[m] \in Special =>
           Step(Step(Inside(t, m - 1), t[m]), t[m]) = Inside(t, m)
    BY <1>6
  <2>5. \A m \in 1..n : t[m] \notin Special => Step(Inside(t, m - 1), t[m]) = Inside(t, m)
    BY <1>6
  <2>6. LettersPlaced(n, p, len, t, esc, lit, r)
    BY <1>8, <1>9, <2>1, <2>2, <2>3, <2>4, <2>5 DEF LettersPlaced
  <2> QED  BY <2>6, LettersRead
<1>11. ReadBack(lit) = [at |-> "quote", text |-> t]
  <2>1. len + 2 \in 1..(len + 2) /\ (len + 2) - 1 = 1 + len
    OBVIOUS
  <2>2. r[len + 2] = Step(r[1 + len], "'")
    BY <1>4, <1>5, <2>1
  <2>3. r[1 + len] = [at |-> "inside", text |-> t]
    BY <1>7, <1>10 DEF Inside
  <2> QED  BY <1>5, <2>2, <2>3, ByteReads
<1>12. Len(lit) <= Allocated(v)
  <2>1. PICK k \in Nat : k = Len(v)
    OBVIOUS
  <2>2. n <= k /\ Len(lit) = len + 2 /\ Allocated(v) = 2 * k + 2
    BY <1>4, <1>7, <2>1 DEF Allocated
  <2> QED  BY <1>10, <2>2
<1> QED  BY <1>4, <1>11, <1>12 DEF t, esc, lit

(* The literal that has nothing in it.                                      *)
LEMMA EmptyReads ==
    /\ Quoted(<<>>) \in Seq(Letters)
    /\ ReadBack(Quoted(<<>>)) = [at |-> "quote", text |-> <<>>]
<1>1. <<>> \in Seq(Letters) /\ Len(<<>>) = 0
  OBVIOUS
<1>2. PICK lit \in Seq(Letters) : lit = Quoted(<<>>) /\ Len(lit) = 2 /\ lit[1] = "'" /\ lit[2] = "'"
  <2>1. \A len \in Nat : len = Len(<<>>) =>
           /\ Quoted(<<>>) \in Seq(Letters) /\ Len(Quoted(<<>>)) = len + 2
           /\ Quoted(<<>>)[1] = "'" /\ Quoted(<<>>)[len + 2] = "'"
    BY <1>1, QuotedIs
  <2>2. 0 \in Nat /\ 0 + 2 = 2
    OBVIOUS
  <2> QED  BY <1>1, <2>1, <2>2
<1>3. PICK r : /\ r[0] = Start /\ ReadBack(lit) = r[2]
               /\ \A i \in 1..2 : r[i] = Step(r[i - 1], lit[i])
  BY <1>2, ReadBackSteps
<1>4. r[1] = Step(Start, "'") /\ r[2] = Step(r[1], "'")
  BY <1>2, <1>3
<1> QED  BY <1>2, <1>3, <1>4, ByteReads

-----------------------------------------------------------------------------
(* The invariant *)

Names == {"a", "b", "odd"}
Codes == [value : Seq(Parts), empty : BOOLEAN, to : Names]

(* What a directive may leave in its variable.                              *)
Done(conforming, literal) ==
    literal = NullWord \/ Read(conforming, literal).at = "quote"

EscapeTypes ==
    /\ codes \in Seq(Codes)
    /\ ip \in 0..(Len(codes) + 1)
    /\ status \in {"none", "error", "refused"}
    /\ status = "refused" => ip = 0
    /\ var \in [Names -> Seq(Letters)]
    /\ std \in BOOLEAN

(* Every directive that has run has left a literal in its variable, that    *)
(* of the last one to name it: a later directive may write the variable     *)
(* again, but only such a literal.                                          *)
DirectivesDone ==
    status = "none" =>
       \A k \in 1..Len(codes) : k < ip => Done(std, var[codes[k].to])

EscInv == EscapeTypes /\ DirectivesDone

(* The three variables as a function.                                       *)
LEMMA VariablesAre ==
    ASSUME NEW S, NEW a \in S, NEW b \in S, NEW c \in S
    PROVE  [a |-> a, b |-> b, odd |-> c] \in [Names -> S]
<1>1. PICK r : r = [a |-> a, b |-> b, odd |-> c]
  OBVIOUS
<1>2. DOMAIN r = Names /\ r["a"] = a /\ r["b"] = b /\ r["odd"] = c
  BY <1>1 DEF Names
<1>3. r = [n \in Names |-> r[n]]
  BY <1>1, <1>2
<1>4. \A n \in Names : r[n] \in S
  BY <1>2 DEF Names
<1> QED  BY <1>1, <1>3, <1>4

LEMMA EscInitially == EscapeInit => EscInv
<1> SUFFICES ASSUME EscapeInit PROVE EscInv
  OBVIOUS
<1>1. codes \in Seq(Codes) /\ Len(codes) = 0
  BY DEF EscapeInit
<1>2. ip \in 0..(Len(codes) + 1)
  BY <1>1 DEF EscapeInit
<1>3. var \in [Names -> Seq(Letters)]
  <2>1. <<>> \in Seq(Letters)
    OBVIOUS
  <2> QED  BY Zenon, <2>1, VariablesAre DEF EscapeInit
<1> QED  BY <1>1, <1>2, <1>3 DEF EscapeInit, EscInv, EscapeTypes, DirectivesDone

(* A directive that is read has a destination that begins with a variable.  *)
LEMMA ConfEscapeKeeps ==
    ASSUME EscInv, NEW dst \in Destinations, NEW src \in Sources, ConfEscape(dst, src)
    PROVE  EscInv'
<1>1. /\ codes \in Seq(Codes) /\ ip = 0 /\ status = "none"
      /\ UNCHANGED <<ip, var, std>>
      /\ var \in [Names -> Seq(Letters)] /\ std \in BOOLEAN
  BY DEF EscInv, EscapeTypes, ConfEscape
<1>2. CASE ConfEscapeOK(dst, src)
  <2> DEFINE to == Destination(dst, src)
             code == [value |-> src.parts, empty |-> src.equals,
                      to |-> IF Len(to) = 1 THEN to[1].var ELSE "odd"]
  <2>1. codes' = Append(codes, code) /\ status' = "none"
    BY <1>1, <1>2 DEF ConfEscape
  <2>2. src.parts \in Seq(Parts) /\ src.equals \in BOOLEAN /\ to \in Seq(Parts)
    BY EscapeAssumption DEF Destination
  <2>3. to[1].var # ""
    BY <1>2 DEF ConfEscapeOK, IsVariable
  <2>4. Len(to) = 1 => to[1] \in Parts
    <3>1. \A s \in Seq(Parts) : Len(s) = 1 => s[1] \in Parts
      OBVIOUS
    <3> QED  BY Zenon, <2>2, <3>1
  <2>5. Len(to) = 1 => to[1].var \in Names
    BY <2>3, <2>4 DEF Parts, Names
  <2>6. code \in Codes
    <3>1. (IF Len(to) = 1 THEN to[1].var ELSE "odd") \in Names
      BY <2>5 DEF Names
    <3> HIDE DEF to
    <3> QED  BY Zenon, <2>2, <3>1 DEF Codes
  <2> HIDE DEF code
  <2>7. codes' \in Seq(Codes) /\ Len(codes') \in Nat
    BY <1>1, <2>1, <2>6
  <2>8. ip' = 0 /\ 0 \in 0..(Len(codes') + 1)
    BY <1>1, <2>7
  <2> QED  BY <1>1, <2>1, <2>7, <2>8 DEF EscInv, EscapeTypes, DirectivesDone
<1>3. CASE ~ConfEscapeOK(dst, src)
  <2>1. codes' = codes /\ status' = "refused"
    BY <1>3 DEF ConfEscape
  <2>2. ip' \in 0..(Len(codes') + 1) /\ ip' = 0
    BY <1>1, <2>1 DEF EscInv, EscapeTypes
  <2> QED  BY <1>1, <2>1, <2>2 DEF EscInv, EscapeTypes, DirectivesDone
<1> QED  BY <1>2, <1>3

LEMMA BeginScriptKeeps ==
    ASSUME EscInv, BeginScript
    PROVE  EscInv'
<1>1. /\ codes \in Seq(Codes) /\ codes' = codes /\ ip' = 1 /\ codes # <<>>
      /\ status = "none" /\ status' = "none" /\ std' \in BOOLEAN
  BY DEF EscInv, EscapeTypes, BeginScript
<1>2. ip' \in 0..(Len(codes') + 1)
  BY <1>1
<1>3. var' \in [Names -> Seq(Letters)]
  <2>1. PICK a \in Texts, b \in Texts : var' = [a |-> a, b |-> b, odd |-> <<>>]
    BY DEF BeginScript
  <2>2. \A s \in Seq(Bytes) : s \in Seq(Letters)
    BY DEF Letters
  <2>3. a \in Seq(Letters) /\ b \in Seq(Letters) /\ <<>> \in Seq(Letters)
    BY <2>2, EscapeAssumption
  <2> QED  BY Zenon, <2>1, <2>3, VariablesAre
<1>4. \A k \in 1..Len(codes') : ~(k < ip')
  BY <1>1
<1>5. DirectivesDone'
  BY <1>4 DEF DirectivesDone
<1> QED  BY <1>1, <1>2, <1>3, <1>5 DEF EscInv, EscapeTypes

(* What the codes of a value leave on the stack is a text.                  *)
LEMMA ScriptValueIs ==
    ASSUME EscInv, NEW parts \in Seq(Parts)
    PROVE  ScriptValue(parts) \in Seq(Letters)
<1> DEFINE s == [i \in DOMAIN parts |->
                   IF IsVariable(parts[i]) THEN var[parts[i].var] ELSE parts[i].text]
<1>1. var \in [Names -> Seq(Letters)]
  BY DEF EscInv, EscapeTypes
<1>2. \A x \in Parts : (IF IsVariable(x) THEN var[x.var] ELSE x.text) \in Seq(Letters)
  <2> TAKE x \in Parts
  <2>1. x.var \in {"", "a", "b"} /\ x.text \in Seq(Bytes)
    BY DEF Parts
  <2>2. \A y \in Seq(Bytes) : y \in Seq(Letters)
    BY DEF Letters
  <2>3. IsVariable(x) => var[x.var] \in Seq(Letters)
    BY Zenon, <1>1, <2>1 DEF IsVariable, Names
  <2> QED  BY <2>1, <2>2, <2>3
<1>3. DOMAIN parts = 1..Len(parts) /\ Len(parts) \in Nat /\ \A i \in DOMAIN parts : parts[i] \in Parts
  OBVIOUS
<1>4. s \in Seq(Seq(Letters))
  <2>1. s \in [1..Len(parts) -> Seq(Letters)]
    BY <1>2, <1>3
  <2> HIDE DEF s
  <2> QED  BY <1>3, <2>1
<1>5. ScriptValue(parts) = FlattenSeq(s)
  BY DEF ScriptValue
<1> HIDE DEF s
<1>6. CASE s = <<>>
  <2>1. FlattenSeq(s) = <<>>
    BY <1>6 DEF FlattenSeq
  <2> QED  BY <1>5, <2>1
<1>7. CASE s # <<>>
  BY <1>4, <1>5, <1>7, FlattenPlaces
<1> QED  BY <1>6, <1>7

(* The three codes of one directive: the request ends, or the variable gets *)
(* a literal that is read back as the value and ip moves on; the buffer is  *)
(* never overrun.                                                           *)
LEMMA EscapeStringDoes ==
    ASSUME EscInv, EscapeString
    PROVE  /\ ip \in 1..Len(codes) /\ status = "none" /\ UNCHANGED <<codes, std>>
           /\ \/ ip' = Len(codes) + 1 /\ status' = "error" /\ UNCHANGED var
              \/ \E literal \in Seq(Letters) :
                    /\ var' = [var EXCEPT ![codes[ip].to] = literal]
                    /\ ip' = ip + 1 /\ UNCHANGED status
                    /\ LET v == ScriptValue(codes[ip].value)
                       IN  IF v = <<>> /\ ~codes[ip].empty THEN literal = NullWord
                           ELSE Read(std, literal) = [at |-> "quote", text |-> TextOf(v)]
<1>1. ip \in 1..Len(codes) /\ status = "none" /\ UNCHANGED <<codes, std>>
  <2>1. DOMAIN codes = 1..Len(codes)
    BY DEF EscInv, EscapeTypes
  <2> QED  BY <2>1 DEF EscapeString
<1>2. codes[ip].value \in Seq(Parts)
  <2>1. codes[ip] \in Codes
    BY <1>1 DEF EscInv, EscapeTypes
  <2> QED  BY <2>1 DEF Codes
<1>3. PICK v \in Seq(Letters) : v = ScriptValue(codes[ip].value)
  BY <1>2, ScriptValueIs
<1>4. PICK w : w = Quoted(PQescapeString(v))
  OBVIOUS
<1>5. /\ Read(std, w) = [at |-> "quote", text |-> TextOf(v)]
      /\ Len(w) <= Allocated(v) /\ w \in Seq(Letters)
  BY <1>4, LiteralReads DEF ReadBack
<1>6. ~(Len(w) > Allocated(v))
  <2>1. Len(w) \in Nat /\ Allocated(v) \in Nat
    BY <1>5 DEF Allocated
  <2> QED  BY <1>5, <2>1
<1>7. NullWord \in Seq(Letters)
  BY DEF NullWord, Letters
<1>8. Quoted(<<>>) \in Seq(Letters) /\ Read(std, Quoted(<<>>)) = [at |-> "quote", text |-> <<>>]
  BY EmptyReads DEF ReadBack
<1>9. v = <<>> => TextOf(v) = <<>>
  BY TextIs
<1>10. \/ v = <<>> /\ Assign(IF codes[ip].empty THEN Quoted(<<>>) ELSE NullWord)
       \/ v # <<>> /\ Exit
       \/ v # <<>> /\ Assign(w)
  BY Zenon, <1>3, <1>4, <1>6 DEF EscapeString
<1>11. CASE v # <<>> /\ Exit
  BY <1>1, <1>11 DEF Exit
<1>12. CASE v # <<>> /\ Assign(w)
  BY Zenon, <1>1, <1>3, <1>5, <1>12 DEF Assign
<1>13. CASE v = <<>> /\ Assign(IF codes[ip].empty THEN Quoted(<<>>) ELSE NullWord)
  <2>1. CASE codes[ip].empty
    <3>1. Assign(Quoted(<<>>))
      BY Zenon, <1>13, <2>1
    <3> QED  BY Zenon, <1>1, <1>3, <1>8, <1>9, <1>13, <2>1, <3>1 DEF Assign
  <2>2. CASE ~codes[ip].empty
    <3>1. Assign(NullWord)
      BY Zenon, <1>13, <2>2
    <3> QED  BY Zenon, <1>1, <1>3, <1>7, <1>13, <2>2, <3>1 DEF Assign
  <2> QED  BY <2>1, <2>2
<1> QED  BY Zenon, <1>10, <1>11, <1>12, <1>13

LEMMA EscapeStringKeeps ==
    ASSUME EscInv, EscapeString
    PROVE  EscInv'
<1>1. /\ ip \in 1..Len(codes) /\ status = "none" /\ codes' = codes /\ std' = std
      /\ \/ ip' = Len(codes) + 1 /\ status' = "error" /\ var' = var
         \/ \E literal \in Seq(Letters) :
               /\ var' = [var EXCEPT ![codes[ip].to] = literal]
               /\ ip' = ip + 1 /\ status' = status
               /\ LET v == ScriptValue(codes[ip].value)
                  IN  IF v = <<>> /\ ~codes[ip].empty THEN literal = NullWord
                      ELSE Read(std, literal) = [at |-> "quote", text |-> TextOf(v)]
  BY EscapeStringDoes
<1>2. codes \in Seq(Codes) /\ var \in [Names -> Seq(Letters)] /\ std \in BOOLEAN
  BY DEF EscInv, EscapeTypes
<1>3. PICK n \in Nat : n = Len(codes)
  BY <1>2
<1>4. CASE ip' = Len(codes) + 1 /\ status' = "error" /\ var' = var
  <2>1. ip' \in 0..(Len(codes') + 1)
    BY <1>1, <1>3, <1>4
  <2> QED  BY <1>1, <1>2, <1>4, <2>1 DEF EscInv, EscapeTypes, DirectivesDone
<1>5. ASSUME NEW literal \in Seq(Letters),
             var' = [var EXCEPT ![codes[ip].to] = literal],
             ip' = ip + 1, status' = status,
             LET v == ScriptValue(codes[ip].value)
             IN  IF v = <<>> /\ ~codes[ip].empty THEN literal = NullWord
                 ELSE Read(std, literal) = [at |-> "quote", text |-> TextOf(v)]
      PROVE  EscInv'
  <2>1. ip' \in 0..(Len(codes') + 1)
    BY <1>1, <1>3, <1>5
  <2>2. Done(std, literal)
    <3>1. CASE literal = NullWord
      BY <3>1 DEF Done
    <3>2. CASE literal # NullWord
      <4>1. Read(std, literal) = [at |-> "quote", text |-> TextOf(ScriptValue(codes[ip].value))]
        BY Zenon, <1>5, <3>2
      <4>2. PICK x : x = TextOf(ScriptValue(codes[ip].value))
        OBVIOUS
      <4>3. [at |-> "quote", text |-> x].at = "quote"
        OBVIOUS
      <4> QED  BY Zenon, <4>1, <4>2, <4>3 DEF Done
    <3> QED  BY <3>1, <3>2
  <2>3. \A k \in 1..Len(codes) : codes[k].to \in Names
    <3>1. \A k \in 1..Len(codes) : codes[k] \in Codes
      BY <1>2
    <3> QED  BY <3>1 DEF Codes
  <2>4. PICK name \in Names : name = codes[ip].to
    BY <1>1, <2>3
  <2>5. /\ var' \in [Names -> Seq(Letters)] /\ var'[name] = literal
        /\ \A x \in Names : x # name => var'[x] = var[x]
    BY Zenon, <1>2, <1>5, <2>4
  <2>6. \A k \in 1..Len(codes) : k < ip' => Done(std, var'[codes[k].to])
    <3> TAKE k \in 1..Len(codes)
    <3>1. k < ip' => k < ip \/ k = ip
      BY <1>1, <1>5
    <3>2. k < ip => Done(std, var[codes[k].to])
      BY <1>1 DEF EscInv, DirectivesDone
    <3>3. k = ip => codes[k].to = name
      BY <2>4
    <3> QED  BY Zenon, <2>2, <2>3, <2>5, <3>1, <3>2, <3>3
  <2>7. DirectivesDone'
    BY <1>1, <2>6 DEF DirectivesDone
  <2> QED  BY <1>1, <1>2, <1>5, <2>1, <2>5, <2>7 DEF EscInv, EscapeTypes
<1> QED  BY Zenon, <1>1, <1>4, <1>5

LEMMA EscapeStepKeeps == EscInv /\ [EscapeNext]_escapeVars => EscInv'
<1> SUFFICES ASSUME EscInv, [EscapeNext]_escapeVars PROVE EscInv'
  OBVIOUS
<1>1. ASSUME NEW dst \in Destinations, NEW src \in Sources, ConfEscape(dst, src)
      PROVE  EscInv'
  BY <1>1, ConfEscapeKeeps
<1>2. CASE BeginScript
  BY <1>2, BeginScriptKeeps
<1>3. CASE EscapeString
  BY <1>3, EscapeStringKeeps
<1>4. CASE UNCHANGED escapeVars
  BY <1>4 DEF escapeVars, EscInv, EscapeTypes, DirectivesDone
<1> QED  BY <1>1, <1>2, <1>3, <1>4 DEF EscapeNext

(* However many postgres_escape directives a location has, while their      *)
(* codes run each of those that have run has left a complete literal, or    *)
(* NULL, in its variable, whichever of them wrote there last; and there is  *)
(* no other outcome than that, a 500 or a configuration refused: no buffer  *)
(* is overrun.                                                              *)
THEOREM EscapeInvariant == EscapeSpec => []EscInv
<1> QED  BY EscInitially, EscapeStepKeeps, PTL DEF EscapeSpec

(* For every set of texts and directives: a request whose script is over is *)
(* answered 500 or has a literal in every variable of a postgres_escape.    *)
THEOREM AlwaysEscapedOrRefused == EscapeSpec => []EscapedOrRefused
<1>1. EscInv => EscapedOrRefused
  <2> SUFFICES ASSUME EscInv PROVE EscapedOrRefused
    OBVIOUS
  <2>1. status \in {"none", "error", "refused"} /\ (status = "refused" => ip = 0)
    BY DEF EscInv, EscapeTypes
  <2>2. DOMAIN codes = 1..Len(codes) /\ Len(codes) \in Nat
    BY DEF EscInv, EscapeTypes
  <2>3. ASSUME ip = Len(codes) + 1, status # "error", NEW k \in DOMAIN codes
        PROVE  Done(std, var[codes[k].to])
    <3>1. status = "none" /\ k \in 1..Len(codes) /\ k < ip
      BY <2>1, <2>2, <2>3
    <3> QED  BY <3>1 DEF EscInv, DirectivesDone
  <2>4. status # "overrun"
    BY <2>1
  <2> QED  BY Zenon, <2>3, <2>4 DEF EscapedOrRefused, Done
<1> QED  BY <1>1, EscapeInvariant, PTL

(* For every text, with zero bytes, quotes and backslashes, and both        *)
(* settings of standard_conforming_strings: what a directive assigns is     *)
(* read back by the server as the text up to its first zero byte.           *)
THEOREM AlwaysReadsBack == EscapeSpec => EscapeReadsBack
<1> DEFINE v == ScriptValue(codes[ip].value)
           ReadsBack ==
              ip # 0 /\ ip' = ip + 1 /\ var' # var =>
                 IF v = <<>> /\ ~codes[ip].empty THEN var'[codes[ip].to] = NullWord
                 ELSE Read(std, var'[codes[ip].to]) = [at |-> "quote", text |-> TextOf(v)]
<1>1. EscInv /\ [EscapeNext]_escapeVars => ReadsBack
  <2> SUFFICES ASSUME EscInv, [EscapeNext]_escapeVars,
                      ip # 0, ip' = ip + 1, var' # var
               PROVE  IF v = <<>> /\ ~codes[ip].empty THEN var'[codes[ip].to] = NullWord
                      ELSE Read(std, var'[codes[ip].to]) = [at |-> "quote", text |-> TextOf(v)]
    OBVIOUS
  <2>1. EscapeString
    BY Zenon DEF EscapeNext, escapeVars, ConfEscape, BeginScript
  <2>2. ip \in 1..Len(codes)
    BY <2>1, EscapeStringDoes
  <2>3. PICK literal \in Seq(Letters) :
          /\ var' = [var EXCEPT ![codes[ip].to] = literal]
          /\ IF v = <<>> /\ ~codes[ip].empty THEN literal = NullWord
             ELSE Read(std, literal) = [at |-> "quote", text |-> TextOf(v)]
    BY Zenon, <2>1, EscapeStringDoes
  <2>4. codes[ip].to \in Names /\ var \in [Names -> Seq(Letters)]
    <3>1. codes[ip] \in Codes
      BY <2>2 DEF EscInv, EscapeTypes
    <3> QED  BY <3>1 DEF EscInv, EscapeTypes, Codes
  <2>5. var'[codes[ip].to] = literal
    BY Zenon, <2>3, <2>4
  <2> QED  BY Zenon, <2>3, <2>5
<1>2. EscapeReadsBack <=> [][ReadsBack]_escapeVars
  BY DEF EscapeReadsBack
<1> QED  BY <1>1, <1>2, EscapeInvariant, PTL DEF EscapeSpec
=============================================================================
