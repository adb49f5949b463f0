--------------------------- MODULE DataInduction ---------------------------
(***************************************************************************)
(* Induction over data, in the form in which first-order provers can use   *)
(* it: over sets of numbers, not over predicates.  With it, what the       *)
(* recursive functions behind FlattenSeq and SumFunction are, for every    *)
(* sequence and for every finite domain.                                   *)
(***************************************************************************)
EXTENDS SequencesExt, FiniteSetTheorems, WellFoundedInduction, TLAPS

(* Every set of naturals that is not empty has a least one.                 *)
LEMMA LeastNat ==
    ASSUME NEW T \in SUBSET Nat, T # {}
    PROVE  \E n \in T : \A m \in T : n <= m
<1> DEFINE R == OpToRel(<, Nat)
<1>1. IsWellFoundedOn(R, Nat)  BY NatLessThanWellFounded
<1>2. \A m, n \in Nat : <<m, n>> \in R <=> m < n  BY DEF OpToRel
<1> HIDE DEF R
<1>3. PICK n \in T : \A m \in T : ~(<<m, n>> \in R)  BY <1>1, WFMin
<1>4. \A m \in T : m \in Nat /\ n \in Nat /\ ~(m < n)  BY <1>2, <1>3
<1> QED  BY <1>4

(* And one that is bounded has a greatest.                                  *)
LEMMA GreatestNat ==
    ASSUME NEW b \in Nat, NEW T \in SUBSET (0..b), T # {}
    PROVE  \E n \in T : \A m \in T : m <= n
<1> DEFINE R == {b - n : n \in T}
<1>0. \A n \in T : n \in Nat /\ b - n \in Nat  OBVIOUS
<1>2. \A n \in T : b - n \in R  OBVIOUS
<1>3. \A m \in R : \E n \in T : m = b - n  OBVIOUS
<1>1. R \in SUBSET Nat /\ R # {}
  <2>1. R # {}  BY <1>2
  <2> HIDE DEF R
  <2> QED  BY <1>0, <1>3, <2>1
<1> HIDE DEF R
<1>4. PICK m \in R : \A k \in R : m <= k  BY <1>1, LeastNat
<1>5. PICK n \in T : m = b - n  BY <1>3
<1>6. \A k \in T : b - n <= b - k  BY <1>2, <1>4, <1>5
<1> QED  BY <1>0, <1>6

(* A set of naturals that has 0, and the successor of what it has, is Nat.  *)
LEMMA NatSetInduction ==
    ASSUME NEW P \in SUBSET Nat, 0 \in P, \A n \in P : n + 1 \in P
    PROVE  P = Nat
<1>1. CASE Nat \ P # {}
  <2>1. PICK n \in Nat \ P : \A m \in Nat \ P : n <= m  BY <1>1, LeastNat
  <2>2. n # 0 /\ n - 1 \in P  BY <2>1
  <2> QED  BY <2>1, <2>2
<1> QED  BY <1>1

(* A family of subsets of a finite set that has {} and is closed under      *)
(* adding an element has the whole set.                                     *)
LEMMA SubsetInduction ==
    ASSUME NEW D, IsFiniteSet(D), NEW Q \in SUBSET (SUBSET D), {} \in Q,
           \A s \in Q : \A x \in D \ s : s \cup {x} \in Q
    PROVE  Q = SUBSET D
<1> DEFINE P == {n \in Nat : \A s \in SUBSET D : Cardinality(s) = n => s \in Q}
<1>s. \A s \in SUBSET D : /\ IsFiniteSet(s) /\ Cardinality(s) \in Nat
                         /\ (Cardinality(s) = 0 <=> s = {})
                         /\ \A x \in s : Cardinality(s \ {x}) = Cardinality(s) - 1
                                         /\ s \ {x} \in SUBSET D
  BY FS_Subset, FS_CardinalityType, FS_EmptySet, FS_RemoveElement
<1>1. 0 \in P  BY <1>s
<1>2. ASSUME NEW n \in P  PROVE n + 1 \in P
  <2>1. ASSUME NEW s \in SUBSET D, Cardinality(s) = n + 1  PROVE s \in Q
    <3>1. PICK x \in s : TRUE  BY <1>s, <2>1
    <3>2. s \ {x} \in Q  BY <1>s, <2>1
    <3>3. s = (s \ {x}) \cup {x}  BY <3>1
    <3> QED  BY <3>1, <3>2, <3>3
  <2> QED  BY <2>1
<1> HIDE DEF P
<1>3. P = Nat  BY <1>1, <1>2, NatSetInduction DEF P
<1> QED  BY <1>s, <1>3 DEF P

-----------------------------------------------------------------------------
(* FlattenSeq *)

(* The function whose last value is FlattenSeq(s).                          *)
Flattening(s, f) ==
    f = [i \in 1..Len(s) |-> IF i = 1 THEN s[i] ELSE f[i - 1] \o s[i]]

LEMMA FlatteningExists ==
    ASSUME NEW S, NEW s \in Seq(S)
    PROVE  \E f : Flattening(s, f)
<1> DEFINE upTo(m, f) == f = [i \in 1..m |-> IF i = 1 THEN s[i] ELSE f[i - 1] \o s[i]]
           P == {m \in Nat : \E f : upTo(m, f)}
<1>1. 0 \in P
  <2>1. upTo(0, <<>>)  OBVIOUS
  <2> QED  BY <2>1
<1>2. ASSUME NEW m \in P  PROVE m + 1 \in P
  <2>1. PICK f : upTo(m, f)  BY <1>2
  <2> DEFINE g == [i \in 1..(m + 1) |-> IF i = m + 1
                                        THEN IF i = 1 THEN s[i] ELSE f[i - 1] \o s[i]
                                        ELSE f[i]]
  <2>2. m \in Nat  OBVIOUS
  <2>3. \A i \in 1..m : f[i] = IF i = 1 THEN s[i] ELSE f[i - 1] \o s[i]  BY <2>1
  <2>4. \A i \in 1..(m + 1) : g[i] = IF i = 1 THEN s[i] ELSE g[i - 1] \o s[i]
    <3>1. \A i \in 1..m : g[i] = f[i]  BY <2>2
    <3>2. g[m + 1] = IF m + 1 = 1 THEN s[m + 1] ELSE f[m] \o s[m + 1]  BY <2>2
    <3> HIDE DEF g
    <3>3. \A i \in 1..m : i # 1 => i - 1 \in 1..m  BY <2>2
    <3>4. \A i \in 1..m : g[i] = IF i = 1 THEN s[i] ELSE g[i - 1] \o s[i]
      BY <2>3, <3>1, <3>3
    <3>5. m # 0 => m \in 1..m /\ m + 1 - 1 = m  BY <2>2
    <3>6. g[m + 1] = IF m + 1 = 1 THEN s[m + 1] ELSE g[m + 1 - 1] \o s[m + 1]
      BY <2>2, <3>1, <3>2, <3>5
    <3>7. \A i \in 1..(m + 1) : i \in 1..m \/ i = m + 1  BY <2>2
    <3> QED  BY <3>4, <3>6, <3>7
  <2>5. upTo(m + 1, g)
    <3> HIDE DEF g
    <3>1. g = [i \in 1..(m + 1) |-> g[i]]  BY DEF g
    <3> QED  BY <2>4, <3>1
  <2> HIDE DEF upTo
  <2> QED  BY <2>2, <2>5
<1> HIDE DEF P
<1>3. P = Nat  BY <1>1, <1>2, NatSetInduction DEF P
<1>4. Len(s) \in P  BY <1>3
<1>5. \E f : upTo(Len(s), f)
  <2> HIDE DEF upTo
  <2> QED  BY <1>4 DEF P
<1> QED  BY <1>5 DEF Flattening

(* FlattenSeq puts the elements of s one behind the other: f[i] is what the *)
(* first i of them come to.                                                 *)
LEMMA FlattenSteps ==
    ASSUME NEW S, NEW s \in Seq(Seq(S)), s # <<>>
    PROVE  \E f \in [1..Len(s) -> Seq(S)] :
              /\ f[1] = s[1]
              /\ \A i \in 1..(Len(s) - 1) : f[i + 1] = f[i] \o s[i + 1]
              /\ FlattenSeq(s) = f[Len(s)]
<1> DEFINE f == CHOOSE f : f = [i \in 1..Len(s) |-> IF i = 1 THEN s[i] ELSE f[i - 1] \o s[i]]
           n == Len(s)
<1>1. Flattening(s, f)  BY FlatteningExists DEF Flattening
<1>2. FlattenSeq(s) = f[n]  BY DEF FlattenSeq
<1>3. n \in Nat /\ n # 0 /\ \A i \in 1..n : s[i] \in Seq(S)  OBVIOUS
<1> HIDE DEF f, n
<1>4. f = [i \in 1..n |-> IF i = 1 THEN s[i] ELSE f[i - 1] \o s[i]]
  BY <1>1 DEF Flattening, n
<1>5. f[1] = s[1] /\ DOMAIN f = 1..n  BY <1>3, <1>4
<1>6. \A i \in 1..(n - 1) : f[i + 1] = f[i] \o s[i + 1]
  <2> TAKE i \in 1..(n - 1)
  <2>1. i + 1 \in 1..n /\ i + 1 # 1 /\ (i + 1) - 1 = i  BY <1>3
  <2>2. f[i + 1] = f[(i + 1) - 1] \o s[i + 1]  BY <1>4, <2>1
  <2> QED  BY <2>1, <2>2
<1>7. \A i \in 1..n : f[i] \in Seq(S)
  <2> DEFINE P == {m \in Nat : m + 1 \in 1..n => f[m + 1] \in Seq(S)}
  <2>1. 0 \in P  BY <1>3, <1>5
  <2>2. ASSUME NEW m \in P  PROVE m + 1 \in P
    <3>1. CASE m + 2 \in 1..n
      <4>1. m \in Nat /\ m + 1 \in 1..(n - 1) /\ m + 1 \in 1..n /\ (m + 1) + 1 = m + 2
        BY <1>3, <3>1
      <4>2. f[m + 2] = f[m + 1] \o s[m + 2]  BY <1>6, <4>1
      <4>3. f[m + 1] \in Seq(S) /\ s[m + 2] \in Seq(S)  BY <1>3, <3>1, <4>1
      <4>4. \A a, b \in Seq(S) : a \o b \in Seq(S)  OBVIOUS
      <4>5. f[m + 2] \in Seq(S)  BY <4>2, <4>3, <4>4
      <4> QED  BY <4>1, <4>5
    <3> QED  BY <1>3, <3>1
  <2> HIDE DEF P
  <2>3. P = Nat  BY <2>1, <2>2, NatSetInduction DEF P
  <2>4. \A i \in 1..n : i - 1 \in P /\ (i - 1) + 1 = i  BY <1>3, <2>3
  <2> QED  BY <2>4 DEF P
<1>8. f \in [1..n -> Seq(S)]  BY <1>4, <1>7
<1> QED  BY <1>2, <1>5, <1>6, <1>8 DEF n

(* Where the elements of s are in FlattenSeq(s): those of the m-th behind   *)
(* the first g[m - 1], which are those of the elements before it.           *)
LEMMA FlattenPlaces ==
    ASSUME NEW S, NEW s \in Seq(Seq(S)), s # <<>>
    PROVE  /\ FlattenSeq(s) \in Seq(S)
           /\ \E g \in [0..Len(s) -> Nat] :
                 /\ g[0] = 0 /\ g[Len(s)] = Len(FlattenSeq(s))
                 /\ \A m \in 1..Len(s) :
                       /\ g[m] = g[m - 1] + Len(s[m])
                       /\ \A j \in 1..Len(s[m]) : FlattenSeq(s)[g[m - 1] + j] = s[m][j]
<1>1. PICK f \in [1..Len(s) -> Seq(S)] :
         /\ f[1] = s[1]
         /\ \A i \in 1..(Len(s) - 1) : f[i + 1] = f[i] \o s[i + 1]
         /\ FlattenSeq(s) = f[Len(s)]
  BY FlattenSteps
<1> DEFINE n == Len(s)
           g == [m \in 0..n |-> IF m = 0 THEN 0 ELSE Len(f[m])]
<1>2. n \in Nat /\ n # 0 /\ (\A m \in 1..n : s[m] \in Seq(S) /\ Len(s[m]) \in Nat)  OBVIOUS
<1>3. \A m \in 1..n : f[m] \in Seq(S) /\ Len(f[m]) \in Nat
  <2>1. \A a \in Seq(S) : Len(a) \in Nat  OBVIOUS
  <2>2. \A m \in 1..n : f[m] \in Seq(S)  BY <1>1
  <2> QED  BY <2>1, <2>2
<1>f. FlattenSeq(s) = f[n]  BY <1>1
<1>s. f[1] = s[1] /\ \A i \in 1..(n - 1) : f[i + 1] = f[i] \o s[i + 1]  BY <1>1
<1> HIDE DEF n
<1>4. /\ g \in [0..n -> Nat] /\ g[0] = 0
      /\ \A m \in 1..n : g[m] = Len(f[m])
  BY <1>2, <1>3
<1> HIDE DEF g
<1>5. \A a, b \in Seq(S) : /\ Len(a \o b) = Len(a) + Len(b)
                           /\ \A j \in 1..Len(a) : (a \o b)[j] = a[j]
                           /\ \A j \in 1..Len(b) : (a \o b)[Len(a) + j] = b[j]
  OBVIOUS
<1>6. \A m \in 1..(n - 1) : /\ m \in 1..n /\ m + 1 \in 1..n /\ m + 1 \in 0..n
                            /\ f[m + 1] = f[m] \o s[m + 1]
                            /\ Len(f[m + 1]) = Len(f[m]) + Len(s[m + 1])
                            /\ \A j \in 1..Len(f[m]) : f[m + 1][j] = f[m][j]
                            /\ \A j \in 1..Len(s[m + 1]) : f[m + 1][Len(f[m]) + j] = s[m + 1][j]
  <2> TAKE m \in 1..(n - 1)
  <2>1. m \in 1..n /\ m + 1 \in 1..n /\ m + 1 \in 0..n  BY <1>2
  <2>2. f[m + 1] = f[m] \o s[m + 1]  BY <1>s
  <2>3. PICK a \in Seq(S), b \in Seq(S) : a = f[m] /\ b = s[m + 1]  BY <1>2, <1>3, <2>1
  <2>4. f[m + 1] = a \o b  BY <2>2, <2>3
  <2>5. /\ Len(f[m + 1]) = Len(a) + Len(b)
        /\ \A j \in 1..Len(a) : f[m + 1][j] = a[j]
        /\ \A j \in 1..Len(b) : f[m + 1][Len(a) + j] = b[j]
    BY <1>5, <2>4
  <2> QED  BY <2>1, <2>2, <2>3, <2>5
<1>7. \A m \in 1..n : /\ g[m] = g[m - 1] + Len(s[m])
                      /\ \A j \in 1..Len(s[m]) : f[m][g[m - 1] + j] = s[m][j]
  <2> TAKE m \in 1..n
  <2>1. CASE m = 1
    <3>1. m - 1 = 0  BY <2>1
    <3>2. g[1] = Len(s[1]) /\ Len(s[1]) \in Nat /\ f[1] = s[1]  BY <1>2, <1>4, <1>s
    <3> QED  BY <1>4, <2>1, <3>1, <3>2
  <2>2. CASE m # 1
    <3>1. m - 1 \in 1..(n - 1) /\ m - 1 \in 1..n /\ (m - 1) + 1 = m  BY <1>2, <2>2
    <3>2. g[m - 1] = Len(f[m - 1]) /\ g[m] = Len(f[m])  BY <1>4, <3>1
    <3> QED  BY ZenonT(60), <1>6, <3>1, <3>2
  <2> QED  BY <2>1, <2>2
<1> DEFINE before(m, q) == /\ Len(f[m]) <= Len(f[q])
                           /\ \A j \in 1..Len(f[m]) : f[q][j] = f[m][j]
           P == {q \in Nat : q + 1 \in 1..n => \A m \in 1..(q + 1) : before(m, q + 1)}
<1>8. P = Nat
  <2>1. 0 \in P
    <3>1. \A m \in 1..(0 + 1) : m = 0 + 1  OBVIOUS
    <3>2. 0 + 1 \in 1..n  BY <1>2
    <3> QED  BY <1>3, <3>1, <3>2
  <2>2. ASSUME NEW q \in P  PROVE q + 1 \in P
    <3>q. q \in Nat  OBVIOUS
    <3>1. CASE (q + 1) + 1 \in 1..n
      <4>1. q + 1 \in 1..(n - 1) /\ q + 1 \in 1..n  BY <1>2, <3>q, <3>1
      <4>2. \A m \in 1..(q + 1) : before(m, q + 1)  BY <4>1
      <4>3. before(q + 1, (q + 1) + 1)
        <5>1. Len(f[(q + 1) + 1]) = Len(f[q + 1]) + Len(s[(q + 1) + 1])  BY <1>6, <4>1
        <5>2. /\ Len(f[q + 1]) \in Nat /\ Len(s[(q + 1) + 1]) \in Nat
          BY <1>2, <1>3, <3>1, <4>1
        <5>3. Len(f[q + 1]) <= Len(f[(q + 1) + 1])
          <6>1. PICK x \in Nat, y \in Nat : x = Len(f[q + 1]) /\ y = Len(s[(q + 1) + 1])
            BY <5>2
          <6>2. Len(f[(q + 1) + 1]) = x + y  BY <5>1, <6>1
          <6>3. x <= x + y  OBVIOUS
          <6> QED  BY <6>1, <6>2, <6>3
        <5> QED  BY <1>6, <4>1, <5>3
      <4>4. ASSUME NEW m \in 1..((q + 1) + 1)  PROVE before(m, (q + 1) + 1)
        <5>1. CASE m = (q + 1) + 1
          BY <1>3, <3>1, <5>1
        <5>2. CASE m \in 1..(q + 1)
          <6>1. m \in 1..n /\ Len(f[m]) \in Nat /\ Len(f[q + 1]) \in Nat
                /\ Len(f[(q + 1) + 1]) \in Nat
            BY <1>2, <1>3, <3>1, <4>1, <5>2
          <6>2. before(m, q + 1)  BY <4>2, <5>2
          <6>3. \A j \in 1..Len(f[m]) : j \in 1..Len(f[q + 1])  BY <6>1, <6>2
          <6>4. Len(f[m]) <= Len(f[(q + 1) + 1])  BY <4>3, <6>1, <6>2
          <6> QED  BY <4>3, <6>2, <6>3, <6>4
        <5>3. m = (q + 1) + 1 \/ m \in 1..(q + 1)  BY <3>q
        <5> HIDE DEF before
        <5> QED  BY <5>1, <5>2, <5>3
      <4> HIDE DEF before
      <4> QED  BY <3>q, <4>4
    <3>2. CASE ~((q + 1) + 1 \in 1..n)
      BY <3>q, <3>2
    <3> QED  BY <3>1, <3>2
  <2> HIDE DEF P
  <2> QED  BY <2>1, <2>2, NatSetInduction DEF P
<1>9. \A m \in 1..n : before(m, n)
  <2> HIDE DEF before, P
  <2>1. n - 1 \in P /\ (n - 1) + 1 = n /\ n \in 1..n  BY <1>2, <1>8
  <2> QED  BY <2>1 DEF P
<1>10. \A m \in 1..n : \A j \in 1..Len(s[m]) : f[n][g[m - 1] + j] = s[m][j]
  <2> TAKE m \in 1..n
  <2> TAKE j \in 1..Len(s[m])
  <2>1. m - 1 \in 0..n /\ g[m - 1] \in Nat /\ Len(s[m]) \in Nat  BY <1>2, <1>4
  <2>2. Len(f[m]) = g[m - 1] + Len(s[m])  BY <1>4, <1>7
  <2>3. g[m - 1] + j \in 1..Len(f[m])  BY <2>1, <2>2
  <2>4. f[n][g[m - 1] + j] = f[m][g[m - 1] + j]  BY <1>9, <2>3
  <2>5. f[m][g[m - 1] + j] = s[m][j]  BY <1>7
  <2> QED  BY <2>4, <2>5
<1>11. g[n] = Len(f[n]) /\ f[n] \in Seq(S)  BY <1>2, <1>3, <1>4
<1> HIDE DEF P, before
<1>12. /\ FlattenSeq(s) \in Seq(S) /\ g[n] = Len(FlattenSeq(s))
       /\ \A m \in 1..n : /\ g[m] = g[m - 1] + Len(s[m])
                          /\ \A j \in 1..Len(s[m]) : FlattenSeq(s)[g[m - 1] + j] = s[m][j]
  BY <1>f, <1>7, <1>10, <1>11
<1> QED  BY <1>4, <1>12 DEF n

-----------------------------------------------------------------------------
(* SumFunction *)

(* The function behind SumFunctionOnSet(f, D), which sums f over each       *)
(* subset of its domain; the order is that of CHOOSE.                       *)
Picked(s) == CHOOSE x \in s : TRUE
Summing(f, D, g) ==
    g = [s \in SUBSET D |-> IF s = {} THEN 0 ELSE f[Picked(s)] + g[s \ {Picked(s)}]]

LEMMA SummingExists ==
    ASSUME NEW D, IsFiniteSet(D), NEW f
    PROVE  \E g : Summing(f, D, g)
<1> DEFINE small(m) == {s \in SUBSET D : Cardinality(s) <= m}
           upTo(m, g) == g = [s \in small(m) |->
                                IF s = {} THEN 0 ELSE f[Picked(s)] + g[s \ {Picked(s)}]]
           P == {m \in Nat : \E g : upTo(m, g)}
<1>s. \A s \in SUBSET D : IsFiniteSet(s) /\ Cardinality(s) \in Nat
                         /\ Cardinality(s) <= Cardinality(D)
                         /\ (Cardinality(s) = 0 <=> s = {})
  BY FS_Subset, FS_CardinalityType, FS_EmptySet
<1>n. \A s \in SUBSET D : s # {} =>
         /\ Picked(s) \in s /\ s \ {Picked(s)} \in SUBSET D
         /\ Cardinality(s \ {Picked(s)}) = Cardinality(s) - 1
  BY <1>s, FS_RemoveElement DEF Picked
<1>1. 0 \in P
  <2>1. \A s \in small(0) : s = {}  BY <1>s
  <2>2. upTo(0, [s \in small(0) |-> 0])
    <3> DEFINE g == [s \in small(0) |-> 0]
    <3>1. \A s \in small(0) : g[s] = IF s = {} THEN 0 ELSE f[Picked(s)] + g[s \ {Picked(s)}]
      BY <2>1
    <3> HIDE DEF small
    <3> QED  BY <3>1
  <2> HIDE DEF upTo
  <2> QED  BY <2>2
<1>2. ASSUME NEW m \in P  PROVE m + 1 \in P
  <2>1. PICK g : upTo(m, g)  BY <1>2
  <2>2. m \in Nat  OBVIOUS
  <2> DEFINE h == [s \in small(m + 1) |->
                     IF s \in small(m) THEN g[s] ELSE f[Picked(s)] + g[s \ {Picked(s)}]]
  <2>3. \A s \in small(m + 1) : s # {} => s \ {Picked(s)} \in small(m)
    BY <1>s, <1>n, <2>2
  <2>4. \A s \in small(m) : s \in small(m + 1)  BY <1>s, <2>2
  <2>5. {} \in small(m)  BY <1>s, <2>2
  <2> HIDE DEF small
  <2>6. \A s \in small(m) : g[s] = IF s = {} THEN 0 ELSE f[Picked(s)] + g[s \ {Picked(s)}]
    BY <2>1
  <2>7. \A s \in small(m) : h[s] = g[s]  BY <2>4
  <2>8. \A s \in small(m + 1) : s \notin small(m) => h[s] = f[Picked(s)] + g[s \ {Picked(s)}]
    OBVIOUS
  <2> HIDE DEF h
  <2>9. \A s \in small(m + 1) : h[s] = IF s = {} THEN 0 ELSE f[Picked(s)] + h[s \ {Picked(s)}]
    BY <2>3, <2>5, <2>6, <2>7, <2>8
  <2>10. h = [s \in small(m + 1) |-> h[s]]  BY DEF h
  <2>11. upTo(m + 1, h)  BY <2>9, <2>10
  <2> HIDE DEF upTo
  <2> QED  BY <2>2, <2>11
<1> HIDE DEF P
<1>3. P = Nat  BY <1>1, <1>2, NatSetInduction DEF P
<1>4. Cardinality(D) \in P  BY <1>3, FS_CardinalityType
<1>5. \E g : upTo(Cardinality(D), g)
  <2> HIDE DEF upTo
  <2> QED  BY <1>4 DEF P
<1>6. small(Cardinality(D)) = SUBSET D  BY <1>s
<1> HIDE DEF small
<1> QED  BY <1>5, <1>6 DEF Summing

LEMMA SumUnfolds ==
    ASSUME NEW D, IsFiniteSet(D), NEW f, DOMAIN f = D
    PROVE  \E g : Summing(f, D, g) /\ SumFunction(f) = g[D]
<1> DEFINE g == CHOOSE g : g = [s \in SUBSET D |->
                   IF s = {} THEN 0 ELSE f[Picked(s)] + g[s \ {Picked(s)}]]
<1>1. Summing(f, D, g)
  <2>1. \E h : Summing(f, D, h)  BY SummingExists
  <2> QED  BY <2>1 DEF Summing
<1>2. SumFunction(f) = g[D]
  BY DEF SumFunction, SumFunctionOnSet, FoldFunctionOnSet, MapThenFoldSet, Picked
<1> HIDE DEF g
<1> QED  BY <1>1, <1>2

(* SumFunction adds up f, in any order: g[s] is the sum over s.             *)
Sums(f, D, g) ==
    /\ g \in [SUBSET D -> Int] /\ g[{}] = 0
    /\ \A s \in SUBSET D : \A x \in s : g[s] = f[x] + g[s \ {x}]

LEMMA SumSteps ==
    ASSUME NEW D, IsFiniteSet(D), NEW f \in [D -> Int]
    PROVE  \E g : Sums(f, D, g) /\ SumFunction(f) = g[D]
<1>1. PICK g : Summing(f, D, g) /\ SumFunction(f) = g[D]  BY SumUnfolds
<1>s. \A s \in SUBSET D : /\ IsFiniteSet(s) /\ Cardinality(s) \in Nat
                         /\ (Cardinality(s) = 0 <=> s = {})
                         /\ \A x \in s : Cardinality(s \ {x}) = Cardinality(s) - 1
                                         /\ s \ {x} \in SUBSET D
  BY FS_Subset, FS_CardinalityType, FS_EmptySet, FS_RemoveElement
<1>2. /\ DOMAIN g = SUBSET D /\ g[{}] = 0
      /\ \A s \in SUBSET D : s # {} => g[s] = f[Picked(s)] + g[s \ {Picked(s)}]
  BY <1>1 DEF Summing
<1>3. \A s \in SUBSET D : s # {} => Picked(s) \in s  BY DEF Picked
<1> DEFINE ints == {n \in Nat : \A s \in SUBSET D : Cardinality(s) = n => g[s] \in Int}
<1>4. ints = Nat
  <2>1. 0 \in ints
    <3>1. \A s \in SUBSET D : Cardinality(s) = 0 => g[s] = 0  BY <1>s, <1>2
    <3> QED  BY <3>1
  <2>2. ASSUME NEW n \in ints  PROVE n + 1 \in ints
    <3>1. ASSUME NEW s \in SUBSET D, Cardinality(s) = n + 1  PROVE g[s] \in Int
      <4>1. s # {} /\ Picked(s) \in s  BY <1>s, <1>3, <3>1
      <4>2. Cardinality(s \ {Picked(s)}) = n /\ s \ {Picked(s)} \in SUBSET D  BY <1>s, <3>1, <4>1
      <4>3. f[Picked(s)] \in Int /\ g[s \ {Picked(s)}] \in Int  BY <4>1, <4>2
      <4> QED  BY <1>2, <4>1, <4>3
    <3> QED  BY <3>1
  <2> HIDE DEF ints
  <2> QED  BY <2>1, <2>2, NatSetInduction DEF ints
<1>5. \A s \in SUBSET D : g[s] \in Int  BY <1>s, <1>4
<1> HIDE DEF ints
<1> DEFINE any(s) == \A x \in s : g[s] = f[x] + g[s \ {x}]
           P == {n \in Nat : \A s \in SUBSET D : Cardinality(s) = n => any(s)}
<1>6. 0 \in P
  <2>1. \A s \in SUBSET D : Cardinality(s) = 0 => any(s)  BY <1>s
  <2> QED  BY <2>1
<1>7. ASSUME NEW n \in P  PROVE n + 1 \in P
  <2>1. ASSUME NEW s \in SUBSET D, Cardinality(s) = n + 1  PROVE any(s)
    <3> DEFINE c == Picked(s)
    <3>1. s # {} /\ c \in s  BY <1>s, <1>3, <2>1
    <3>2. \A x \in s : any(s \ {x})
      <4> TAKE x \in s
      <4>1. Cardinality(s \ {x}) = n /\ s \ {x} \in SUBSET D  BY <1>s, <2>1
      <4> HIDE DEF any
      <4> QED  BY <1>7, <4>1
    <3>3. g[s] = f[c] + g[s \ {c}]  BY <1>2, <3>1
    <3> HIDE DEF c
    <3>4. ASSUME NEW x \in s, x # c  PROVE g[s] = f[x] + g[s \ {x}]
      <4>1. (s \ {c}) \ {x} = (s \ {x}) \ {c}  OBVIOUS
      <4>2. g[s \ {c}] = f[x] + g[(s \ {c}) \ {x}]  BY <3>1, <3>2, <3>4
      <4>3. g[s \ {x}] = f[c] + g[(s \ {x}) \ {c}]  BY <3>1, <3>2, <3>4
      <4>4. /\ g[(s \ {c}) \ {x}] \in Int /\ f[x] \in Int /\ f[c] \in Int
            /\ g[s] \in Int /\ g[s \ {x}] \in Int /\ g[s \ {c}] \in Int
        BY <1>5, <3>1
      <4>5. g[s \ {x}] = f[c] + g[(s \ {c}) \ {x}]  BY <4>1, <4>3
      <4>6. PICK z \in Int : z = g[(s \ {c}) \ {x}]  BY <4>4
      <4>7. g[s \ {c}] = f[x] + z /\ g[s \ {x}] = f[c] + z  BY <4>2, <4>5, <4>6
      <4> QED  BY <3>3, <4>4, <4>7
    <3> QED  BY <3>3, <3>4
  <2> HIDE DEF any
  <2> QED  BY <2>1
<1> HIDE DEF P
<1>8. P = Nat  BY <1>6, <1>7, NatSetInduction DEF P
<1>9. \A s \in SUBSET D : any(s)
  <2> HIDE DEF any
  <2> QED  BY <1>s, <1>8 DEF P
<1>10. g \in [SUBSET D -> Int]  BY <1>1, <1>5 DEF Summing
<1> QED  BY <1>1, <1>2, <1>9, <1>10 DEF Sums

(* One element more.                                                        *)
LEMMA SumsAdd ==
    ASSUME NEW D, NEW f, NEW g, Sums(f, D, g), NEW s \in SUBSET D, NEW x \in D \ s
    PROVE  g[s \cup {x}] = f[x] + g[s] /\ g[s] \in Int
<1>1. PICK t \in SUBSET D : t = s \cup {x}  OBVIOUS
<1>2. x \in t /\ t \ {x} = s  BY <1>1
<1>3. g[t] = f[x] + g[t \ {x}]  BY <1>2 DEF Sums
<1> QED  BY <1>1, <1>2, <1>3 DEF Sums

(* A sum whose terms are all larger by c.                                   *)
LEMMA SumShift ==
    ASSUME NEW D, IsFiniteSet(D), NEW f \in [D -> Int], NEW h \in [D -> Int], NEW c \in Int,
           \A x \in D : h[x] = c + f[x]
    PROVE  /\ SumFunction(h) = c * Cardinality(D) + SumFunction(f)
           /\ SumFunction(f) \in Int /\ Cardinality(D) \in Nat
<1>1. PICK p : Sums(f, D, p) /\ SumFunction(f) = p[D]
  BY SumSteps
<1>2. PICK q : Sums(h, D, q) /\ SumFunction(h) = q[D]
  BY SumSteps
<1> DEFINE Q == {s \in SUBSET D : q[s] = c * Cardinality(s) + p[s]}
<1>3. {} \in Q  BY <1>1, <1>2, FS_EmptySet DEF Sums
<1>4. ASSUME NEW s \in Q, NEW x \in D \ s  PROVE s \cup {x} \in Q
  <2>1. (s \cup {x}) \ {x} = s /\ s \cup {x} \in SUBSET D  OBVIOUS
  <2>2. q[s \cup {x}] = h[x] + q[s] /\ p[s \cup {x}] = f[x] + p[s]  BY <1>1, <1>2, SumsAdd
  <2>3. Cardinality(s \cup {x}) = Cardinality(s) + 1 /\ Cardinality(s) \in Nat
    BY FS_AddElement, FS_Subset, FS_CardinalityType
  <2>4. PICK k \in Nat : k = Cardinality(s)  BY <2>3
  <2>5. c * (k + 1) = c * k + c  BY <2>4
  <2>6. /\ q[s] = c * k + p[s] /\ h[x] = c + f[x] /\ p[s] \in Int /\ f[x] \in Int
        /\ c * k \in Int
    BY <1>1, <2>4 DEF Sums
  <2>7. q[s \cup {x}] = c * (k + 1) + p[s \cup {x}]  BY <2>2, <2>5, <2>6
  <2> QED  BY <2>1, <2>3, <2>4, <2>7
<1>q. Q \in SUBSET (SUBSET D)  OBVIOUS
<1> HIDE DEF Q
<1>5. Q = SUBSET D  BY <1>q, <1>3, <1>4, SubsetInduction
<1>6. D \in Q  BY <1>5
<1>7. Cardinality(D) \in Nat  BY FS_CardinalityType
<1> QED  BY <1>1, <1>2, <1>6, <1>7 DEF Q, Sums

(* A sum of ones, but for one zero.                                         *)
LEMMA SumButOne ==
    ASSUME NEW D, IsFiniteSet(D), NEW h \in [D -> Int], NEW z \in D,
           \A x \in D : h[x] = IF x = z THEN 0 ELSE 1
    PROVE  SumFunction(h) = Cardinality(D) - 1
<1>1. PICK q : Sums(h, D, q) /\ SumFunction(h) = q[D]
  BY SumSteps
<1> DEFINE Q == {s \in SUBSET D : q[s] = IF z \in s THEN Cardinality(s) - 1 ELSE Cardinality(s)}
<1>2. {} \in Q  BY <1>1, FS_EmptySet DEF Sums
<1>3. ASSUME NEW s \in Q, NEW x \in D \ s  PROVE s \cup {x} \in Q
  <2>1. (s \cup {x}) \ {x} = s /\ s \cup {x} \in SUBSET D  OBVIOUS
  <2>2. q[s \cup {x}] = h[x] + q[s]  BY <1>1, SumsAdd
  <2>3. Cardinality(s \cup {x}) = Cardinality(s) + 1 /\ Cardinality(s) \in Nat
    BY FS_AddElement, FS_Subset, FS_CardinalityType
  <2> QED  BY <2>1, <2>2, <2>3
<1>q. Q \in SUBSET (SUBSET D)  OBVIOUS
<1> HIDE DEF Q
<1>4. Q = SUBSET D  BY <1>q, <1>2, <1>3, SubsetInduction
<1>5. D \in Q  BY <1>4
<1> QED  BY <1>1, <1>5 DEF Q
(* A sum of naturals is one.                                                *)
LEMMA SumNat ==
    ASSUME NEW D, IsFiniteSet(D), NEW f \in [D -> Nat]
    PROVE  SumFunction(f) \in Nat
<1>0. f \in [D -> Int]  OBVIOUS
<1>1. PICK q : Sums(f, D, q) /\ SumFunction(f) = q[D]
  BY <1>0, SumSteps
<1> DEFINE Q == {s \in SUBSET D : q[s] \in Nat}
<1>2. {} \in Q  BY <1>1 DEF Sums
<1>3. ASSUME NEW s \in Q, NEW x \in D \ s  PROVE s \cup {x} \in Q
  <2>1. q[s \cup {x}] = f[x] + q[s]  BY <1>1, SumsAdd
  <2>2. f[x] \in Nat /\ q[s] \in Nat /\ s \cup {x} \in SUBSET D  OBVIOUS
  <2> QED  BY <2>1, <2>2
<1>q. Q \in SUBSET (SUBSET D)  OBVIOUS
<1> HIDE DEF Q
<1>4. Q = SUBSET D  BY <1>q, <1>2, <1>3, SubsetInduction
<1>5. D \in Q  BY <1>4
<1> QED  BY <1>1, <1>5 DEF Q

(* The sum of a sequence, one term after the other.                         *)
LEMMA SumInterval ==
    ASSUME NEW n \in Nat, NEW f \in [1..n -> Int]
    PROVE  \E g : /\ g[0] = 0 /\ SumFunction(f) = g[n]
                  /\ \A i \in 1..n : g[i] = f[i] + g[i - 1]
<1>0. IsFiniteSet(1..n)  BY FS_Interval
<1>1. PICK q : Sums(f, 1..n, q) /\ SumFunction(f) = q[1..n]
  BY <1>0, SumSteps
<1> DEFINE g == [i \in 0..n |-> q[1..i]]
<1>2. g[0] = 0 /\ g[n] = q[1..n]
  <2>1. 1..0 = {} /\ 0 \in 0..n /\ n \in 0..n  OBVIOUS
  <2>2. q[{}] = 0  BY <1>1 DEF Sums
  <2> QED  BY <2>1, <2>2
<1>3. ASSUME NEW i \in 1..n  PROVE g[i] = f[i] + g[i - 1]
  <2>1. (1..i) \ {i} = 1..(i - 1) /\ i \in 1..i /\ 1..i \in SUBSET (1..n)
    OBVIOUS
  <2>2. q[1..i] = f[i] + q[(1..i) \ {i}]  BY <1>1, <2>1 DEF Sums
  <2>3. i \in 0..n /\ i - 1 \in 0..n  OBVIOUS
  <2> QED  BY <2>1, <2>2, <2>3
<1> HIDE DEF g
<1> QED  BY <1>1, <1>2, <1>3
=============================================================================
