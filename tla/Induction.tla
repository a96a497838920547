------------------------------- MODULE Induction -------------------------------
(***************************************************************************)
(* Induction in a form the provers can use: over a set that is given, not  *)
(* over a property that is a parameter.  And what it gives about the sums  *)
(* of module Sums.                                                         *)
(***************************************************************************)
EXTENDS Integers, Sums, FiniteSetTheorems, WellFoundedInduction, TLAPS

\* Every non-empty set of natural numbers has a least element.
LEMMA WellOrdered ==
  ASSUME NEW T, T \subseteq Nat, T # {}
  PROVE  \E x \in T : \A y \in T : x <= y
<1>1. PICK x \in T : \A y \in T : ~ (<<y, x>> \in OpToRel(<, Nat))
  BY NatLessThanWellFounded, WFMin, Zenon
<1>2. ASSUME NEW y \in T PROVE x <= y
  <2>1. x \in Nat /\ y \in Nat
    OBVIOUS
  <2>2. y < x => <<y, x>> \in OpToRel(<, Nat)
    BY <2>1, Zenon DEF OpToRel
  <2>3. ~(y < x)
    BY <1>1, <2>2, Zenon
  <2> QED
    BY <2>1, <2>3
<1> QED
  BY <1>2

\* A set that holds 0 and the successor of each of its numbers holds them all.
LEMMA SetInduction ==
  ASSUME NEW S, 0 \in S, \A n \in Nat : n \in S => n + 1 \in S
  PROVE  Nat \subseteq S
<1> SUFFICES ASSUME ~(Nat \subseteq S) PROVE FALSE
  OBVIOUS
<1> DEFINE T == Nat \ S
<1>1. PICK x \in T : \A y \in T : x <= y
  <2> T \subseteq Nat /\ T # {}
    OBVIOUS
  <2> QED
    BY WellOrdered
<1>2. x # 0 /\ x \in Nat
  OBVIOUS
<1>3. x - 1 \in Nat /\ ~(x <= x - 1) /\ (x - 1) + 1 = x
  BY <1>2
<1>4. x - 1 \in S
  BY <1>1, <1>3
<1> QED
  BY <1>3, <1>4

-----------------------------------------------------------------------------
(* Sums over a finite set.                                                 *)

First(s) == CHOOSE x \in s : TRUE

\* g gives the sum over every set in D, element by element.
Adds(g, f, D) ==
  g = [s \in D |-> IF s = {} THEN 0 ELSE f[First(s)] + g[s \ {First(s)}]]

\* f has integers on S; f and e have the same values on S.
Integral(f, S) == \A x \in S : f[x] \in Int
Agree(f, e, S) == \A x \in S : f[x] = e[x]

\* S has the part R, and f and e the same values on it.
SamePart(f, S, e, R) == R \in SUBSET S /\ Agree(f, e, R)

\* g gives the subsets of S integers, to which any element adds its value.
SumsUp(g, f, S) ==
  /\ g[{}] = 0
  /\ \A s \in SUBSET S : /\ g[s] \in Int
                        /\ \A x \in s : g[s] = f[x] + g[s \ {x}]

\* The subsets of a finite set that have at most n elements.
Small(S, n) == {s \in SUBSET S : Cardinality(s) <= n}

\* A set without one of its elements is smaller by one.
LEMMA OneLess ==
  ASSUME NEW S, IsFiniteSet(S), NEW s \in SUBSET S, NEW x \in s
  PROVE  /\ s \ {x} \in SUBSET S
         /\ Cardinality(s) \in Nat /\ Cardinality(s \ {x}) \in Nat
         /\ Cardinality(s) = Cardinality(s \ {x}) + 1
<1>1. IsFiniteSet(s) /\ IsFiniteSet(s \ {x})
  BY FS_Subset, s \ {x} \in SUBSET S
<1>2. Cardinality(s) \in Nat /\ Cardinality(s \ {x}) \in Nat
  BY <1>1, FS_CardinalityType
<1>3. Cardinality(s \ {x}) = Cardinality(s) - 1
  BY <1>1, FS_RemoveElement
<1> QED
  BY <1>2, <1>3

LEMMA FirstIn ==
  ASSUME NEW s, s # {}
  PROVE  First(s) \in s
BY DEF First

\* The sums of small sets, from those of the sets that are smaller by one.
LEMMA SumsExist ==
  ASSUME NEW f, NEW S, IsFiniteSet(S), NEW n \in Nat
  PROVE  \E g : Adds(g, f, Small(S, n))
<1> DEFINE T == {m \in Nat : \E g : Adds(g, f, Small(S, m))}
<1>1. 0 \in T
  <2>1. ASSUME NEW s \in Small(S, 0) PROVE s = {}
    <3>1. s \in SUBSET S /\ Cardinality(s) <= 0 /\ IsFiniteSet(s)
      BY <2>1, FS_Subset DEF Small
    <3>2. Cardinality(s) \in Nat
      BY <3>1, FS_CardinalityType
    <3> QED
      BY <3>1, <3>2, FS_EmptySet
  <2>2. Adds([s \in Small(S, 0) |-> 0], f, Small(S, 0))
    BY <2>1 DEF Adds
  <2> QED
    BY <2>2
<1>2. ASSUME NEW m \in Nat, m \in T PROVE m + 1 \in T
  <2>1. PICK k : Adds(k, f, Small(S, m))
    BY <1>2
  <2> DEFINE h == [s \in Small(S, m + 1) |->
                     IF s = {} THEN 0 ELSE f[First(s)] + k[s \ {First(s)}]]
  <2>2. ASSUME NEW s \in Small(S, m) PROVE s \in Small(S, m + 1) /\ h[s] = k[s]
    <3>1. s \in SUBSET S /\ Cardinality(s) <= m
      BY <2>2 DEF Small
    <3>2. Cardinality(s) \in Nat
      BY <3>1, FS_Subset, FS_CardinalityType
    <3>3. s \in Small(S, m + 1)
      BY <3>1, <3>2 DEF Small
    <3>4. h[s] = IF s = {} THEN 0 ELSE f[First(s)] + k[s \ {First(s)}]
      BY <3>3
    <3>5. k[s] = IF s = {} THEN 0 ELSE f[First(s)] + k[s \ {First(s)}]
      BY <2>1, <2>2 DEF Adds
    <3> QED
      BY <3>3, <3>4, <3>5
  <2>3. ASSUME NEW s \in Small(S, m + 1), s # {} PROVE h[s \ {First(s)}] = k[s \ {First(s)}]
    <3>1. s \in SUBSET S /\ Cardinality(s) <= m + 1 /\ First(s) \in s
      BY <2>3, FirstIn DEF Small
    <3>2. s \ {First(s)} \in Small(S, m)
      BY <3>1, OneLess DEF Small
    <3> HIDE DEF h
    <3> QED
      BY <2>2, <3>2
  <2>4. ASSUME NEW s \in Small(S, m + 1)
        PROVE  h[s] = IF s = {} THEN 0 ELSE f[First(s)] + h[s \ {First(s)}]
    <3>1. h[s] = IF s = {} THEN 0 ELSE f[First(s)] + k[s \ {First(s)}]
      OBVIOUS
    <3> HIDE DEF h
    <3> QED
      BY <2>3, <3>1
  <2>5. h = [s \in Small(S, m + 1) |-> h[s]]
    OBVIOUS
  <2> HIDE DEF h
  <2>6. Adds(h, f, Small(S, m + 1))
    BY <2>4, <2>5 DEF Adds
  <2> QED
    BY <2>6
<1> HIDE DEF T
<1>3. Nat \subseteq T
  BY <1>1, <1>2, SetInduction
<1> QED
  BY <1>3 DEF T

\* SumOver is the sum that such a function gives.
LEMMA SumAdds ==
  ASSUME NEW f, NEW S, IsFiniteSet(S)
  PROVE  \E g : Adds(g, f, SUBSET S) /\ SumOver(f, S) = g[S]
<1> DEFINE D(g) == g = [s \in SUBSET S |->
                      IF s = {} THEN 0
                      ELSE f[CHOOSE x \in s : TRUE] + g[s \ {CHOOSE x \in s : TRUE}]]
           c == CHOOSE g : D(g)
<1>1. Cardinality(S) \in Nat
  BY FS_CardinalityType
<1>2. Small(S, Cardinality(S)) = SUBSET S
  BY FS_Subset DEF Small
<1>3. \E g : D(g)
  <2>1. \E g : Adds(g, f, SUBSET S)
    <3>1. \E g : Adds(g, f, Small(S, Cardinality(S)))
      BY <1>1, SumsExist
    <3> QED
      BY <3>1, <1>2
  <2> QED
    BY <2>1, Zenon DEF Adds, First
<1>4. D(c)
  BY <1>3, Zenon
<1>5. SumOver(f, S) = c[S]
  BY Zenon DEF SumOver, MapThenSumSet, MapThenFoldSet
<1> QED
  BY <1>4, <1>5, Zenon DEF Adds, First

\* In which order the elements are added does not matter.
LEMMA AddsAny ==
  ASSUME NEW f, NEW S, IsFiniteSet(S), Integral(f, S),
         NEW g, Adds(g, f, SUBSET S)
  PROVE  SumsUp(g, f, S)
<1> DEFINE Good(s) == g[s] \in Int /\ \A x \in s : g[s] = f[x] + g[s \ {x}]
           T == {n \in Nat : \A s \in SUBSET S : Cardinality(s) <= n => Good(s)}
<1>0. g[{}] = 0 /\ \A s \in SUBSET S : s # {} => g[s] = f[First(s)] + g[s \ {First(s)}]
  BY DEF Adds
<1>1. 0 \in T
  <2>1. ASSUME NEW s \in SUBSET S, Cardinality(s) <= 0 PROVE s = {}
    <3>1. IsFiniteSet(s)
      BY FS_Subset
    <3>2. Cardinality(s) \in Nat
      BY <3>1, FS_CardinalityType
    <3> QED
      BY <2>1, <3>1, <3>2, FS_EmptySet
  <2>2. Good({})
    BY <1>0
  <2> HIDE DEF Good
  <2> QED
    BY <2>1, <2>2
<1>2. ASSUME NEW n \in Nat, n \in T PROVE n + 1 \in T
  <2>0. Good({})
    BY <1>0
  <2> HIDE DEF Good
  <2> SUFFICES \A s \in SUBSET S : Cardinality(s) <= n + 1 => Good(s)
    OBVIOUS
  <2> SUFFICES ASSUME NEW s \in SUBSET S, Cardinality(s) <= n + 1, s # {} PROVE Good(s)
    BY <2>0, Zenon
  <2> USE DEF Good
  <2>1. \A y \in s : /\ s \ {y} \in SUBSET S /\ Cardinality(s \ {y}) <= n
                    /\ f[y] \in Int
    BY OneLess DEF Integral
  <2>2. \A y \in s : Good(s \ {y})
    <3> HIDE DEF Good
    <3> QED
      BY <1>2, <2>1
  <2> DEFINE c == First(s)
  <2>4. c \in s /\ g[s] = f[c] + g[s \ {c}]
    BY <1>0, FirstIn
  <2> HIDE DEF c
  <2>5. g[s] \in Int
    <3>1. f[c] \in Int /\ g[s \ {c}] \in Int
      BY <2>1, <2>2, <2>4
    <3> QED
      BY <2>4, <3>1
  <2>6. ASSUME NEW x \in s, x # c PROVE g[s] = f[x] + g[s \ {x}]
    <3>1. g[s \ {c}] = f[x] + g[(s \ {c}) \ {x}] /\ g[s \ {x}] = f[c] + g[(s \ {x}) \ {c}]
      BY <2>2, <2>4, <2>6
    <3>2. (s \ {c}) \ {x} = (s \ {x}) \ {c}
      OBVIOUS
    <3> DEFINE r == (s \ {x}) \ {c}
    <3>3. r \in SUBSET S /\ Cardinality(r) <= n
      <4>1. s \ {x} \in SUBSET S /\ c \in s \ {x} /\ Cardinality(s \ {x}) <= n
        BY <2>1, <2>4, <2>6
      <4>2. r \in SUBSET S /\ Cardinality(r) \in Nat
            /\ Cardinality(s \ {x}) = Cardinality(r) + 1
        BY <4>1, OneLess
      <4> HIDE DEF r
      <4> QED
        BY <4>1, <4>2
    <3>4. g[r] \in Int
      <4> HIDE DEF r
      <4>1. Good(r)
        <5> HIDE DEF Good
        <5> QED
          BY <1>2, <3>3
      <4> QED
        BY <4>1
    <3>5. f[x] \in Int /\ f[c] \in Int
      BY <2>1, <2>4
    <3>6. g[s \ {c}] = f[x] + g[r] /\ g[s \ {x}] = f[c] + g[r]
      BY <3>1, <3>2
    <3> HIDE DEF r
    <3> QED
      BY <2>4, <3>4, <3>5, <3>6
  <2> QED
    BY <2>4, <2>5, <2>6
<1> HIDE DEF T
<1>3. Nat \subseteq T
  BY <1>1, <1>2, SetInduction
<1>4. \A s \in SUBSET S : Good(s)
  <2>1. \A s \in SUBSET S : Cardinality(s) \in Nat
    BY FS_Subset, FS_CardinalityType
  <2> HIDE DEF Good
  <2> QED
    BY <1>3, <2>1 DEF T
<1> QED
  BY <1>0, <1>4 DEF SumsUp

\* Two such functions give a set the same sum when they add the same values.
LEMMA AddsSame ==
  ASSUME NEW f, NEW e, NEW S, IsFiniteSet(S), NEW R, SamePart(f, S, e, R)
  PROVE  \A g, h : Adds(g, f, SUBSET S) /\ Adds(h, e, SUBSET R) => g[R] = h[R]
<1> TAKE g, h
<1> HAVE Adds(g, f, SUBSET S) /\ Adds(h, e, SUBSET R)
<1> DEFINE T == {n \in Nat : \A s \in SUBSET R : Cardinality(s) <= n => g[s] = h[s]}
<1>0. /\ \A s \in SUBSET R : s \in SUBSET S
      /\ g[{}] = 0 /\ h[{}] = 0
      /\ \A s \in SUBSET S : s # {} => g[s] = f[First(s)] + g[s \ {First(s)}]
      /\ \A s \in SUBSET R : s # {} => h[s] = e[First(s)] + h[s \ {First(s)}]
  BY DEF Adds, SamePart
<1>1. 0 \in T
  <2>1. ASSUME NEW s \in SUBSET R, Cardinality(s) <= 0 PROVE s = {}
    <3>1. IsFiniteSet(s)
      BY <1>0, FS_Subset
    <3>2. Cardinality(s) \in Nat
      BY <3>1, FS_CardinalityType
    <3> QED
      BY <2>1, <3>1, <3>2, FS_EmptySet
  <2> QED
    BY <1>0, <2>1
<1>2. ASSUME NEW n \in Nat, n \in T PROVE n + 1 \in T
  <2> SUFFICES \A s \in SUBSET R : Cardinality(s) <= n + 1 => g[s] = h[s]
    OBVIOUS
  <2> SUFFICES ASSUME NEW s \in SUBSET R, Cardinality(s) <= n + 1, s # {} PROVE g[s] = h[s]
    BY <1>0, Zenon
  <2> DEFINE c == First(s)
             r == s \ {c}
  <2>1. c \in s /\ c \in R /\ f[c] = e[c]
    BY FirstIn DEF SamePart, Agree
  <2>2. g[s] = f[c] + g[r] /\ h[s] = e[c] + h[r]
    BY <1>0
  <2> HIDE DEF c
  <2>3. r \in SUBSET R /\ Cardinality(r) <= n
    BY <1>0, <2>1, OneLess
  <2>4. g[r] = h[r]
    BY <1>2, <2>3
  <2> QED
    BY <2>1, <2>2, <2>4
<1> HIDE DEF T
<1>3. Nat \subseteq T
  BY <1>1, <1>2, SetInduction
<1>4. Cardinality(R) \in Nat
  BY FS_Subset, FS_CardinalityType DEF SamePart
<1> QED
  BY <1>3, <1>4 DEF T

\* The sum over a part depends on the values on that part only.
LEMMA SumAgree ==
  ASSUME NEW f, NEW e, NEW S, IsFiniteSet(S), Agree(f, e, S)
  PROVE  SumOver(f, S) = SumOver(e, S)
<1>1. PICK g : Adds(g, f, SUBSET S) /\ SumOver(f, S) = g[S]
  BY SumAdds, Zenon
<1>2. PICK h : Adds(h, e, SUBSET S) /\ SumOver(e, S) = h[S]
  BY SumAdds, Zenon
<1>3. SamePart(f, S, e, S)
  BY DEF SamePart
<1>4. \A k, m : Adds(k, f, SUBSET S) /\ Adds(m, e, SUBSET S) => k[S] = m[S]
  BY <1>3, AddsSame
<1> QED
  BY <1>1, <1>2, <1>4

\* A sum of integers is an integer, to which each element adds its value.
LEMMA SumRemove ==
  ASSUME NEW f, NEW S, IsFiniteSet(S), Integral(f, S)
  PROVE  /\ SumOver(f, {}) = 0
         /\ SumOver(f, S) \in Int
         /\ \A x \in S : SumOver(f, S) = f[x] + SumOver(f, S \ {x})
<1>1. PICK g : Adds(g, f, SUBSET S) /\ SumOver(f, S) = g[S]
  BY SumAdds, Zenon
<1>2. SumsUp(g, f, S)
  BY <1>1, AddsAny, Zenon
<1>3. ASSUME NEW R \in SUBSET S PROVE SumOver(f, R) = g[R]
  <2>1. IsFiniteSet(R)
    BY FS_Subset
  <2>2. PICK h : Adds(h, f, SUBSET R) /\ SumOver(f, R) = h[R]
    BY <2>1, SumAdds, Zenon
  <2>3. SamePart(f, S, f, R)
    BY DEF SamePart, Agree
  <2>4. \A k, m : Adds(k, f, SUBSET S) /\ Adds(m, f, SUBSET R) => k[R] = m[R]
    BY <2>3, AddsSame
  <2> QED
    BY <1>1, <2>2, <2>4
<1> QED
  BY <1>2, <1>3 DEF SumsUp

\* When one value changes, the sum changes by as much.
LEMMA SumUpdate ==
  ASSUME NEW f, NEW e, NEW S, IsFiniteSet(S), NEW x \in S,
         \A y \in S : f[y] \in Int /\ e[y] \in Int,
         \A y \in S : y # x => e[y] = f[y]
  PROVE  SumOver(e, S) = SumOver(f, S) - f[x] + e[x]
<1> DEFINE R == S \ {x}
<1>1. IsFiniteSet(R)
  BY FS_RemoveElement
<1>2. SumOver(e, R) = SumOver(f, R)
  <2>1. Agree(e, f, R)
    BY DEF Agree
  <2> HIDE DEF R
  <2> QED
    BY <1>1, <2>1, SumAgree, Zenon
<1>3. SumOver(f, R) \in Int
  <2>1. Integral(f, R)
    BY DEF Integral
  <2> HIDE DEF R
  <2> QED
    BY <1>1, <2>1, SumRemove, Zenon
<1>4. SumOver(f, S) = f[x] + SumOver(f, R) /\ SumOver(e, S) = e[x] + SumOver(e, R)
  <2>1. Integral(f, S) /\ Integral(e, S)
    BY DEF Integral
  <2> QED
    <3>1. \A y \in S : SumOver(f, S) = f[y] + SumOver(f, S \ {y})
      BY <2>1, SumRemove, Zenon
    <3>2. \A y \in S : SumOver(e, S) = e[y] + SumOver(e, S \ {y})
      BY <2>1, SumRemove, Zenon
    <3> QED
      BY <3>1, <3>2
<1> HIDE DEF R
<1> QED
  BY <1>2, <1>3, <1>4

\* A sum of zeros is zero.
LEMMA SumZero ==
  ASSUME NEW f, NEW S, IsFiniteSet(S), \A x \in S : f[x] = 0
  PROVE  SumOver(f, S) = 0
<1>1. PICK g : Adds(g, f, SUBSET S) /\ SumOver(f, S) = g[S]
  BY SumAdds, Zenon
<1> DEFINE z == [s \in SUBSET S |-> 0]
<1>2. Adds(z, f, SUBSET S)
  <2>1. ASSUME NEW s \in SUBSET S, s # {}
        PROVE  f[First(s)] + z[s \ {First(s)}] = 0
    <3>1. First(s) \in S
      BY <2>1, FirstIn
    <3> QED
      BY <3>1
  <2>2. z = [s \in SUBSET S |-> IF s = {} THEN 0 ELSE f[First(s)] + z[s \ {First(s)}]]
    BY <2>1
  <2> HIDE DEF z
  <2> QED
    BY <2>2 DEF Adds
<1>3. z[S] = 0 /\ SamePart(f, S, f, S)
  BY DEF SamePart, Agree
<1> HIDE DEF z
<1>4. \A k, m : Adds(k, f, SUBSET S) /\ Adds(m, f, SUBSET S) => k[S] = m[S]
  BY <1>3, AddsSame
<1> QED
  BY <1>1, <1>2, <1>3, <1>4

\* A sum of natural numbers is one, and not below any of them.
LEMMA SumBounds ==
  ASSUME NEW f, NEW S, IsFiniteSet(S), \A x \in S : f[x] \in Nat
  PROVE  SumOver(f, S) \in Nat /\ \A x \in S : f[x] <= SumOver(f, S)
<1> DEFINE T == {n \in Nat : \A s \in SUBSET S : Cardinality(s) <= n => SumOver(f, s) \in Nat}
<1>0. ASSUME NEW s \in SUBSET S
      PROVE  /\ IsFiniteSet(s) /\ Cardinality(s) \in Nat
             /\ SumOver(f, {}) = 0
             /\ \A x \in s : SumOver(f, s) = f[x] + SumOver(f, s \ {x})
  <2>1. IsFiniteSet(s) /\ Cardinality(s) \in Nat
    BY FS_Subset, FS_CardinalityType
  <2>2. Integral(f, s)
    BY DEF Integral
  <2> QED
    BY <2>1, <2>2, SumRemove, Zenon
<1>1. 0 \in T
  <2>1. ASSUME NEW s \in SUBSET S, Cardinality(s) <= 0 PROVE s = {}
    BY <1>0, <2>1, FS_EmptySet
  <2>2. SumOver(f, {}) \in Nat
    BY <1>0
  <2> QED
    BY <2>1, <2>2
<1>2. ASSUME NEW n \in Nat, n \in T PROVE n + 1 \in T
  <2> SUFFICES \A s \in SUBSET S : Cardinality(s) <= n + 1 => SumOver(f, s) \in Nat
    OBVIOUS
  <2> SUFFICES ASSUME NEW s \in SUBSET S, Cardinality(s) <= n + 1 PROVE SumOver(f, s) \in Nat
    OBVIOUS
  <2>1. CASE s = {}
    BY <1>0, <2>1
  <2>2. ASSUME NEW x \in s PROVE SumOver(f, s) \in Nat
    <3>1. s \ {x} \in SUBSET S /\ Cardinality(s \ {x}) <= n
      BY OneLess
    <3>2. SumOver(f, s \ {x}) \in Nat
      BY <1>2, <3>1
    <3>3. SumOver(f, s) = f[x] + SumOver(f, s \ {x}) /\ f[x] \in Nat
      BY <1>0
    <3> QED
      BY <3>2, <3>3
  <2> QED
    BY <2>1, <2>2
<1> HIDE DEF T
<1>3. Nat \subseteq T
  BY <1>1, <1>2, SetInduction
<1>4. \A s \in SUBSET S : SumOver(f, s) \in Nat
  BY <1>0, <1>3 DEF T
<1>5. ASSUME NEW x \in S PROVE f[x] <= SumOver(f, S)
  <2>1. SumOver(f, S) = f[x] + SumOver(f, S \ {x})
    BY <1>0
  <2>2. SumOver(f, S \ {x}) \in Nat /\ f[x] \in Nat
    BY <1>4
  <2> QED
    BY <2>1, <2>2
<1> QED
  BY <1>4, <1>5

\* What bounds the elements of a sum bounds the sum.
LEMMA SumsCompare ==
  ASSUME NEW f, NEW d, NEW S, IsFiniteSet(S), NEW a \in Nat, NEW b \in Nat,
         \A x \in S : f[x] \in Nat /\ d[x] \in Nat /\ a * f[x] <= b * d[x]
  PROVE  a * SumOver(f, S) <= b * SumOver(d, S)
<1> DEFINE Good(s) == a * SumOver(f, s) <= b * SumOver(d, s)
           T == {n \in Nat : \A s \in SUBSET S : Cardinality(s) <= n => Good(s)}
<1>0. ASSUME NEW s \in SUBSET S
      PROVE  /\ IsFiniteSet(s) /\ Cardinality(s) \in Nat
             /\ SumOver(f, {}) = 0 /\ SumOver(d, {}) = 0
             /\ SumOver(f, s) \in Nat /\ SumOver(d, s) \in Nat
             /\ \A x \in s : /\ SumOver(f, s) = f[x] + SumOver(f, s \ {x})
                             /\ SumOver(d, s) = d[x] + SumOver(d, s \ {x})
  <2>1. IsFiniteSet(s) /\ Cardinality(s) \in Nat
    BY FS_Subset, FS_CardinalityType
  <2>2. Integral(f, s) /\ Integral(d, s)
    BY DEF Integral
  <2>3. SumOver(f, s) \in Nat /\ SumOver(d, s) \in Nat
    <3>1. \A x \in s : f[x] \in Nat /\ d[x] \in Nat
      OBVIOUS
    <3> QED
      BY <2>1, <3>1, SumBounds
  <2>4. SumOver(f, {}) = 0 /\ \A x \in s : SumOver(f, s) = f[x] + SumOver(f, s \ {x})
    BY <2>1, <2>2, SumRemove, Zenon
  <2>5. SumOver(d, {}) = 0 /\ \A x \in s : SumOver(d, s) = d[x] + SumOver(d, s \ {x})
    BY <2>1, <2>2, SumRemove, Zenon
  <2> QED
    BY <2>1, <2>3, <2>4, <2>5, Zenon
<1>1. 0 \in T
  <2>1. ASSUME NEW s \in SUBSET S, Cardinality(s) <= 0 PROVE s = {}
    BY <1>0, <2>1, FS_EmptySet
  <2>2. SumOver(f, {}) = 0 /\ SumOver(d, {}) = 0
    BY <1>0
  <2>3. Good({})
    BY <2>2
  <2> HIDE DEF Good
  <2> QED
    BY <2>1, <2>3
<1>2. ASSUME NEW n \in Nat, n \in T PROVE n + 1 \in T
  <2> SUFFICES \A s \in SUBSET S : Cardinality(s) <= n + 1 => Good(s)
    OBVIOUS
  <2> SUFFICES ASSUME NEW s \in SUBSET S, Cardinality(s) <= n + 1 PROVE Good(s)
    OBVIOUS
  <2>1. CASE s = {}
    <3>1. SumOver(f, s) = 0 /\ SumOver(d, s) = 0
      BY <1>0, <2>1
    <3> QED
      BY <3>1
  <2>2. ASSUME NEW x \in s PROVE Good(s)
    <3> DEFINE r == s \ {x}
    <3>1. r \in SUBSET S /\ Cardinality(r) <= n
      BY OneLess
    <3>2. Good(r)
      <4> HIDE DEF Good, r
      <4> QED
        BY <1>2, <3>1
    <3>3. SumOver(f, s) = f[x] + SumOver(f, r) /\ SumOver(d, s) = d[x] + SumOver(d, r)
      BY <1>0
    <3>4. SumOver(f, r) \in Nat /\ SumOver(d, r) \in Nat
      BY <1>0, <3>1
    <3> HIDE DEF r
    <3>5. f[x] \in Nat /\ d[x] \in Nat /\ a * f[x] <= b * d[x]
      OBVIOUS
    <3>6. /\ a * SumOver(f, s) = a * f[x] + a * SumOver(f, r)
          /\ b * SumOver(d, s) = b * d[x] + b * SumOver(d, r)
      BY <3>3, <3>4, <3>5
    <3>7. /\ a * f[x] \in Nat /\ a * SumOver(f, r) \in Nat
          /\ b * d[x] \in Nat /\ b * SumOver(d, r) \in Nat
      BY <3>4, <3>5
    <3> QED
      BY <3>2, <3>5, <3>6, <3>7
  <2> QED
    BY <2>1, <2>2
<1> HIDE DEF T
<1>3. Nat \subseteq T
  BY <1>1, <1>2, SetInduction
<1>4. Cardinality(S) \in Nat
  BY FS_CardinalityType
<1> QED
  BY <1>3, <1>4 DEF T

\* The sum over a set is that over a part and that over the rest.
LEMMA SumSplit ==
  ASSUME NEW f, NEW S, IsFiniteSet(S), Integral(f, S)
  PROVE  \A R \in SUBSET S : SumOver(f, S) = SumOver(f, R) + SumOver(f, S \ R)
<1> DEFINE Good(R) == SumOver(f, S) = SumOver(f, R) + SumOver(f, S \ R)
           T == {n \in Nat : \A R \in SUBSET S : Cardinality(R) <= n => Good(R)}
<1>0. ASSUME NEW s \in SUBSET S
      PROVE  /\ IsFiniteSet(s) /\ Cardinality(s) \in Nat
             /\ SumOver(f, {}) = 0 /\ SumOver(f, s) \in Int
             /\ \A x \in s : SumOver(f, s) = f[x] + SumOver(f, s \ {x})
  <2>1. IsFiniteSet(s) /\ Cardinality(s) \in Nat
    BY FS_Subset, FS_CardinalityType
  <2>2. Integral(f, s)
    BY DEF Integral
  <2> QED
    BY <2>1, <2>2, SumRemove, Zenon
<1>1. 0 \in T
  <2>1. ASSUME NEW s \in SUBSET S, Cardinality(s) <= 0 PROVE s = {}
    BY <1>0, <2>1, FS_EmptySet
  <2>2. SumOver(f, {}) = 0 /\ SumOver(f, S) \in Int /\ S \ {} = S
    BY <1>0
  <2>3. Good({})
    BY <2>2
  <2> HIDE DEF Good
  <2> QED
    BY <2>1, <2>3
<1>2. ASSUME NEW n \in Nat, n \in T PROVE n + 1 \in T
  <2> SUFFICES \A R \in SUBSET S : Cardinality(R) <= n + 1 => Good(R)
    OBVIOUS
  <2> SUFFICES ASSUME NEW R \in SUBSET S, Cardinality(R) <= n + 1 PROVE Good(R)
    OBVIOUS
  <2>1. CASE R = {}
    <3>1. SumOver(f, R) = 0 /\ SumOver(f, S) \in Int /\ S \ R = S
      BY <1>0, <2>1
    <3> QED
      BY <3>1
  <2>2. ASSUME NEW x \in R PROVE Good(R)
    <3> DEFINE r == R \ {x}
               q == S \ R
    <3>1. r \in SUBSET S /\ Cardinality(r) <= n
      BY OneLess
    <3>2. Good(r)
      <4> HIDE DEF Good, r
      <4> QED
        BY <1>2, <3>1
    <3>3. S \ r = q \cup {x} /\ (q \cup {x}) \ {x} = q /\ q \cup {x} \in SUBSET S
          /\ q \in SUBSET S
      OBVIOUS
    <3>4. SumOver(f, R) = f[x] + SumOver(f, r)
      BY <1>0
    <3>5. SumOver(f, S) = SumOver(f, r) + SumOver(f, q \cup {x})
      BY <3>2, <3>3
    <3> HIDE DEF r, q
    <3>6. SumOver(f, q \cup {x}) = f[x] + SumOver(f, q)
      <4>1. x \in q \cup {x}
        OBVIOUS
      <4>2. SumOver(f, q \cup {x}) = f[x] + SumOver(f, (q \cup {x}) \ {x})
        BY <1>0, <3>3, <4>1
      <4> QED
        BY <3>3, <4>2
    <3>7. SumOver(f, r) \in Int /\ SumOver(f, q) \in Int /\ f[x] \in Int
      BY <1>0, <3>1, <3>3 DEF Integral
    <3>8. SumOver(f, S) = SumOver(f, R) + SumOver(f, q)
      BY <3>4, <3>5, <3>6, <3>7
    <3> QED
      BY <3>8 DEF q
  <2> QED
    BY <2>1, <2>2
<1> HIDE DEF T
<1>3. Nat \subseteq T
  BY <1>1, <1>2, SetInduction
<1> QED
  BY <1>0, <1>3 DEF T

\* A part of a sum of natural numbers is not above it.
LEMMA SumOfPart ==
  ASSUME NEW f, NEW S, IsFiniteSet(S), NEW R \in SUBSET S, \A x \in S : f[x] \in Nat
  PROVE  SumOver(f, R) \in Nat /\ SumOver(f, S) \in Nat /\ SumOver(f, R) <= SumOver(f, S)
<1>1. IsFiniteSet(R) /\ IsFiniteSet(S \ R)
  BY FS_Subset, S \ R \in SUBSET S
<1>2. SumOver(f, R) \in Nat /\ SumOver(f, S \ R) \in Nat /\ SumOver(f, S) \in Nat
  <2>1. \A x \in R : f[x] \in Nat
    OBVIOUS
  <2>2. \A x \in S \ R : f[x] \in Nat
    OBVIOUS
  <2> QED
    BY <1>1, <2>1, <2>2, SumBounds
<1>3. SumOver(f, S) = SumOver(f, R) + SumOver(f, S \ R)
  <2>1. Integral(f, S)
    BY DEF Integral
  <2> QED
    BY <2>1, SumSplit
<1> QED
  BY <1>2, <1>3

\* A set of natural numbers that is bounded has a greatest element.
LEMMA HasGreatest ==
  ASSUME NEW D, D \subseteq Nat, D # {}, NEW b \in Nat, \A y \in D : y <= b
  PROVE  \E x \in D : \A y \in D : y <= x
<1> DEFINE T == {m \in Nat : \A y \in D : y <= m}
<1>1. PICK m \in T : \A k \in T : m <= k
  <2> T \subseteq Nat /\ T # {}
    OBVIOUS
  <2> QED
    BY WellOrdered
<1>2. m \in Nat /\ \A y \in D : y <= m
  OBVIOUS
<1>3. m \in D
  <2> SUFFICES ASSUME m \notin D PROVE FALSE
    OBVIOUS
  <2>1. \A y \in D : y \in Nat /\ y < m
    BY <1>2
  <2>2. m - 1 \in Nat /\ \A y \in D : y <= m - 1
    <3>1. PICK z \in D : TRUE
      OBVIOUS
    <3>2. m - 1 \in Nat
      BY <1>2, <2>1, <3>1
    <3>3. ASSUME NEW y \in D PROVE y <= m - 1
      BY <1>2, <2>1
    <3> QED
      BY <3>2, <3>3
  <2>3. m - 1 \in T
    BY <2>2
  <2> HIDE DEF T
  <2>4. m <= m - 1
    BY <1>1, <2>3
  <2> QED
    BY <1>2, <2>4
<1> QED
  BY <1>2, <1>3

\* What one more element adds to a sum.
LEMMA SumOneMore ==
  ASSUME NEW f, NEW S, IsFiniteSet(S), NEW x, x \notin S, Integral(f, S \cup {x})
  PROVE  SumOver(f, S \cup {x}) = f[x] + SumOver(f, S)
<1>1. PICK T : T = S \cup {x}
  OBVIOUS
<1>2. IsFiniteSet(T) /\ Integral(f, T) /\ x \in T /\ T \ {x} = S
  BY <1>1, FS_AddElement
<1>3. \A y \in T : SumOver(f, T) = f[y] + SumOver(f, T \ {y})
  BY <1>2, SumRemove, Zenon
<1> QED
  BY <1>1, <1>2, <1>3
=============================================================================
