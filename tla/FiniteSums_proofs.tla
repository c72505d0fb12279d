-------------------------- MODULE FiniteSums_proofs --------------------------
(* Facts about sums, which do not depend on the order of the summands, and *)
(* the inductions they rest on.                                            *)
EXTENDS FiniteSums, FiniteSetTheorems, WellFoundedInduction, TLAPS

-----------------------------------------------------------------------------
(* Induction over the naturals and over the subsets of a finite set, in a  *)
(* form that needs no operator for the induction hypothesis: a set takes   *)
(* its place.  Both come from the well-founded orders of the library.      *)

(* A set of naturals has a least element. *)
LEMMA NatLeast ==
    ASSUME NEW T \in SUBSET Nat, T # {}
    PROVE  \E m \in T : \A n \in T : ~(n < m)
<1>. DEFINE R == OpToRel(<, Nat)
<1>1. IsWellFoundedOn(R, Nat)
  BY NatLessThanWellFounded
<1>2. \A x, y \in Nat : y < x => <<y, x>> \in R
  BY DEF OpToRel
<1>. HIDE DEF R
<1>3. \E x \in T : \A y \in T : ~ (<<y, x>> \in R)
  BY <1>1, WFMin
<1>. QED BY <1>2, <1>3

(* Induction over the naturals *)
LEMMA NatSetInduction ==
    ASSUME NEW T, 0 \in T, \A n \in Nat : n \in T => n + 1 \in T
    PROVE  \A n \in Nat : n \in T
<1>1. SUFFICES ASSUME NEW k \in Nat \ T PROVE FALSE
  OBVIOUS
<1>2. PICK m \in Nat \ T : \A n \in Nat \ T : ~(n < m)
  BY NatLeast
<1>3. m # 0 /\ m - 1 \in Nat /\ m - 1 \notin T
  BY <1>2
<1>. QED BY <1>2, <1>3

(* Induction over the subsets of a finite set *)
LEMMA SubsetInduction ==
    ASSUME NEW D, IsFiniteSet(D), NEW T,
           \A s \in SUBSET D : (\A u \in SUBSET s : u # s => u \in T) => s \in T
    PROVE  \A s \in SUBSET D : s \in T
<1>. DEFINE R == StrictSubsetOrdering(D)
            B == {s \in SUBSET D : s \notin T}
<1>1. IsWellFoundedOn(R, SUBSET D)
  BY FS_StrictSubsetOrderingWellFounded, FS_FiniteSubsetsOfFinite
<1>2. ASSUME NEW s \in SUBSET D, NEW u \in SUBSET s, u # s PROVE <<u, s>> \in R
  BY <1>2 DEF StrictSubsetOrdering
<1>3. B \subseteq SUBSET D
  OBVIOUS
<1>. HIDE DEF R, B
<1>4. B # {} => \E s \in B : \A u \in B : ~(<<u, s>> \in R)
  BY <1>1, <1>3, WFMin
<1>5. ASSUME NEW s \in B PROVE FALSE
  <2>1. PICK m \in B : \A u \in B : ~(<<u, m>> \in R)
    BY <1>4, <1>5
  <2>2. m \in SUBSET D /\ m \notin T
    BY DEF B
  <2>3. PICK u \in SUBSET m : u # m /\ u \notin T
    BY <2>2
  <2>4. u \in B /\ <<u, m>> \in R
    BY <1>2, <2>2, <2>3 DEF B
  <2>. QED BY <2>1, <2>4
<1>. QED BY <1>5 DEF B

-----------------------------------------------------------------------------
(* Sums.  MapThenSumSet picks the summands in an order of its own; Sums(f) *)
(* is the function it recurses through: Sums(f)[s] adds up f over s.       *)

First(s) == CHOOSE x \in s : TRUE
Summand(f, g, s) == IF s = {} THEN 0 ELSE f[First(s)] + g[s \ {First(s)}]
Upto(D, n) == {s \in SUBSET D : Cardinality(s) <= n}
Sums(f) == CHOOSE g : g = [s \in SUBSET DOMAIN f |-> Summand(f, g, s)]

LEMMA FirstIsMember == \A s : s # {} => First(s) \in s
  BY DEF First

LEMMA SumOverUnfolded == \A f : SumOver(f) = Sums(f)[DOMAIN f]
  BY DEF SumOver, MapThenSumSet, MapThenFoldSet, Sums, Summand, First

LEMMA SmallerWithoutFirst ==
    ASSUME NEW D, IsFiniteSet(D), NEW n \in Nat, NEW s \in Upto(D, n + 1), s # {}
    PROVE  s \ {First(s)} \in Upto(D, n)
<1>1. IsFiniteSet(s) /\ First(s) \in s
  BY FS_Subset, FirstIsMember DEF Upto
<1>2. Cardinality(s) \in Nat /\ Cardinality(s \ {First(s)}) = Cardinality(s) - 1
  BY <1>1, FS_CardinalityType, FS_RemoveElement
<1>. QED BY <1>2 DEF Upto

LEMMA SumsExist ==
    ASSUME NEW f, IsFiniteSet(DOMAIN f)
    PROVE  Sums(f) = [s \in SUBSET DOMAIN f |-> Summand(f, Sums(f), s)]
<1>. DEFINE D == DOMAIN f
            T == {n \in Nat : \E g : g = [s \in Upto(D, n) |-> Summand(f, g, s)]}
<1>1. 0 \in T
  <2>1. \A s \in Upto(D, 0) : s = {}
    <3>1. ASSUME NEW s \in Upto(D, 0) PROVE s = {}
      <4>1. IsFiniteSet(s)
        BY FS_Subset DEF Upto
      <4>. QED BY <4>1, FS_CardinalityType, FS_EmptySet DEF Upto
    <3>. QED BY <3>1
  <2>2. [s \in Upto(D, 0) |-> 0] = [s \in Upto(D, 0) |-> Summand(f, [u \in Upto(D, 0) |-> 0], s)]
    BY <2>1 DEF Summand
  <2>. QED BY <2>2
<1>2. ASSUME NEW n \in Nat, n \in T PROVE n + 1 \in T
  <2>1. PICK g : g = [s \in Upto(D, n) |-> Summand(f, g, s)]
    BY <1>2
  <2>. DEFINE h == [s \in Upto(D, n + 1) |-> Summand(f, g, s)]
  <2>2. ASSUME NEW s \in Upto(D, n + 1) PROVE h[s] = Summand(f, h, s)
    <3>1. CASE s = {}
      BY <3>1 DEF Summand
    <3>2. CASE s # {}
      <4>. DEFINE r == s \ {First(s)}
      <4>1. r \in Upto(D, n)
        BY <3>2, SmallerWithoutFirst
      <4>2. r \in Upto(D, n + 1)
        BY <4>1, FS_Subset, FS_CardinalityType DEF Upto
      <4>3. h[r] = Summand(f, g, r) /\ g[r] = Summand(f, g, r)
        BY <2>1, <4>1, <4>2
      <4>. QED BY <3>2, <4>3 DEF Summand
    <3>. QED BY <3>1, <3>2
  <2>3. h = [s \in Upto(D, n + 1) |-> Summand(f, h, s)]
    BY <2>2
  <2>. HIDE DEF h
  <2>. QED BY <2>3
<1>3. Cardinality(D) \in T
  <2>. HIDE DEF T
  <2>1. Cardinality(D) \in Nat
    BY FS_CardinalityType
  <2>. QED BY <1>1, <1>2, <2>1, NatSetInduction
<1>4. Upto(D, Cardinality(D)) = SUBSET D
  BY FS_Subset DEF Upto
<1>5. \E g : g = [s \in SUBSET D |-> Summand(f, g, s)]
  BY <1>3, <1>4
<1>. QED BY <1>5 DEF Sums

LEMMA PartialSums ==
    ASSUME NEW f, IsFiniteSet(DOMAIN f)
    PROVE  /\ Sums(f)[{}] = 0
           /\ \A s \in SUBSET DOMAIN f : s # {} =>
                 Sums(f)[s] = f[First(s)] + Sums(f)[s \ {First(s)}]
<1>1. ASSUME NEW s \in SUBSET DOMAIN f PROVE Sums(f)[s] = Summand(f, Sums(f), s)
  BY SumsExist
<1>. QED BY <1>1 DEF Summand

LEMMA PartialSumType ==
    ASSUME NEW D, IsFiniteSet(D), NEW f \in [D -> Int]
    PROVE  \A s \in SUBSET D : Sums(f)[s] \in Int
<1>. DEFINE T == {s \in SUBSET D : Sums(f)[s] \in Int}
<1>1. ASSUME NEW s \in SUBSET D, \A u \in SUBSET s : u # s => u \in T
      PROVE  s \in T
  <2>1. CASE s = {}
    BY <2>1, PartialSums
  <2>2. CASE s # {}
    <3>1. First(s) \in s /\ s \ {First(s)} \in T
      BY <1>1, <2>2, FirstIsMember
    <3>2. Sums(f)[s] = f[First(s)] + Sums(f)[s \ {First(s)}]
      BY <2>2, PartialSums
    <3>3. f[First(s)] \in Int
      BY <3>1
    <3>. QED BY <3>1, <3>2, <3>3
  <2>. QED BY <2>1, <2>2
<1>. HIDE DEF T
<1>2. \A s \in SUBSET D : s \in T
  BY <1>1, SubsetInduction
<1>. QED BY <1>2 DEF T

(* The order of the summands does not matter. *)
LEMMA PartialSumAnyElement ==
    ASSUME NEW D, IsFiniteSet(D), NEW f \in [D -> Int]
    PROVE  \A s \in SUBSET D : \A x \in s :
               Sums(f)[s] = f[x] + Sums(f)[s \ {x}]
<1>. DEFINE T == {s \in SUBSET D : \A x \in s : Sums(f)[s] = f[x] + Sums(f)[s \ {x}]}
<1>1. ASSUME NEW s \in SUBSET D, \A u \in SUBSET s : u # s => u \in T
      PROVE  s \in T
  <2>1. SUFFICES ASSUME NEW x \in s PROVE Sums(f)[s] = f[x] + Sums(f)[s \ {x}]
    OBVIOUS
  <2>. DEFINE z == First(s)
  <2>2. z \in s /\ Sums(f)[s] = f[z] + Sums(f)[s \ {z}]
    BY FirstIsMember, PartialSums
  <2>. HIDE DEF z
  <2>3. CASE x # z
    <3>1. Sums(f)[s \ {z}] = f[x] + Sums(f)[(s \ {z}) \ {x}]
      BY <1>1, <2>2, <2>3
    <3>2. Sums(f)[s \ {x}] = f[z] + Sums(f)[(s \ {x}) \ {z}]
      BY <1>1, <2>2, <2>3
    <3>3. (s \ {z}) \ {x} = (s \ {x}) \ {z}
      OBVIOUS
    <3>4. f[x] \in Int /\ f[z] \in Int /\ Sums(f)[(s \ {x}) \ {z}] \in Int
      BY <2>2, PartialSumType
    <3>5. Sums(f)[s \ {z}] = f[x] + Sums(f)[(s \ {x}) \ {z}]
      BY <3>1, <3>3
    <3>6. Sums(f)[s] = f[z] + (f[x] + Sums(f)[(s \ {x}) \ {z}])
      BY <2>2, <3>5
    <3>7. Sums(f)[s] = f[x] + (f[z] + Sums(f)[(s \ {x}) \ {z}])
      BY <3>4, <3>6
    <3>. QED BY <3>2, <3>7
  <2>. QED BY <2>2, <2>3
<1>. HIDE DEF T
<1>2. \A s \in SUBSET D : s \in T
  BY <1>1, SubsetInduction
<1>. QED BY <1>2 DEF T

(* A sum depends on the values over the set only. *)
LEMMA PartialSumsAgree ==
    ASSUME NEW D, IsFiniteSet(D), NEW f \in [D -> Int],
           NEW E, IsFiniteSet(E), NEW g \in [E -> Int],
           \A x \in D \cap E : f[x] = g[x]
    PROVE  \A s \in SUBSET (D \cap E) : Sums(f)[s] = Sums(g)[s]
<1>. DEFINE T == {s \in SUBSET (D \cap E) : Sums(f)[s] = Sums(g)[s]}
<1>1. ASSUME NEW s \in SUBSET (D \cap E), \A u \in SUBSET s : u # s => u \in T
      PROVE  s \in T
  <2>1. CASE s = {}
    BY <2>1, PartialSums
  <2>2. CASE s # {}
    <3>1. First(s) \in s /\ s \ {First(s)} \in T
      BY <1>1, <2>2, FirstIsMember
    <3>2. /\ Sums(f)[s] = f[First(s)] + Sums(f)[s \ {First(s)}]
          /\ Sums(g)[s] = g[First(s)] + Sums(g)[s \ {First(s)}]
      BY <2>2, PartialSums
    <3>. QED BY <3>1, <3>2
  <2>. QED BY <2>1, <2>2
<1>. HIDE DEF T
<1>2. IsFiniteSet(D \cap E)
  BY FS_Intersection
<1>3. \A s \in SUBSET (D \cap E) : s \in T
  BY <1>1, <1>2, SubsetInduction
<1>. QED BY <1>3 DEF T

(* The sum of the values of a function with a finite domain, ...           *)
LEMMA SumType ==
    ASSUME NEW D, IsFiniteSet(D), NEW f \in [D -> Int]
    PROVE  SumOver(f) \in Int
  BY SumOverUnfolded, PartialSumType

(* ... over the empty set, ... *)
LEMMA SumEmpty ==
    ASSUME NEW f, DOMAIN f = {}
    PROVE  SumOver(f) = 0
  BY SumOverUnfolded, PartialSums, FS_EmptySet

(* ... when one value changes, ... *)
LEMMA SumChange ==
    ASSUME NEW D, IsFiniteSet(D), NEW f \in [D -> Int], NEW g \in [D -> Int],
           NEW x \in D, \A y \in D \ {x} : g[y] = f[y]
    PROVE  SumOver(g) = SumOver(f) + (g[x] - f[x])
<1>. DEFINE r == D \ {x}
            e == [y \in r |-> f[y]]
<1>1. IsFiniteSet(r)
  BY FS_Subset
<1>2. e \in [r -> Int] /\ (\A y \in r \cap D : e[y] = f[y] /\ e[y] = g[y]) /\ r \in SUBSET (r \cap D)
  OBVIOUS
<1>. HIDE DEF e, r
<1>3. Sums(e)[r] = Sums(f)[r] /\ Sums(e)[r] = Sums(g)[r]
  BY <1>1, <1>2, PartialSumsAgree
<1>4. /\ Sums(f)[D] = f[x] + Sums(f)[r]
      /\ Sums(g)[D] = g[x] + Sums(g)[r]
  BY PartialSumAnyElement DEF r
<1>5. Sums(f)[r] \in Int /\ f[x] \in Int /\ g[x] \in Int
  BY PartialSumType DEF r
<1>. QED BY <1>3, <1>4, <1>5, SumOverUnfolded

(* ... and when the domain gains an element. *)
LEMMA SumAdd ==
    ASSUME NEW D, IsFiniteSet(D), NEW f \in [D -> Int], NEW x, x \notin D,
           NEW E, E = D \cup {x}, NEW g \in [E -> Int], \A y \in D : g[y] = f[y]
    PROVE  SumOver(g) = SumOver(f) + g[x]
<1>1. IsFiniteSet(E) /\ E \ {x} = D /\ D \in SUBSET (D \cap E) /\ x \in E
  BY FS_AddElement
<1>2. g \in [E -> Int] /\ \A y \in D \cap E : g[y] = f[y]
  OBVIOUS
<1>3. Sums(g)[E] = g[x] + Sums(g)[D]
  BY <1>1, <1>2, PartialSumAnyElement
<1>4. Sums(g)[D] = Sums(f)[D]
  BY <1>1, <1>2, PartialSumsAgree
<1>5. Sums(f)[D] \in Int /\ g[x] \in Int
  BY <1>1, <1>2, PartialSumType
<1>. QED BY <1>2, <1>3, <1>4, <1>5, SumOverUnfolded

LEMMA SumMonotonic ==
    ASSUME NEW D, IsFiniteSet(D), NEW f \in [D -> Int], NEW g \in [D -> Int],
           \A x \in D : f[x] <= g[x]
    PROVE  SumOver(f) <= SumOver(g)
<1>. DEFINE T == {s \in SUBSET D : Sums(f)[s] <= Sums(g)[s]}
<1>1. ASSUME NEW s \in SUBSET D, \A u \in SUBSET s : u # s => u \in T
      PROVE  s \in T
  <2>1. CASE s = {}
    BY <2>1, PartialSums
  <2>2. CASE s # {}
    <3>1. First(s) \in s /\ s \ {First(s)} \in T
      BY <1>1, <2>2, FirstIsMember
    <3>2. /\ Sums(f)[s] = f[First(s)] + Sums(f)[s \ {First(s)}]
          /\ Sums(g)[s] = g[First(s)] + Sums(g)[s \ {First(s)}]
      BY <2>2, PartialSums
    <3>3. Sums(f)[s \ {First(s)}] \in Int /\ Sums(g)[s \ {First(s)}] \in Int
      BY PartialSumType
    <3>. QED BY <3>1, <3>2, <3>3
  <2>. QED BY <2>1, <2>2
<1>. HIDE DEF T
<1>2. \A s \in SUBSET D : s \in T
  BY <1>1, SubsetInduction
<1>. QED BY <1>2, SumOverUnfolded DEF T

LEMMA SumZero ==
    ASSUME NEW D, IsFiniteSet(D)
    PROVE  SumOver([x \in D |-> 0]) = 0
<1>. DEFINE f == [x \in D |-> 0]
            T == {s \in SUBSET D : Sums(f)[s] = 0}
<1>1. ASSUME NEW s \in SUBSET D, \A u \in SUBSET s : u # s => u \in T
      PROVE  s \in T
  <2>0. DOMAIN f = D /\ \A x \in D : f[x] = 0
    OBVIOUS
  <2>. HIDE DEF f
  <2>1. CASE s = {}
    BY <2>0, <2>1, PartialSums
  <2>2. CASE s # {}
    <3>1. First(s) \in s /\ s \ {First(s)} \in T
      BY <1>1, <2>2, FirstIsMember
    <3>2. Sums(f)[s] = f[First(s)] + Sums(f)[s \ {First(s)}]
      BY <2>0, <2>2, PartialSums
    <3>. QED BY <2>0, <3>1, <3>2
  <2>. QED BY <2>1, <2>2
<1>. HIDE DEF T
<1>2. \A s \in SUBSET D : s \in T
  BY <1>1, SubsetInduction
<1>. QED BY <1>2, SumOverUnfolded DEF T

LEMMA SumNonnegative ==
    ASSUME NEW D, IsFiniteSet(D), NEW f \in [D -> Nat]
    PROVE  SumOver(f) \in Nat
<1>1. [x \in D |-> 0] \in [D -> Int] /\ f \in [D -> Int]
  OBVIOUS
<1>2. SumOver([x \in D |-> 0]) <= SumOver(f)
  BY <1>1, SumMonotonic
<1>. QED BY <1>1, <1>2, SumZero, SumType

(* The sum of two functions.                                               *)
LEMMA SumPlus ==
    ASSUME NEW D, IsFiniteSet(D), NEW f \in [D -> Int], NEW g \in [D -> Int],
           NEW h \in [D -> Int], \A x \in D : h[x] = f[x] + g[x]
    PROVE  SumOver(h) = SumOver(f) + SumOver(g)
<1>. DEFINE T == {s \in SUBSET D : Sums(h)[s] = Sums(f)[s] + Sums(g)[s]}
<1>1. ASSUME NEW s \in SUBSET D, \A u \in SUBSET s : u # s => u \in T
      PROVE  s \in T
  <2>1. CASE s = {}
    BY <2>1, PartialSums
  <2>2. CASE s # {}
    <3>1. First(s) \in s /\ s \ {First(s)} \in T
      BY <1>1, <2>2, FirstIsMember
    <3>2. /\ Sums(f)[s] = f[First(s)] + Sums(f)[s \ {First(s)}]
          /\ Sums(g)[s] = g[First(s)] + Sums(g)[s \ {First(s)}]
          /\ Sums(h)[s] = h[First(s)] + Sums(h)[s \ {First(s)}]
      BY <2>2, PartialSums
    <3>3. Sums(f)[s \ {First(s)}] \in Int /\ Sums(g)[s \ {First(s)}] \in Int
      BY PartialSumType
    <3>. QED BY <3>1, <3>2, <3>3
  <2>. QED BY <2>1, <2>2
<1>. HIDE DEF T
<1>2. \A s \in SUBSET D : s \in T
  BY <1>1, SubsetInduction
<1>. QED BY <1>2, SumOverUnfolded DEF T

(* A sum of naturals is no smaller than any of them.                       *)
LEMMA SumAtLeastSummand ==
    ASSUME NEW D, IsFiniteSet(D), NEW f \in [D -> Nat], NEW x \in D
    PROVE  f[x] <= SumOver(f)
<1>. DEFINE g == [f EXCEPT ![x] = 0]
<1>1. /\ f \in [D -> Int] /\ g \in [D -> Int] /\ g \in [D -> Nat]
      /\ g[x] = 0 /\ \A y \in D \ {x} : g[y] = f[y]
  OBVIOUS
<1>. HIDE DEF g
<1>2. SumOver(g) = SumOver(f) + (g[x] - f[x])
  BY <1>1, SumChange
<1>3. SumOver(g) \in Nat /\ SumOver(f) \in Int
  BY <1>1, SumNonnegative, SumType
<1>. QED BY <1>1, <1>2, <1>3

-----------------------------------------------------------------------------
(* Sums of the first values of a function of the positive numbers *)
SumTo(f, n) == SumOver([k \in 1 .. n |-> f[k]])

LEMMA SumToType ==
    ASSUME NEW f, NEW n \in Nat, \A k \in 1 .. n : f[k] \in Int
    PROVE  SumTo(f, n) \in Int
<1>1. [k \in 1 .. n |-> f[k]] \in [1 .. n -> Int] /\ IsFiniteSet(1 .. n)
  BY FS_Interval
<1>. QED BY <1>1, SumType DEF SumTo

LEMMA SumToNone == \A f : SumTo(f, 0) = 0
<1>. SUFFICES ASSUME NEW f PROVE SumTo(f, 0) = 0
  OBVIOUS
<1>1. DOMAIN [k \in 1 .. 0 |-> f[k]] = {}
  OBVIOUS
<1>. QED BY <1>1, SumEmpty DEF SumTo

LEMMA SumToEqual ==
    ASSUME NEW f, NEW g, NEW n, \A k \in 1 .. n : f[k] = g[k]
    PROVE  SumTo(f, n) = SumTo(g, n)
<1>1. [k \in 1 .. n |-> f[k]] = [k \in 1 .. n |-> g[k]]
  OBVIOUS
<1>. QED BY <1>1 DEF SumTo

LEMMA SumToNext ==
    ASSUME NEW f, NEW n \in Nat, \A k \in 1 .. n + 1 : f[k] \in Int
    PROVE  SumTo(f, n + 1) = SumTo(f, n) + f[n + 1]
<1>. DEFINE D == 1 .. n
            E == 1 .. n + 1
            x == n + 1
            e == [k \in D |-> f[k]]
            g == [k \in E |-> f[k]]
<1>1. IsFiniteSet(D)
  BY FS_Interval
<1>2. x \notin D /\ E = D \cup {x}
  OBVIOUS
<1>3. e \in [D -> Int] /\ g \in [E -> Int] /\ g[x] = f[x] /\ \A k \in D : g[k] = e[k]
  OBVIOUS
<1>. HIDE DEF D, E, x, e, g
<1>4. SumOver(g) = SumOver(e) + g[x]
  BY <1>1, <1>2, <1>3, SumAdd
<1>. QED BY <1>3, <1>4 DEF SumTo, D, E, x, e, g

LEMMA SumToPlus ==
    ASSUME NEW f, NEW g, NEW h, NEW n \in Nat,
           \A k \in 1 .. n : f[k] \in Int /\ g[k] \in Int /\ h[k] = f[k] + g[k]
    PROVE  SumTo(h, n) = SumTo(f, n) + SumTo(g, n)
<1>. DEFINE D == 1 .. n
            f0 == [k \in D |-> f[k]]
            g0 == [k \in D |-> g[k]]
            h0 == [k \in D |-> h[k]]
<1>1. IsFiniteSet(D)
  BY FS_Interval
<1>2. /\ f0 \in [D -> Int] /\ g0 \in [D -> Int] /\ h0 \in [D -> Int]
      /\ \A k \in D : h0[k] = f0[k] + g0[k]
  OBVIOUS
<1>. HIDE DEF D, f0, g0, h0
<1>3. SumOver(h0) = SumOver(f0) + SumOver(g0)
  BY <1>1, <1>2, SumPlus
<1>. QED BY <1>3 DEF SumTo, D, f0, g0, h0

LEMMA SumToZero ==
    ASSUME NEW f, NEW n \in Nat, \A k \in 1 .. n : f[k] = 0
    PROVE  SumTo(f, n) = 0
<1>. DEFINE D == 1 .. n
<1>1. IsFiniteSet(D) /\ [k \in D |-> f[k]] = [k \in D |-> 0]
  BY FS_Interval
<1>. HIDE DEF D
<1>. QED BY <1>1, SumZero DEF SumTo, D

(* ... the values after the n-th apart *)
Follows(g, m, f, n) == \A k \in 1 .. m : g[k] = f[n + k]

LEMMA SumToSplit ==
    ASSUME NEW f, NEW n \in Nat, NEW m \in Nat, NEW l \in Nat, l = n + m,
           \A k \in 1 .. l : f[k] \in Int,
           NEW g, Follows(g, m, f, n)
    PROVE  SumTo(f, l) = SumTo(f, n) + SumTo(g, m)
<1>. DEFINE T == {k \in Nat : k <= m => SumTo(f, n + k) = SumTo(f, n) + SumTo(g, k)}
<1>0. SumTo(f, n) \in Int
  BY SumToType
<1>1. 0 \in T
  BY <1>0, SumToNone
<1>2. ASSUME NEW k \in Nat, k \in T PROVE k + 1 \in T
  <2>1. SUFFICES ASSUME k + 1 <= m
                 PROVE  SumTo(f, n + (k + 1)) = SumTo(f, n) + SumTo(g, k + 1)
    OBVIOUS
  <2>2. SumTo(f, n + k) = SumTo(f, n) + SumTo(g, k)
    BY <1>2, <2>1
  <2>3. /\ n + k \in Nat /\ (n + k) + 1 = n + (k + 1)
        /\ \A j \in 1 .. (n + k) + 1 : f[j] \in Int
        /\ \A j \in 1 .. k + 1 : g[j] = f[n + j] /\ g[j] \in Int
    BY <2>1 DEF Follows
  <2>4. SumTo(f, (n + k) + 1) = SumTo(f, n + k) + f[(n + k) + 1]
    BY <2>3, SumToNext
  <2>5. SumTo(g, k + 1) = SumTo(g, k) + g[k + 1]
    BY <2>3, SumToNext
  <2>6. g[k + 1] = f[n + (k + 1)] /\ g[k + 1] \in Int /\ SumTo(g, k) \in Int
    BY <2>3, SumToType
  <2>7. \A a, b, c \in Int : (a + b) + c = a + (b + c)
    OBVIOUS
  <2>. QED BY <1>0, <2>2, <2>3, <2>4, <2>5, <2>6, <2>7
<1>. HIDE DEF T
<1>3. m \in T
  BY <1>1, <1>2, NatSetInduction
<1>. QED BY <1>3 DEF T
=============================================================================
