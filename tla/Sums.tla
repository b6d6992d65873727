-------------------------------- MODULE Sums --------------------------------
(***************************************************************************)
(* Sums over finite sets, for the proofs about amounts that add up: what a *)
(* sum is when its set gains a member or one of its terms changes; and the *)
(* largest and the smallest of a finite set of numbers.                    *)
(*                                                                         *)
(* Induction is over a set of sets, not over a predicate: a non-empty set  *)
(* of finite sets has a smallest one.                                      *)
(***************************************************************************)
EXTENDS Integers, FiniteSets, TLAPS, FiniteSetTheorems, WellFoundedInduction

\* The sums h[T] of g over the subsets T of S, member by member.
AddsUp(h, g, S) ==
    h = [T \in SUBSET S |-> IF T = {} THEN 0
                            ELSE LET x == CHOOSE x \in T : TRUE
                                 IN  g[x] + h[T \ {x}]]

\* The same in whatever order the members are taken.
AddsUpAnyhow(h, g, S) ==
    /\ h \in [SUBSET S -> Int]
    /\ h[{}] = 0
    /\ \A T \in SUBSET S : \A x \in T : h[T] = g[x] + h[T \ {x}]

\* The sum of g[x] over the members x of S.
SumOver(g, S) == (CHOOSE h : AddsUp(h, g, S))[S]

-----------------------------------------------------------------------------
\* A set of subsets of S has a smallest member.
LEMMA SmallestSet ==
  ASSUME NEW S, IsFiniteSet(S), NEW B, B \subseteq SUBSET S, B # {}
  PROVE  \E T \in B : \A U \in SUBSET T : U # T => U \notin B
<1> DEFINE R == StrictSubsetOrdering(S)
<1>1. IsWellFoundedOn(R, SUBSET S)
  BY FS_StrictSubsetOrderingWellFounded, FS_FiniteSubsetsOfFinite
<1>2. PICK T \in B : \A U \in B : <<U, T>> \notin R
  <2> HIDE DEF R
  <2> QED  BY <1>1, WFMin
<1>3. ASSUME NEW U \in SUBSET T, U # T
      PROVE  U \notin B
  <2>1. T \in SUBSET S /\ U \in SUBSET S
    OBVIOUS
  <2>2. <<U, T>> \in R
    BY <1>3, <2>1 DEF StrictSubsetOrdering
  <2> QED  BY <1>2, <2>2
<1> QED  BY <1>2, <1>3

\* Sums exist.
LEMMA SumsExist ==
  ASSUME NEW S, IsFiniteSet(S), NEW g, \A x \in S : g[x] \in Int
  PROVE  \E h : AddsUpAnyhow(h, g, S)
<1> DEFINE B == {T \in SUBSET S : ~ \E h : AddsUpAnyhow(h, g, T)}
<1> SUFFICES ASSUME B # {} PROVE FALSE
  OBVIOUS
<1>0. B \subseteq SUBSET S
  OBVIOUS
<1>1. PICK T \in B : \A U \in SUBSET T : U # T => U \notin B
  <2> HIDE DEF B
  <2> QED  BY <1>0, SmallestSet
<1>2. CASE T = {}
  <2> DEFINE h == [U \in SUBSET {} |-> 0]
  <2>1. AddsUpAnyhow(h, g, {})
    BY DEF AddsUpAnyhow
  <2> QED  BY <1>1, <1>2, <2>1
<1>3. CASE T # {}
  <2>1. PICK x : x \in T
    BY <1>3
  <2> DEFINE V == T \ {x}
  <2>2. V \in SUBSET T /\ V # T /\ V \in SUBSET S
    BY <2>1
  <2>3. PICK k : AddsUpAnyhow(k, g, V)
    BY <1>1, <2>2
  <2> DEFINE h == [U \in SUBSET T |-> k[U \ {x}] + (IF x \in U THEN g[x] ELSE 0)]
  <2>4. g[x] \in Int /\ T \in SUBSET S
    BY <2>1
  <2>5. k \in [SUBSET V -> Int] /\ k[{}] = 0 /\ \A U \in SUBSET V : \A y \in U : k[U] = g[y] + k[U \ {y}]
    BY <2>3 DEF AddsUpAnyhow
  <2>6. \A U \in SUBSET T : U \ {x} \in SUBSET V /\ k[U \ {x}] \in Int
    BY <2>5
  <2>7. h \in [SUBSET T -> Int]
    <3>1. \A U \in SUBSET T : k[U \ {x}] + (IF x \in U THEN g[x] ELSE 0) \in Int
      BY <2>4, <2>6
    <3> QED  BY <3>1
  <2>8. h[{}] = 0
    <3>1. {} \ {x} = {}
      OBVIOUS
    <3> QED  BY <2>5, <3>1
  <2>9. ASSUME NEW U \in SUBSET T, NEW y \in U
        PROVE  h[U] = g[y] + h[U \ {y}]
    <3>1. h[U] = k[U \ {x}] + (IF x \in U THEN g[x] ELSE 0)
      OBVIOUS
    <3>2. U \ {y} \in SUBSET T
      OBVIOUS
    <3>3. h[U \ {y}] = k[(U \ {y}) \ {x}] + (IF x \in U \ {y} THEN g[x] ELSE 0)
      BY <3>2
    <3>4. CASE y = x
      <4>1. (U \ {y}) \ {x} = U \ {x} /\ x \in U /\ x \notin U \ {y}
        BY <3>4
      <4>2. h[U] = k[U \ {x}] + g[x] /\ h[U \ {y}] = k[U \ {x}] + 0 /\ k[U \ {x}] \in Int
        BY <2>6, <3>1, <3>3, <4>1
      <4> HIDE DEF h
      <4> QED  BY <2>4, <3>4, <4>2
    <3>5. CASE y # x
      <4>1. y \in U \ {x} /\ U \ {x} \in SUBSET V /\ (U \ {y}) \ {x} = (U \ {x}) \ {y}
        BY <3>5
      <4>2. k[U \ {x}] = g[y] + k[(U \ {x}) \ {y}]
        BY <2>5, <4>1
      <4>3. g[y] \in Int /\ k[(U \ {y}) \ {x}] \in Int
        BY <2>4, <2>6, <3>2
      <4>4. x \in U <=> x \in U \ {y}
        BY <3>5
      <4> DEFINE c == IF x \in U THEN g[x] ELSE 0
                 n == k[(U \ {y}) \ {x}]
      <4>5. h[U] = k[U \ {x}] + c /\ h[U \ {y}] = n + c /\ n = k[(U \ {x}) \ {y}]
        BY <3>1, <3>3, <4>1, <4>4
      <4>6. c \in Int /\ n \in Int
        BY <2>4, <4>3
      <4> HIDE DEF h, c, n
      <4> QED  BY <4>2, <4>3, <4>5, <4>6
    <3> QED  BY <3>4, <3>5
  <2>10. AddsUpAnyhow(h, g, T)
    <3> HIDE DEF h
    <3> QED  BY <2>7, <2>8, <2>9 DEF AddsUpAnyhow
  <2> QED  BY <1>1, <2>10
<1> QED  BY <1>2, <1>3

\* In whatever order is also in the order that CHOOSE takes.
LEMMA AnyhowAddsUp ==
  ASSUME NEW S, NEW g, NEW h, AddsUpAnyhow(h, g, S)
  PROVE  AddsUp(h, g, S)
<1>1. h = [T \in SUBSET S |-> h[T]]
  BY DEF AddsUpAnyhow
<1>2. ASSUME NEW T \in SUBSET S
      PROVE  h[T] = IF T = {} THEN 0 ELSE g[CHOOSE x \in T : TRUE] + h[T \ {CHOOSE x \in T : TRUE}]
  BY DEF AddsUpAnyhow
<1> QED  BY <1>1, <1>2 DEF AddsUp

\* There is only one sum.
LEMMA SumsAgree ==
  ASSUME NEW S, IsFiniteSet(S), NEW g, NEW h, NEW k, AddsUp(h, g, S), AddsUp(k, g, S)
  PROVE  h[S] = k[S]
<1> DEFINE B == {T \in SUBSET S : h[T] # k[T]}
<1> SUFFICES ASSUME B # {} PROVE FALSE
  OBVIOUS
<1>0. B \subseteq SUBSET S
  OBVIOUS
<1>1. PICK T \in B : \A U \in SUBSET T : U # T => U \notin B
  <2> HIDE DEF B
  <2> QED  BY <1>0, SmallestSet
<1> DEFINE x == CHOOSE x \in T : TRUE
<1>2. /\ h[T] = IF T = {} THEN 0 ELSE g[x] + h[T \ {x}]
      /\ k[T] = IF T = {} THEN 0 ELSE g[x] + k[T \ {x}]
  BY DEF AddsUp
<1>3. T # {}
  BY <1>2
<1>4. x \in T
  BY <1>3
<1> HIDE DEF x
<1>5. h[T \ {x}] = k[T \ {x}]
  BY <1>1, <1>4
<1> QED  BY <1>2, <1>5

LEMMA SumIs ==
  ASSUME NEW S, IsFiniteSet(S), NEW g, NEW h, AddsUp(h, g, S)
  PROVE  SumOver(g, S) = h[S]
<1> DEFINE sum == CHOOSE f : AddsUp(f, g, S)
<1>1. AddsUp(sum, g, S)
  OBVIOUS
<1> HIDE DEF sum
<1>2. sum[S] = h[S]
  BY <1>1, SumsAgree
<1> QED  BY <1>2 DEF SumOver, sum

-----------------------------------------------------------------------------
(* What the proofs use.                                                    *)

LEMMA SumOfNone == \A g : SumOver(g, {}) = 0
<1> SUFFICES ASSUME NEW g PROVE SumOver(g, {}) = 0
  OBVIOUS
<1>1. IsFiniteSet({})
  BY FS_EmptySet
<1>2. PICK h : AddsUpAnyhow(h, g, {})
  BY <1>1, SumsExist
<1> QED  BY <1>1, <1>2, AnyhowAddsUp, SumIs DEF AddsUpAnyhow

LEMMA SumTakes ==
  ASSUME NEW S, IsFiniteSet(S), NEW g, \A y \in S : g[y] \in Int, NEW x \in S
  PROVE  SumOver(g, S) = g[x] + SumOver(g, S \ {x})
<1>1. PICK h : AddsUpAnyhow(h, g, S)
  BY SumsExist
<1> DEFINE T == S \ {x}
           k == [U \in SUBSET T |-> h[U]]
<1>2. SumOver(g, S) = h[S] /\ h[S] = g[x] + h[T]
  BY <1>1, AnyhowAddsUp, SumIs DEF AddsUpAnyhow
<1>3. AddsUpAnyhow(k, g, T)
  BY <1>1 DEF AddsUpAnyhow
<1>4. IsFiniteSet(T)
  BY FS_Subset
<1>5. k[T] = h[T]
  OBVIOUS
<1> HIDE DEF k, T
<1>6. SumOver(g, T) = k[T]
  BY <1>3, <1>4, AnyhowAddsUp, SumIs
<1> QED  BY <1>2, <1>5, <1>6 DEF T

LEMMA SumType ==
  ASSUME NEW S, IsFiniteSet(S), NEW g, \A y \in S : g[y] \in Int
  PROVE  SumOver(g, S) \in Int
<1>1. PICK h : AddsUpAnyhow(h, g, S)
  BY SumsExist
<1>2. h[S] \in Int
  BY <1>1 DEF AddsUpAnyhow
<1> QED  BY <1>1, <1>2, AnyhowAddsUp, SumIs

\* A sum depends on nothing but the terms of its members.
LEMMA SumSame ==
  ASSUME NEW S, IsFiniteSet(S), NEW g, NEW f, \A y \in S : g[y] \in Int /\ f[y] = g[y]
  PROVE  SumOver(f, S) = SumOver(g, S)
<1>1. PICK h : AddsUpAnyhow(h, g, S)
  BY SumsExist
<1>2. AddsUpAnyhow(h, f, S)
  BY <1>1 DEF AddsUpAnyhow
<1> QED  BY <1>1, <1>2, AnyhowAddsUp, SumIs

LEMMA SumGains ==
  ASSUME NEW S, IsFiniteSet(S), NEW g, NEW x, x \notin S, \A y \in S \cup {x} : g[y] \in Int
  PROVE  SumOver(g, S \cup {x}) = SumOver(g, S) + g[x]
<1> DEFINE T == S \cup {x}
<1>1. IsFiniteSet(T) /\ x \in T /\ T \ {x} = S
  BY FS_AddElement
<1>2. SumOver(g, T) = g[x] + SumOver(g, T \ {x})
  <2> HIDE DEF T
  <2> QED  BY <1>1, SumTakes DEF T
<1>3. SumOver(g, S) \in Int
  BY SumType
<1>4. g[x] \in Int
  OBVIOUS
<1>5. SumOver(g, T) = g[x] + SumOver(g, S)
  <2> HIDE DEF T
  <2> QED  BY <1>1, <1>2
<1> HIDE DEF T
<1>6. SumOver(g, T) = SumOver(g, S) + g[x]
  BY <1>3, <1>4, <1>5
<1> QED  BY <1>6 DEF T

\* One term of a sum changes.
LEMMA SumChanges ==
  ASSUME NEW S, IsFiniteSet(S), NEW g, NEW f, NEW x \in S,
         \A y \in S : g[y] \in Int /\ f[y] \in Int /\ (y # x => f[y] = g[y])
  PROVE  SumOver(f, S) = SumOver(g, S) - g[x] + f[x]
<1> DEFINE T == S \ {x}
<1>1. SumOver(g, S) = g[x] + SumOver(g, T) /\ SumOver(f, S) = f[x] + SumOver(f, T)
  BY SumTakes
<1>2. IsFiniteSet(T) /\ \A y \in T : g[y] \in Int /\ f[y] = g[y]
  BY FS_Subset
<1> HIDE DEF T
<1>3. SumOver(f, T) = SumOver(g, T) /\ SumOver(g, T) \in Int
  BY <1>2, SumSame, SumType
<1> QED  BY <1>1, <1>3

\* The sum of two sums, term by term.
LEMMA SumsAdd ==
  ASSUME NEW S, IsFiniteSet(S), NEW f, NEW g, NEW h,
         \A x \in S : f[x] \in Int /\ g[x] \in Int /\ h[x] = f[x] + g[x]
  PROVE  SumOver(h, S) = SumOver(f, S) + SumOver(g, S)
<1>1. PICK k : AddsUpAnyhow(k, f, S)
  BY SumsExist
<1>2. PICK m : AddsUpAnyhow(m, g, S)
  BY SumsExist
<1> DEFINE n == [T \in SUBSET S |-> k[T] + m[T]]
<1>3. k \in [SUBSET S -> Int] /\ m \in [SUBSET S -> Int] /\ {} \in SUBSET S
  BY <1>1, <1>2 DEF AddsUpAnyhow
<1>4. n \in [SUBSET S -> Int] /\ n[{}] = 0 /\ n[S] = k[S] + m[S]
  BY <1>1, <1>2, <1>3 DEF AddsUpAnyhow
<1>5. ASSUME NEW T \in SUBSET S, NEW x \in T
      PROVE  n[T] = h[x] + n[T \ {x}]
  <2>1. k[T] = f[x] + k[T \ {x}] /\ m[T] = g[x] + m[T \ {x}]
    BY <1>1, <1>2 DEF AddsUpAnyhow
  <2>2. x \in S /\ T \ {x} \in SUBSET S
    OBVIOUS
  <2>3. n[T] = k[T] + m[T] /\ n[T \ {x}] = k[T \ {x}] + m[T \ {x}]
    BY <2>2
  <2>4. f[x] \in Int /\ g[x] \in Int /\ h[x] = f[x] + g[x]
    BY <2>2
  <2>5. k[T \ {x}] \in Int /\ m[T \ {x}] \in Int
    BY <1>3, <2>2
  <2> HIDE DEF n
  <2> QED  BY <2>1, <2>3, <2>4, <2>5
<1> HIDE DEF n
<1>6. AddsUpAnyhow(n, h, S)
  BY <1>4, <1>5 DEF AddsUpAnyhow
<1>7. SumOver(h, S) = n[S] /\ SumOver(f, S) = k[S] /\ SumOver(g, S) = m[S]
  BY <1>1, <1>2, <1>6, AnyhowAddsUp, SumIs
<1> QED  BY <1>4, <1>7

LEMMA SumOfZeros ==
  ASSUME NEW S, IsFiniteSet(S), NEW g, \A y \in S : g[y] = 0
  PROVE  SumOver(g, S) = 0
<1> DEFINE h == [T \in SUBSET S |-> 0]
<1>1. AddsUpAnyhow(h, g, S)
  BY DEF AddsUpAnyhow
<1>2. h[S] = 0
  OBVIOUS
<1> HIDE DEF h
<1> QED  BY <1>1, <1>2, AnyhowAddsUp, SumIs

\* Members with a term of zero can be left out.
LEMMA SumOfSome ==
  ASSUME NEW S, IsFiniteSet(S), NEW P \in SUBSET S, NEW g, NEW f,
         \A y \in S : f[y] \in Int, \A y \in P : f[y] = g[y], \A y \in S \ P : f[y] = 0
  PROVE  SumOver(f, S) = SumOver(g, P)
<1>1. IsFiniteSet(P)
  BY FS_Subset
<1>2. PICK h : AddsUpAnyhow(h, g, P)
  BY <1>1, SumsExist
<1> DEFINE k == [T \in SUBSET S |-> h[T \cap P]]
<1>3. h \in [SUBSET P -> Int] /\ h[{}] = 0 /\ \A T \in SUBSET P : \A x \in T : h[T] = g[x] + h[T \ {x}]
  BY <1>2 DEF AddsUpAnyhow
<1>4. k \in [SUBSET S -> Int]
  <2>1. \A T \in SUBSET S : h[T \cap P] \in Int
    BY <1>3
  <2> QED  BY <2>1
<1>5. k[{}] = 0
  <2>1. {} \cap P = {}
    OBVIOUS
  <2> QED  BY <1>3, <2>1
<1>6. ASSUME NEW T \in SUBSET S, NEW x \in T
      PROVE  k[T] = f[x] + k[T \ {x}]
  <2>1. k[T] = h[T \cap P] /\ k[T \ {x}] = h[(T \ {x}) \cap P] /\ h[T \cap P] \in Int
    BY <1>3
  <2>2. CASE x \in P
    <3>1. (T \ {x}) \cap P = (T \cap P) \ {x} /\ x \in T \cap P /\ T \cap P \in SUBSET P
      BY <2>2
    <3>2. h[T \cap P] = g[x] + h[(T \cap P) \ {x}] /\ f[x] = g[x]
      BY <1>3, <2>2, <3>1
    <3> HIDE DEF k
    <3> QED  BY <2>1, <3>1, <3>2
  <2>3. CASE x \notin P
    <3>1. (T \ {x}) \cap P = T \cap P /\ f[x] = 0
      BY <2>3
    <3> HIDE DEF k
    <3>2. k[T \ {x}] = k[T] /\ k[T] \in Int
      BY <2>1, <3>1
    <3> QED  BY <3>1, <3>2
  <2> QED  BY <2>2, <2>3
<1>7. AddsUpAnyhow(k, f, S)
  <2> HIDE DEF k
  <2> QED  BY <1>4, <1>5, <1>6 DEF AddsUpAnyhow
<1>8. k[S] = h[P]
  <2>1. S \cap P = P
    OBVIOUS
  <2> QED  BY <2>1
<1> HIDE DEF k
<1>9. SumOver(f, S) = k[S]
  BY <1>7, AnyhowAddsUp, SumIs
<1>10. SumOver(g, P) = h[P]
  BY <1>1, <1>2, AnyhowAddsUp, SumIs
<1> QED  BY <1>8, <1>9, <1>10

\* A sum of naturals is one.
LEMMA SumOfNaturals ==
  ASSUME NEW S, IsFiniteSet(S), NEW g, \A x \in S : g[x] \in Nat
  PROVE  SumOver(g, S) \in Nat
<1>1. PICK h : AddsUpAnyhow(h, g, S)
  BY SumsExist
<1> DEFINE B == {T \in SUBSET S : h[T] \notin Nat}
<1>2. ASSUME B # {} PROVE FALSE
  <2>1. B \subseteq SUBSET S
    OBVIOUS
  <2>2. PICK T \in B : \A U \in SUBSET T : U # T => U \notin B
    <3> HIDE DEF B
    <3> QED  BY <1>2, <2>1, SmallestSet
  <2>3. T # {}
    <3>1. h[{}] \in Nat
      BY <1>1 DEF AddsUpAnyhow
    <3>2. h[T] \notin Nat
      OBVIOUS
    <3> QED  BY <3>1, <3>2
  <2>4. PICK x \in T : TRUE
    BY <2>3
  <2>5. T \in SUBSET S /\ T \ {x} \in SUBSET T /\ T \ {x} # T /\ g[x] \in Nat
    BY <2>1
  <2>6. h[T] = g[x] + h[T \ {x}]
    BY <1>1, <2>5 DEF AddsUpAnyhow
  <2>7. h[T \ {x}] \in Nat
    BY <2>2, <2>5
  <2> QED  BY <2>5, <2>6, <2>7
<1>3. h[S] \in Nat
  BY <1>2
<1> QED  BY <1>1, <1>3, AnyhowAddsUp, SumIs

\* A sum of larger terms is larger.
LEMMA SumGrows ==
  ASSUME NEW S, IsFiniteSet(S), NEW f, NEW g, \A x \in S : f[x] \in Int /\ g[x] \in Int /\ f[x] <= g[x]
  PROVE  SumOver(f, S) <= SumOver(g, S)
<1> DEFINE d == [x \in S |-> g[x] - f[x]]
<1>1. \A x \in S : d[x] \in Nat /\ d[x] \in Int /\ g[x] = f[x] + d[x]
  OBVIOUS
<1> HIDE DEF d
<1>2. SumOver(g, S) = SumOver(f, S) + SumOver(d, S)
  BY <1>1, SumsAdd
<1>3. SumOver(d, S) \in Nat
  BY <1>1, SumOfNaturals
<1>4. SumOver(f, S) \in Int
  BY SumType
<1> QED  BY <1>2, <1>3, <1>4

\* A sum of equal terms is a multiple.
LEMMA SumOfEquals ==
  ASSUME NEW S, IsFiniteSet(S), NEW c \in Int, NEW g, \A x \in S : g[x] = c
  PROVE  SumOver(g, S) = Cardinality(S) * c
<1> DEFINE h == [T \in SUBSET S |-> Cardinality(T) * c]
<1>1. \A T \in SUBSET S : IsFiniteSet(T) /\ Cardinality(T) \in Nat
  BY FS_Subset, FS_CardinalityType
<1>2. h[{}] = 0
  BY FS_EmptySet
<1>3. ASSUME NEW T \in SUBSET S, NEW x \in T
      PROVE  h[T] = g[x] + h[T \ {x}]
  <2>1. Cardinality(T \ {x}) = Cardinality(T) - 1
    BY <1>1, FS_RemoveElement
  <2> DEFINE n == Cardinality(T \ {x})
  <2>2. n \in Nat /\ Cardinality(T) = n + 1
    BY <1>1, <2>1
  <2> HIDE DEF n
  <2>3. (n + 1) * c = c + n * c
    BY <2>2
  <2> QED  BY <2>2, <2>3 DEF n
<1>4. h \in [SUBSET S -> Int]
  BY <1>1
<1> HIDE DEF h
<1>5. AddsUpAnyhow(h, g, S)
  BY <1>2, <1>3, <1>4 DEF AddsUpAnyhow
<1>6. SumOver(g, S) = h[S]
  BY <1>5, AnyhowAddsUp, SumIs
<1> QED  BY <1>6 DEF h

\* Sums of sums that differ by at most one in each term.
LEMMA SumNear ==
  ASSUME NEW S, IsFiniteSet(S), NEW f, NEW g,
         \A x \in S : f[x] \in Int /\ g[x] \in Int /\ f[x] <= g[x] + 1 /\ g[x] <= f[x] + 1
  PROVE  /\ SumOver(f, S) <= SumOver(g, S) + Cardinality(S)
         /\ SumOver(g, S) <= SumOver(f, S) + Cardinality(S)
<1> DEFINE one == [x \in S |-> 1]
           f1 == [x \in S |-> f[x] + 1]
           g1 == [x \in S |-> g[x] + 1]
<1>1. \A x \in S : one[x] = 1 /\ f1[x] = f[x] + one[x] /\ g1[x] = g[x] + one[x]
  OBVIOUS
<1>2. \A x \in S : /\ f[x] \in Int /\ g[x] \in Int /\ one[x] \in Int
                   /\ f1[x] \in Int /\ g1[x] \in Int /\ f[x] <= g1[x] /\ g[x] <= f1[x]
  OBVIOUS
<1> HIDE DEF one, f1, g1
<1>3. SumOver(one, S) = Cardinality(S)
  <2>1. SumOver(one, S) = Cardinality(S) * 1
    BY <1>1, SumOfEquals
  <2> QED  BY <2>1, FS_CardinalityType
<1>4. SumOver(f1, S) = SumOver(f, S) + SumOver(one, S)
  BY <1>1, <1>2, SumsAdd
<1>5. SumOver(g1, S) = SumOver(g, S) + SumOver(one, S)
  BY <1>1, <1>2, SumsAdd
<1>6. SumOver(f, S) <= SumOver(g1, S)
  BY <1>2, SumGrows
<1>7. SumOver(g, S) <= SumOver(f1, S)
  BY <1>2, SumGrows
<1> QED  BY <1>3, <1>4, <1>5, <1>6, <1>7

\* The sum over all members is that of the sums over the parts to which a key assigns them.
LEMMA SumOfParts ==
  ASSUME NEW S, IsFiniteSet(S), NEW D, IsFiniteSet(D), NEW g, \A x \in S : g[x] \in Int,
         NEW key, \A x \in S : key[x] \in D
  PROVE  SumOver([d \in D |-> SumOver(g, {x \in S : key[x] = d})], D) = SumOver(g, S)
<1> DEFINE Part(T, d) == {x \in T : key[x] = d}
           p(T) == [d \in D |-> SumOver(g, Part(T, d))]
           h == [T \in SUBSET S |-> SumOver(p(T), D)]
<1>1. ASSUME NEW T \in SUBSET S, NEW d \in D
      PROVE  IsFiniteSet(Part(T, d)) /\ p(T)[d] = SumOver(g, Part(T, d)) /\ p(T)[d] \in Int
  <2>1. IsFiniteSet(Part(T, d)) /\ \A x \in Part(T, d) : g[x] \in Int
    BY FS_Subset
  <2> HIDE DEF Part
  <2> QED  BY <2>1, SumType
<1>2. h[{}] = 0
  <2>1. \A d \in D : Part({}, d) = {}
    OBVIOUS
  <2>2. \A d \in D : p({})[d] = 0
    BY <2>1, SumOfNone
  <2> DEFINE q == p({})
  <2>3. \A d \in D : q[d] = 0
    BY <2>2
  <2> HIDE DEF q
  <2>4. SumOver(q, D) = 0
    BY <2>3, SumOfZeros
  <2> QED  BY <2>4 DEF q
<1>3. \A T \in SUBSET S : h[T] \in Int
  <2> SUFFICES ASSUME NEW T \in SUBSET S PROVE SumOver(p(T), D) \in Int
    OBVIOUS
  <2> DEFINE q == p(T)
  <2>1. \A d \in D : q[d] \in Int
    BY <1>1
  <2> HIDE DEF q
  <2>2. SumOver(q, D) \in Int
    BY <2>1, SumType
  <2> QED  BY <2>2 DEF q
<1>4. ASSUME NEW T \in SUBSET S, NEW x \in T
      PROVE  h[T] = g[x] + h[T \ {x}]
  <2> DEFINE U == T \ {x}
             k == key[x]
             q == p(T)
             r == p(U)
  <2>1. U \in SUBSET S /\ x \in S /\ k \in D /\ g[x] \in Int
    OBVIOUS
  <2>2. Part(T, k) \ {x} = Part(U, k) /\ x \in Part(T, k) /\ \A y \in Part(T, k) : g[y] \in Int
    OBVIOUS
  <2>3. IsFiniteSet(Part(T, k))
    BY <1>1, <2>1
  <2>4. SumOver(g, Part(T, k)) = g[x] + SumOver(g, Part(U, k))
    <3> HIDE DEF Part, U, k
    <3> QED  BY <2>2, <2>3, SumTakes
  <2>5. q[k] = g[x] + r[k]
    BY <2>1, <2>4
  <2>6. ASSUME NEW d \in D, d # k
        PROVE  q[d] = r[d]
    <3>1. Part(T, d) = Part(U, d)
      BY <2>6
    <3> QED  BY <3>1
  <2>7. \A d \in D : q[d] \in Int /\ r[d] \in Int
    BY <1>1, <2>1
  <2>8. h[T] = SumOver(q, D) /\ h[U] = SumOver(r, D)
    BY <2>1
  <2> HIDE DEF q, r, k, U, h
  <2>9. SumOver(q, D) = SumOver(r, D) - r[k] + q[k]
    <3>1. \A d \in D : r[d] \in Int /\ q[d] \in Int /\ (d # k => q[d] = r[d])
      BY <2>6, <2>7
    <3>2. k \in D
      BY <2>1
    <3> QED  BY <3>1, <3>2, SumChanges
  <2>10. SumOver(r, D) \in Int
    BY <2>7, SumType
  <2>11. h[T] = g[x] + h[U]
    BY <2>1, <2>5, <2>7, <2>8, <2>9, <2>10
  <2> QED  BY <2>11 DEF U
<1>5. h \in [SUBSET S -> Int]
  BY <1>3
<1>6. h[S] = SumOver([d \in D |-> SumOver(g, {x \in S : key[x] = d})], D)
  OBVIOUS
<1> HIDE DEF h, p, Part
<1>7. AddsUpAnyhow(h, g, S)
  BY <1>2, <1>4, <1>5 DEF AddsUpAnyhow
<1>8. SumOver(g, S) = h[S]
  BY <1>7, AnyhowAddsUp, SumIs
<1> QED  BY <1>6, <1>8

-----------------------------------------------------------------------------
\* A finite set of numbers has a largest one: of the sets of those above one of them, the
\* smallest is empty.
LEMMA LargestNumber ==
  ASSUME NEW S, IsFiniteSet(S), S \subseteq Int, S # {}
  PROVE  \E x \in S : \A y \in S : x >= y
<1> DEFINE Above(x) == {y \in S : y > x}
           B == {Above(x) : x \in S}
<1>1. B \subseteq SUBSET S /\ B # {}
  OBVIOUS
<1>2. PICK T \in B : \A U \in SUBSET T : U # T => U \notin B
  <2> HIDE DEF B
  <2> QED  BY <1>1, SmallestSet
<1>3. PICK x \in S : T = Above(x)
  OBVIOUS
<1>4. ASSUME NEW y \in S, ~(x >= y)
      PROVE  FALSE
  <2>1. y \in T /\ y \notin Above(y)
    BY <1>3, <1>4
  <2>2. Above(y) \in SUBSET T
    <3> SUFFICES ASSUME NEW z \in S, z > y PROVE z > x
      BY <1>3
    <3> QED  BY <1>4
  <2>3. Above(y) \in B
    OBVIOUS
  <2> HIDE DEF Above, B
  <2> QED  BY <1>2, <2>1, <2>2, <2>3
<1> QED  BY <1>4

\* And a smallest one.
LEMMA SmallestNumber ==
  ASSUME NEW S, IsFiniteSet(S), S \subseteq Int, S # {}
  PROVE  \E x \in S : \A y \in S : x <= y
<1> DEFINE Below(x) == {y \in S : y < x}
           B == {Below(x) : x \in S}
<1>1. B \subseteq SUBSET S /\ B # {}
  OBVIOUS
<1>2. PICK T \in B : \A U \in SUBSET T : U # T => U \notin B
  <2> HIDE DEF B
  <2> QED  BY <1>1, SmallestSet
<1>3. PICK x \in S : T = Below(x)
  OBVIOUS
<1>4. ASSUME NEW y \in S, ~(x <= y)
      PROVE  FALSE
  <2>1. y \in T /\ y \notin Below(y)
    BY <1>3, <1>4
  <2>2. Below(y) \in SUBSET T
    <3> SUFFICES ASSUME NEW z \in S, z < y PROVE z < x
      BY <1>3
    <3> QED  BY <1>4
  <2>3. Below(y) \in B
    OBVIOUS
  <2> HIDE DEF Below, B
  <2> QED  BY <1>2, <2>1, <2>2, <2>3
<1> QED  BY <1>4
=============================================================================
