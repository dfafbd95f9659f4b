------------------------------ MODULE Arithmetic ------------------------------
(***************************************************************************)
(* Facts about numbers that several proofs use: remainders, for the        *)
(* indices of the ring, the counters of the feed and the quantities of the *)
(* book, which wrap; the least of a set of naturals; and sums over finite  *)
(* sets, for what levels, orders and trades add up to.  The induction      *)
(* behind the sums speaks of a set G of the cases that hold instead of a   *)
(* predicate, so that it needs no operator as a parameter.                 *)
(***************************************************************************)
EXTENDS Integers, Functions, FiniteSetTheorems, WellFoundedInduction, TLAPS

\* A set of naturals has a least element.
LEMMA LeastNatural ==
  ASSUME NEW T, T \subseteq Nat, T # {}
  PROVE  \E x \in T : \A y \in T : x <= y
<1>1. \E x \in T : \A y \in T : <<y, x>> \notin OpToRel(<, Nat)
  BY NatLessThanWellFounded, WFMin, Zenon
<1>2. ASSUME NEW x \in T, NEW y \in T, <<y, x>> \notin OpToRel(<, Nat)
      PROVE  x <= y
  BY <1>2 DEF OpToRel
<1>. QED
  BY <1>1, <1>2

\* Quotient and remainder make up the number.
LEMMA Parts ==
  ASSUME NEW c \in Nat \ {0}, NEW a \in Int
  PROVE  a = c * (a \div c) + (a % c) /\ a % c \in 0 .. c - 1 /\ a \div c \in Int
OBVIOUS

\* ... and there is only one way to do so.
LEMMA PartsOnly ==
  ASSUME NEW c \in Nat \ {0}, NEW k \in Int, NEW r \in 0 .. c - 1
  PROVE  (c * k + r) % c = r
<1>. DEFINE a == c * k + r
            d == k - (a \div c)
<1>1. c * k \in Int /\ a \in Int
  OBVIOUS
<1>2. a = c * (a \div c) + (a % c) /\ a % c \in 0 .. c - 1 /\ a \div c \in Int
  BY <1>1, Parts
<1>3. c * d = c * k - c * (a \div c) /\ d \in Int
  BY <1>2
<1>4. c * d = (a % c) - r
  <2>. HIDE DEF d
  <2>. QED BY <1>1, <1>2, <1>3
<1>5. -c < c * d /\ c * d < c
  BY <1>2, <1>4
<1>6. d = 0
  <2>. HIDE DEF d, a
  <2>1. ~(d >= 1)
    BY <1>3, <1>5
  <2>2. ~(d <= -1)
    BY <1>3, <1>5
  <2>. QED BY <2>1, <2>2, <1>3
<1>. QED
  <2>. HIDE DEF d
  <2>1. c * d = 0
    BY <1>6
  <2>. QED BY <1>2, <1>4, <2>1

\* Numbers less than c apart differ modulo c if they differ.
LEMMA ModIsUnique ==
  ASSUME NEW c \in Nat \ {0}, NEW a \in Int, NEW b \in Int, b <= a, a - b < c, a % c = b % c
  PROVE  a = b
<1>. DEFINE d == (a \div c) - (b \div c)
<1>1. /\ a = c * (a \div c) + (a % c) /\ a \div c \in Int
      /\ b = c * (b \div c) + (b % c) /\ b \div c \in Int
  BY Parts
<1>2. c * d = c * (a \div c) - c * (b \div c) /\ d \in Int
  BY <1>1
<1>3. c * d = a - b
  <2>. HIDE DEF d
  <2>1. a % c \in Int /\ b % c \in Int
    BY Parts
  <2>. QED BY <1>1, <1>2, <2>1
<1>4. d = 0
  <2>. HIDE DEF d
  <2>1. ~(d >= 1)
    BY <1>2, <1>3
  <2>2. ~(d <= -1)
    BY <1>2, <1>3
  <2>. QED BY <2>1, <2>2, <1>2
<1>. QED
  BY <1>3, <1>4

\* A remainder is its own remainder.
LEMMA ModOfSmall ==
  ASSUME NEW c \in Nat \ {0}, NEW r \in 0 .. c - 1
  PROVE  r % c = r
<1>1. (c * 0 + r) % c = r
  BY PartsOnly
<1>2. c * 0 + r = r
  OBVIOUS
<1>. QED
  BY <1>1, <1>2

\* Multiples of c do not change a remainder.
LEMMA ModOfMultiple ==
  ASSUME NEW c \in Nat \ {0}, NEW a \in Int, NEW k \in Int
  PROVE  (a + c * k) % c = a % c
<1>1. a = c * (a \div c) + (a % c) /\ a % c \in 0 .. c - 1 /\ a \div c \in Int
  BY Parts
<1>2. c * ((a \div c) + k) = c * (a \div c) + c * k /\ (a \div c) + k \in Int
  BY <1>1
<1>3. a + c * k = c * ((a \div c) + k) + (a % c)
  BY <1>1, <1>2
<1>4. (c * ((a \div c) + k) + (a % c)) % c = a % c
  BY <1>1, <1>2, PartsOnly
<1>. QED
  BY <1>3, <1>4

\* One may take remainders before adding.
LEMMA ModOfSum ==
  ASSUME NEW c \in Nat \ {0}, NEW a \in Int, NEW b \in Int
  PROVE  ((a % c) + b) % c = (a + b) % c
<1>1. a = c * (a \div c) + (a % c) /\ a % c \in 0 .. c - 1 /\ a \div c \in Int
  BY Parts
<1>. DEFINE r == (a % c) + b
            k == a \div c
<1>2. a + b = r + c * k /\ r \in Int /\ k \in Int
  BY <1>1
<1>3. (r + c * k) % c = r % c
  <2>. HIDE DEF r, k
  <2>. QED  BY <1>2, ModOfMultiple
<1>. QED
  BY <1>2, <1>3

\* The next remainder is the remainder of the next number.
LEMMA ModFollows ==
  ASSUME NEW c \in Nat \ {0}, NEW a \in Int
  PROVE  ((a % c) + 1) % c = (a + 1) % c
<1>1. 1 \in Int
  OBVIOUS
<1>. QED
  BY <1>1, ModOfSum, Zenon

\* Once around is where it was.
LEMMA ModAround ==
  ASSUME NEW c \in Nat \ {0}, NEW a \in Int
  PROVE  (a + c) % c = a % c
<1>1. 1 \in Int /\ c * 1 = c
  OBVIOUS
<1>2. (a + c * 1) % c = a % c
  BY <1>1, ModOfMultiple, Zenon
<1>. QED
  BY <1>1, <1>2

-----------------------------------------------------------------------------
(* Induction over finite sets and over the naturals.                       *)

\* A set G that has every finite set whose smaller sets it has, has all of them.
LEMMA SetInduction ==
  ASSUME NEW S, IsFiniteSet(S), NEW G,
         \A T \in SUBSET S : (\A x \in T : T \ {x} \in G) => T \in G
  PROVE  \A T \in SUBSET S : T \in G
<1>. DEFINE Bad   == {T \in SUBSET S : T \notin G}
            Sizes == {n \in Nat : \E T \in Bad : Cardinality(T) = n}
<1>1. ASSUME Bad # {}
      PROVE  FALSE
  <2>1. \A T \in Bad : IsFiniteSet(T) /\ Cardinality(T) \in Nat
    BY FS_Subset, FS_CardinalityType
  <2>2. Sizes # {} /\ Sizes \subseteq Nat
    BY <1>1, <2>1
  <2>3. PICK n \in Sizes : \A m \in Sizes : n <= m
    <3>. HIDE DEF Sizes
    <3>. QED BY <2>2, LeastNatural
  <2>4. PICK T \in Bad : Cardinality(T) = n
    OBVIOUS
  <2>5. PICK x \in T : T \ {x} \notin G
    BY <2>4
  <2>6. /\ T \ {x} \in Bad
        /\ Cardinality(T \ {x}) = n - 1
    BY <2>1, <2>4, <2>5, FS_RemoveElement
  <2>7. n - 1 \in Sizes
    BY <2>1, <2>6
  <2>. QED
    BY <2>2, <2>3, <2>7
<1>. QED
  BY <1>1

\* A set of naturals that has 0 and goes on has them all.
LEMMA CountingUp ==
  ASSUME NEW G, 0 \in G, \A n \in Nat : n \in G => n + 1 \in G
  PROVE  \A n \in Nat : n \in G
<1>. DEFINE Bad == {n \in Nat : n \notin G}
<1>1. ASSUME Bad # {}
      PROVE  FALSE
  <2>1. PICK n \in Bad : \A m \in Bad : n <= m
    <3>1. Bad \subseteq Nat
      OBVIOUS
    <3>. HIDE DEF Bad
    <3>. QED BY <1>1, <3>1, LeastNatural
  <2>2. n # 0 /\ n - 1 \in Nat /\ n - 1 \notin Bad
    BY <2>1
  <2>3. (n - 1) + 1 = n
    BY <2>1
  <2>. QED
    BY <2>1, <2>2, <2>3
<1>. QED
  BY <1>1

\* A finite set of integers has a least and a greatest element.
LEMMA FiniteHasEnds ==
  ASSUME NEW S, IsFiniteSet(S), S \subseteq Int, S # {}
  PROVE  (\E x \in S : \A y \in S : x <= y) /\ (\E x \in S : \A y \in S : y <= x)
<1>. DEFINE Ends(T) == (\E x \in T : \A y \in T : x <= y) /\ (\E x \in T : \A y \in T : y <= x)
            G == {T \in SUBSET S : T # {} => Ends(T)}
<1>1. ASSUME NEW T \in SUBSET S, \A x \in T : T \ {x} \in G
      PROVE  T \in G
  <2>1. ASSUME T # {}
        PROVE  Ends(T)
    <3>1. PICK x \in T : TRUE
      BY <2>1
    <3>2. CASE T \ {x} = {}
      <4>1. \A y \in T : y = x
        BY <3>2
      <4>. QED BY <4>1
    <3>3. CASE T \ {x} # {}
      <4>1. Ends(T \ {x})
        BY <1>1, <3>3
      <4>2. PICK a \in T \ {x} : \A y \in T \ {x} : a <= y
        BY <4>1
      <4>3. PICK b \in T \ {x} : \A y \in T \ {x} : y <= b
        BY <4>1
      <4>4. \A y \in T : (IF a <= x THEN a ELSE x) <= y
        BY <4>2
      <4>5. \A y \in T : y <= (IF x <= b THEN b ELSE x)
        BY <4>3
      <4>. QED BY <4>4, <4>5
    <3>. QED BY <3>2, <3>3
  <2>. QED BY <2>1
<1>2. \A T \in SUBSET S : T \in G
  <2>. HIDE DEF G
  <2>. QED BY <1>1, SetInduction
<1>. QED
  BY <1>2

-----------------------------------------------------------------------------
(* Sums over finite sets.                                                  *)

\* The recursive function SumFunctionOnSet evaluates: h adds up f on the
\* subsets of S.
AnyOf(T) == CHOOSE x \in T : TRUE

Adds(f, S, h) ==
  h = [T \in SUBSET S |-> IF T = {} THEN 0 ELSE f[AnyOf(T)] + h[T \ {AnyOf(T)}]]

LEMMA AnyOfIsIn ==
  ASSUME NEW T, T # {}
  PROVE  AnyOf(T) \in T
BY DEF AnyOf

\* There is such a function ...
LEMMA AddsExists ==
  ASSUME NEW f, NEW S, IsFiniteSet(S)
  PROVE  \E h : Adds(f, S, h)
<1>. DEFINE Body(h, T) == IF T = {} THEN 0 ELSE f[AnyOf(T)] + h[T \ {AnyOf(T)}]
            UpTo(h, n) == \A T \in SUBSET S : Cardinality(T) <= n => h[T] = Body(h, T)
            G == {n \in Nat : \E h : h = [T \in SUBSET S |-> h[T]] /\ UpTo(h, n)}
<1>1. \A T \in SUBSET S : /\ IsFiniteSet(T) /\ Cardinality(T) \in Nat
                          /\ Cardinality(T) <= Cardinality(S)
                          /\ T = {} <=> Cardinality(T) = 0
  BY FS_Subset, FS_CardinalityType, FS_EmptySet
<1>2. \A T \in SUBSET S : T # {} =>
        T \ {AnyOf(T)} \in SUBSET S /\ Cardinality(T \ {AnyOf(T)}) = Cardinality(T) - 1
  BY <1>1, AnyOfIsIn, FS_RemoveElement
<1>3. 0 \in G
  <2>. DEFINE h == [T \in SUBSET S |-> 0]
  <2>1. h = [T \in SUBSET S |-> h[T]]
    OBVIOUS
  <2>2. UpTo(h, 0)
    BY <1>1
  <2>. HIDE DEF h, UpTo
  <2>. QED BY <2>1, <2>2
<1>4. ASSUME NEW n \in Nat, n \in G
      PROVE  n + 1 \in G
  <2>1. PICK h : h = [T \in SUBSET S |-> h[T]] /\ UpTo(h, n)
    BY <1>4
  <2>. DEFINE k == [T \in SUBSET S |-> IF Cardinality(T) = n + 1 THEN Body(h, T) ELSE h[T]]
  <2>2. k = [T \in SUBSET S |-> k[T]]
    OBVIOUS
  <2>3. ASSUME NEW T \in SUBSET S, Cardinality(T) <= n + 1
        PROVE  k[T] = Body(k, T)
    <3>0. Cardinality(T) \in Nat /\ (T = {} <=> Cardinality(T) = 0)
      BY <1>1
    <3>1. CASE T = {}
      <4>0. Cardinality(T) = 0 /\ 0 <= n /\ n + 1 # 0
        BY <3>1, <3>0
      <4>1. k[T] = h[T]
        BY <4>0
      <4>3. h[T] = Body(h, T)
        <5>. HIDE DEF k, Body
        <5>. QED BY <4>0, <2>1
      <4>2. Body(h, T) = 0 /\ Body(k, T) = 0
        <5>. HIDE DEF k
        <5>. QED BY <3>1
      <4>. HIDE DEF k, Body
      <4>. QED BY <4>1, <4>2, <4>3
    <3>2. CASE T # {}
      <4>. DEFINE U == T \ {AnyOf(T)}
      <4>1. U \in SUBSET S /\ Cardinality(U) = Cardinality(T) - 1
        BY <1>2, <3>2
      <4>2. k[U] = h[U]
        <5>. HIDE DEF U
        <5>. QED BY <4>1, <3>0, <2>3
      <4>3. k[T] = Body(h, T)
        <5>1. CASE Cardinality(T) = n + 1
          BY <5>1
        <5>2. CASE Cardinality(T) # n + 1
          <6>1. Cardinality(T) <= n
            BY <5>2, <3>0, <2>3
          <6>. QED BY <5>2, <6>1, <2>1
        <5>. QED BY <5>1, <5>2
      <4>4. Body(h, T) = f[AnyOf(T)] + h[U] /\ Body(k, T) = f[AnyOf(T)] + k[U]
        <5>. HIDE DEF k
        <5>. QED BY <3>2
      <4>. HIDE DEF k, U, Body
      <4>. QED
        BY <4>2, <4>3, <4>4
    <3>. QED
      BY <3>1, <3>2
  <2>4. UpTo(k, n + 1)
    BY <2>3
  <2>. HIDE DEF k, UpTo
  <2>. QED
    BY <2>2, <2>4
<1>5. Cardinality(S) \in G
  <2>1. Cardinality(S) \in Nat
    BY <1>1
  <2>. HIDE DEF G
  <2>. QED BY <1>3, <1>4, <2>1, CountingUp
<1>6. PICK h : h = [T \in SUBSET S |-> h[T]] /\ UpTo(h, Cardinality(S))
  BY <1>5
<1>7. \A T \in SUBSET S : h[T] = Body(h, T)
  BY <1>1, <1>6
<1>. HIDE DEF Body
<1>8. h = [T \in SUBSET S |-> Body(h, T)]
  BY <1>6, <1>7
<1>. QED
  BY <1>8 DEF Adds, Body

\* ... and it is the only one, whatever larger set it is made for.
LEMMA AddsAgree ==
  ASSUME NEW f, NEW S, NEW R, IsFiniteSet(S), NEW h, NEW k,
         Adds(f, S, h), Adds(f, R, k), S \subseteq R
  PROVE  \A T \in SUBSET S : h[T] = k[T]
<1>. DEFINE G == {T \in SUBSET S : h[T] = k[T]}
<1>1. ASSUME NEW T \in SUBSET S, \A x \in T : T \ {x} \in G
      PROVE  T \in G
  <2>1. CASE T = {}
    BY <2>1 DEF Adds
  <2>2. CASE T # {}
    <3>1. T \ {AnyOf(T)} \in G
      BY <1>1, <2>2, AnyOfIsIn
    <3>2. h[T] = f[AnyOf(T)] + h[T \ {AnyOf(T)}]
      BY <2>2 DEF Adds
    <3>3. k[T] = f[AnyOf(T)] + k[T \ {AnyOf(T)}]
      BY <2>2 DEF Adds
    <3>. QED BY <3>1, <3>2, <3>3
  <2>. QED BY <2>1, <2>2
<1>2. \A T \in SUBSET S : T \in G
  <2>. HIDE DEF G
  <2>. QED BY <1>1, SetInduction
<1>. QED
  BY <1>2

LEMMA SumIsAdded ==
  ASSUME NEW f, NEW S, IsFiniteSet(S)
  PROVE  \E h : Adds(f, S, h) /\ \A T \in SUBSET S : SumFunctionOnSet(f, T) = h[T]
<1>1. \A T : SumFunctionOnSet(f, T) = (CHOOSE h : Adds(f, T, h))[T]
  BY DEF SumFunctionOnSet, FoldFunctionOnSet, MapThenFoldSet, Adds, AnyOf
<1>2. PICK h : Adds(f, S, h)
  BY AddsExists
<1>3. ASSUME NEW T \in SUBSET S
      PROVE  SumFunctionOnSet(f, T) = h[T]
  <2>1. IsFiniteSet(T)
    BY FS_Subset
  <2>. DEFINE k == CHOOSE g : Adds(f, T, g)
  <2>2. Adds(f, T, k)
    BY <2>1, AddsExists
  <2>. HIDE DEF k
  <2>3. k[T] = h[T]
    BY <2>1, <2>2, <1>2, AddsAgree
  <2>. QED
    BY <2>3, <1>1 DEF k
<1>. QED
  BY <1>2, <1>3

\* The sum over no elements.
LEMMA SumOfNone ==
  ASSUME NEW f
  PROVE  SumFunctionOnSet(f, {}) = 0
<1>1. IsFiniteSet({})
  BY FS_EmptySet
<1>2. PICK h : Adds(f, {}, h) /\ \A T \in SUBSET {} : SumFunctionOnSet(f, T) = h[T]
  BY <1>1, SumIsAdded
<1>. QED
  BY <1>2 DEF Adds

LEMMA SumTakesAny ==
  ASSUME NEW f, NEW S, IsFiniteSet(S), S # {}
  PROVE  SumFunctionOnSet(f, S) = f[AnyOf(S)] + SumFunctionOnSet(f, S \ {AnyOf(S)})
<1>1. PICK h : Adds(f, S, h) /\ \A T \in SUBSET S : SumFunctionOnSet(f, T) = h[T]
  BY SumIsAdded
<1>2. h[S] = f[AnyOf(S)] + h[S \ {AnyOf(S)}]
  BY <1>1 DEF Adds
<1>. QED
  BY <1>1, <1>2

\* A sum of integers is one, and each of them may be taken out of it.
LEMMA SumTakes ==
  ASSUME NEW f, NEW S, IsFiniteSet(S), \A x \in S : f[x] \in Int
  PROVE  /\ SumFunctionOnSet(f, S) \in Int
         /\ \A x \in S : SumFunctionOnSet(f, S) = f[x] + SumFunctionOnSet(f, S \ {x})
<1>. DEFINE Sum(T) == SumFunctionOnSet(f, T)
            G == {T \in SUBSET S :
                    /\ Sum(T) \in Int
                    /\ \A x \in T : Sum(T \ {x}) \in Int /\ Sum(T) = f[x] + Sum(T \ {x})}
<1>. HIDE DEF Sum
<1>1. ASSUME NEW T \in SUBSET S, \A x \in T : T \ {x} \in G
      PROVE  T \in G
  <2>1. CASE T = {}
    BY <2>1, SumOfNone DEF Sum
  <2>2. CASE T # {}
    <3>. DEFINE c == AnyOf(T)
    <3>1. c \in T
      BY <2>2, AnyOfIsIn
    <3>2. Sum(T) = f[c] + Sum(T \ {c})
      BY <2>2, SumTakesAny, FS_Subset DEF Sum
    <3>. HIDE DEF c
    <3>3. Sum(T) \in Int
      BY <3>1, <3>2, <1>1
    <3>4. ASSUME NEW x \in T, x # c
          PROVE  Sum(T) = f[x] + Sum(T \ {x})
      <4>1. Sum(T \ {c}) = f[x] + Sum((T \ {c}) \ {x})
        BY <3>1, <3>4, <1>1
      <4>2. Sum(T \ {x}) = f[c] + Sum((T \ {x}) \ {c})
        BY <3>1, <3>4, <1>1
      <4>3. Sum((T \ {x}) \ {c}) = Sum((T \ {c}) \ {x})
        <5>1. (T \ {x}) \ {c} = (T \ {c}) \ {x}
          OBVIOUS
        <5>. QED BY <5>1, Zenon
      <4>4. Sum((T \ {c}) \ {x}) \in Int
        BY <3>1, <3>4, <1>1
      <4>5. f[x] \in Int /\ f[c] \in Int
        BY <3>1
      <4>. QED
        BY <4>1, <4>2, <4>3, <4>4, <4>5, <3>2
    <3>5. ASSUME NEW x \in T
          PROVE  Sum(T) = f[x] + Sum(T \ {x}) /\ Sum(T \ {x}) \in Int
      BY <3>2, <3>4, <1>1
    <3>. QED
      BY <3>3, <3>5
  <2>. QED BY <2>1, <2>2
<1>2. \A T \in SUBSET S : T \in G
  <2>. HIDE DEF G
  <2>. QED BY <1>1, SetInduction
<1>3. S \in G
  BY <1>2
<1>. QED
  BY <1>3 DEF Sum

\* An element more.
LEMMA SumAddsOne ==
  ASSUME NEW f, NEW S, IsFiniteSet(S), NEW x, x \notin S, \A y \in S \cup {x} : f[y] \in Int
  PROVE  SumFunctionOnSet(f, S \cup {x}) = f[x] + SumFunctionOnSet(f, S)
<1>1. IsFiniteSet(S \cup {x}) /\ (S \cup {x}) \ {x} = S
  BY FS_AddElement
<1>. QED
  BY <1>1, SumTakes

LEMMA SumOfZeros ==
  ASSUME NEW f, NEW S, IsFiniteSet(S), \A x \in S : f[x] = 0
  PROVE  SumFunctionOnSet(f, S) = 0
<1>. DEFINE G == {T \in SUBSET S : SumFunctionOnSet(f, T) = 0}
<1>1. ASSUME NEW T \in SUBSET S, \A x \in T : T \ {x} \in G
      PROVE  T \in G
  <2>1. CASE T = {}
    BY <2>1, SumOfNone
  <2>2. CASE T # {}
    <3>1. PICK x \in T : TRUE
      BY <2>2
    <3>2. IsFiniteSet(T) /\ \A y \in T : f[y] \in Int
      BY FS_Subset
    <3>3. SumFunctionOnSet(f, T) = f[x] + SumFunctionOnSet(f, T \ {x})
      BY <3>2, SumTakes
    <3>4. SumFunctionOnSet(f, T \ {x}) = 0 /\ f[x] = 0
      BY <1>1
    <3>. QED BY <3>3, <3>4
  <2>. QED BY <2>1, <2>2
<1>2. \A T \in SUBSET S : T \in G
  <2>. HIDE DEF G
  <2>. QED BY <1>1, SetInduction
<1>. QED
  BY <1>2

\* Two functions that agree on the set.
LEMMA SumOfSame ==
  ASSUME NEW f, NEW g, NEW S, IsFiniteSet(S), \A x \in S : f[x] \in Int /\ g[x] = f[x]
  PROVE  SumFunctionOnSet(g, S) = SumFunctionOnSet(f, S)
<1>. DEFINE G == {T \in SUBSET S : SumFunctionOnSet(g, T) = SumFunctionOnSet(f, T)}
<1>1. ASSUME NEW T \in SUBSET S, \A x \in T : T \ {x} \in G
      PROVE  T \in G
  <2>1. CASE T = {}
    BY <2>1, SumOfNone
  <2>2. ASSUME NEW x \in T
        PROVE  SumFunctionOnSet(g, T) = SumFunctionOnSet(f, T)
    <3>1. IsFiniteSet(T)
      BY FS_Subset
    <3>2. \A y \in T : f[y] \in Int /\ g[y] \in Int
      OBVIOUS
    <3>3. SumFunctionOnSet(f, T) = f[x] + SumFunctionOnSet(f, T \ {x})
      BY <3>1, <3>2, SumTakes
    <3>4. SumFunctionOnSet(g, T) = g[x] + SumFunctionOnSet(g, T \ {x})
      BY <3>1, <3>2, SumTakes
    <3>. QED BY <3>3, <3>4, <1>1
  <2>. QED BY <2>1, <2>2
<1>2. \A T \in SUBSET S : T \in G
  <2>. HIDE DEF G
  <2>. QED BY <1>1, SetInduction
<1>. QED
  BY <1>2

\* Only what f is at x changes.
LEMMA SumChangesAt ==
  ASSUME NEW f, NEW g, NEW S, IsFiniteSet(S), NEW x \in S,
         \A y \in S : f[y] \in Int /\ g[y] \in Int,
         \A y \in S \ {x} : g[y] = f[y]
  PROVE  SumFunctionOnSet(g, S) = SumFunctionOnSet(f, S) + g[x] - f[x]
<1>1. IsFiniteSet(S \ {x})
  BY FS_RemoveElement
<1>2. SumFunctionOnSet(g, S \ {x}) = SumFunctionOnSet(f, S \ {x})
  BY <1>1, SumOfSame
<1>3. SumFunctionOnSet(g, S) = g[x] + SumFunctionOnSet(g, S \ {x})
  BY SumTakes
<1>4. SumFunctionOnSet(f, S) = f[x] + SumFunctionOnSet(f, S \ {x})
  BY SumTakes
<1>5. SumFunctionOnSet(f, S \ {x}) \in Int
  BY <1>1, SumTakes
<1>6. f[x] \in Int /\ g[x] \in Int
  OBVIOUS
<1>. QED
  BY <1>2, <1>3, <1>4, <1>5, <1>6

\* Sums of what is no less.
LEMMA SumIsMonotonic ==
  ASSUME NEW f, NEW g, NEW S, IsFiniteSet(S),
         \A x \in S : f[x] \in Int /\ g[x] \in Int /\ f[x] <= g[x]
  PROVE  SumFunctionOnSet(f, S) <= SumFunctionOnSet(g, S)
<1>. DEFINE F(T) == SumFunctionOnSet(f, T)
            H(T) == SumFunctionOnSet(g, T)
            G == {T \in SUBSET S : F(T) <= H(T)}
<1>. HIDE DEF F, H
<1>1. ASSUME NEW T \in SUBSET S, \A x \in T : T \ {x} \in G
      PROVE  T \in G
  <2>1. CASE T = {}
    BY <2>1, SumOfNone DEF F, H
  <2>2. ASSUME NEW x \in T
        PROVE  F(T) <= H(T)
    <3>1. IsFiniteSet(T) /\ IsFiniteSet(T \ {x})
      BY FS_Subset
    <3>2. F(T) = f[x] + F(T \ {x}) /\ F(T \ {x}) \in Int
      BY <3>1, SumTakes DEF F
    <3>3. H(T) = g[x] + H(T \ {x}) /\ H(T \ {x}) \in Int
      BY <3>1, SumTakes DEF H
    <3>4. F(T \ {x}) <= H(T \ {x})
      BY <1>1
    <3>. QED BY <3>2, <3>3, <3>4
  <2>. QED BY <2>1, <2>2
<1>2. \A T \in SUBSET S : T \in G
  <2>. HIDE DEF G
  <2>. QED BY <1>1, SetInduction
<1>. QED
  BY <1>2 DEF F, H

\* A sum of naturals is one, and no less than any part of it.
LEMMA SumOfNaturals ==
  ASSUME NEW f, NEW S, IsFiniteSet(S), \A x \in S : f[x] \in Nat
  PROVE  /\ SumFunctionOnSet(f, S) \in Nat
         /\ \A T \in SUBSET S : SumFunctionOnSet(f, T) <= SumFunctionOnSet(f, S)
<1>. DEFINE Sum(T) == SumFunctionOnSet(f, T)
            G == {T \in SUBSET S : Sum(T) \in Nat /\ \A U \in SUBSET T : Sum(U) <= Sum(T)}
<1>. HIDE DEF Sum
<1>1. ASSUME NEW T \in SUBSET S, \A x \in T : T \ {x} \in G
      PROVE  T \in G
  <2>1. CASE T = {}
    BY <2>1, SumOfNone DEF Sum
  <2>2. ASSUME NEW x \in T
        PROVE  Sum(T) \in Nat
    <3>1. IsFiniteSet(T)
      BY FS_Subset
    <3>2. Sum(T) = f[x] + Sum(T \ {x})
      BY <3>1, SumTakes DEF Sum
    <3>. QED BY <3>2, <1>1
  <2>3. ASSUME NEW U \in SUBSET T, U # T
        PROVE  Sum(U) <= Sum(T)
    <3>1. PICK x \in T : x \notin U
      BY <2>3
    <3>2. IsFiniteSet(T) /\ U \in SUBSET (T \ {x})
      BY <3>1, FS_Subset
    <3>3. Sum(T) = f[x] + Sum(T \ {x})
      BY <3>1, <3>2, SumTakes DEF Sum
    <3>4. Sum(U) <= Sum(T \ {x}) /\ Sum(T \ {x}) \in Nat /\ f[x] \in Nat /\ Sum(U) \in Int
      <4>1. Sum(U) \in Int
        BY <3>2, FS_Subset, SumTakes DEF Sum
      <4>. QED BY <3>1, <3>2, <1>1, <4>1
    <3>. QED BY <3>3, <3>4
  <2>4. Sum(T) \in Nat
    BY <2>1, <2>2
  <2>. QED BY <2>3, <2>4
<1>2. \A T \in SUBSET S : T \in G
  <2>. HIDE DEF G
  <2>. QED BY <1>1, SetInduction
<1>3. S \in G
  BY <1>2
<1>. QED
  BY <1>3 DEF Sum

\* The parts of a sum.
LEMMA SumOfParts ==
  ASSUME NEW f, NEW S, IsFiniteSet(S), NEW R, IsFiniteSet(R), S \cap R = {},
         \A x \in S \cup R : f[x] \in Int
  PROVE  SumFunctionOnSet(f, S \cup R) = SumFunctionOnSet(f, S) + SumFunctionOnSet(f, R)
<1>. DEFINE Sum(T) == SumFunctionOnSet(f, T)
            G == {T \in SUBSET R : Sum(S \cup T) = Sum(S) + Sum(T)}
<1>0. Sum(S) \in Int
  BY SumTakes
<1>. HIDE DEF Sum
<1>1. ASSUME NEW T \in SUBSET R, \A x \in T : T \ {x} \in G
      PROVE  T \in G
  <2>1. CASE T = {}
    <3>1. Sum(S \cup T) = Sum(S)
      <4>1. S \cup T = S
        BY <2>1
      <4>. QED BY <4>1, Zenon
    <3>2. Sum(T) = 0
      BY <2>1, SumOfNone DEF Sum
    <3>. QED BY <3>1, <3>2, <1>0
  <2>2. ASSUME NEW x \in T
        PROVE  Sum(S \cup T) = Sum(S) + Sum(T)
    <3>1. IsFiniteSet(T) /\ IsFiniteSet(T \ {x}) /\ IsFiniteSet(S \cup T)
      BY FS_Subset, FS_Union
    <3>2. Sum(T) = f[x] + Sum(T \ {x}) /\ Sum(T \ {x}) \in Int
      BY <3>1, SumTakes DEF Sum
    <3>3. Sum((S \cup T) \ {x}) = Sum(S \cup (T \ {x}))
      <4>1. (S \cup T) \ {x} = S \cup (T \ {x})
        OBVIOUS
      <4>. QED BY <4>1, Zenon
    <3>4. Sum(S \cup T) = f[x] + Sum((S \cup T) \ {x})
      BY <3>1, SumTakes DEF Sum
    <3>5. Sum(S \cup (T \ {x})) = Sum(S) + Sum(T \ {x}) /\ f[x] \in Int
      BY <1>1
    <3>. QED BY <3>2, <3>3, <3>4, <3>5, <1>0
  <2>. QED BY <2>1, <2>2
<1>2. \A T \in SUBSET R : T \in G
  <2>. HIDE DEF G
  <2>. QED BY <1>1, SetInduction
<1>3. R \in G
  BY <1>2
<1>. QED
  BY <1>3 DEF Sum

\* SumFunction adds up all values of a function.
LEMMA SumOfAll ==
  ASSUME NEW f, NEW S, IsFiniteSet(S), \A x \in S : f[x] \in Int
  PROVE  SumFunction([x \in S |-> f[x]]) = SumFunctionOnSet(f, S)
<1>. DEFINE g == [x \in S |-> f[x]]
<1>1. SumFunctionOnSet(g, S) = SumFunctionOnSet(f, S)
  <2>1. \A x \in S : f[x] \in Int /\ g[x] = f[x]
    OBVIOUS
  <2>. HIDE DEF g
  <2>. QED BY <2>1, SumOfSame
<1>2. DOMAIN g = S
  OBVIOUS
<1>. HIDE DEF g
<1>3. SumFunction(g) = SumFunctionOnSet(g, S)
  BY <1>2, Zenon DEF SumFunction
<1>. QED
  BY <1>1, <1>3 DEF g

\* The elements of a sequence are finitely many.
LEMMA RangeIsFinite ==
  ASSUME NEW f, NEW S, IsFiniteSet(S), f = [x \in S |-> f[x]]
  PROVE  IsFiniteSet({f[x] : x \in S})
<1>. DEFINE T == {f[x] : x \in S}
<1>1. f \in Surjection(S, T)
  BY DEF Surjection
<1>. HIDE DEF T
<1>2. IsFiniteSet(T)
  BY <1>1, FS_Surjection
<1>. QED
  BY <1>2 DEF T

-----------------------------------------------------------------------------
(* Sums kept up to date modulo c: t is the sum before a change.            *)

LEMMA TotalOfOneMore ==
  ASSUME NEW c \in Nat \ {0}, NEW f, NEW g, NEW S, IsFiniteSet(S), NEW x, x \notin S,
         \A y \in S : f[y] \in Int /\ g[y] = f[y], g[x] \in Int,
         NEW t, t = SumFunctionOnSet(f, S) % c
  PROVE  (t + g[x]) % c = SumFunctionOnSet(g, S \cup {x}) % c
<1>1. SumFunctionOnSet(g, S) = SumFunctionOnSet(f, S)
  BY SumOfSame
<1>2. \A y \in S \cup {x} : g[y] \in Int
  OBVIOUS
<1>3. SumFunctionOnSet(g, S \cup {x}) = g[x] + SumFunctionOnSet(g, S)
  BY <1>2, SumAddsOne
<1>4. SumFunctionOnSet(f, S) \in Int
  BY SumTakes
<1>5. (t + g[x]) % c = (SumFunctionOnSet(f, S) + g[x]) % c
  BY <1>4, ModOfSum
<1>6. SumFunctionOnSet(g, S \cup {x}) = SumFunctionOnSet(f, S) + g[x]
  BY <1>1, <1>3, <1>4
<1>. QED
  BY <1>5, <1>6

LEMMA TotalOfOneLess ==
  ASSUME NEW c \in Nat \ {0}, NEW f, NEW g, NEW S, IsFiniteSet(S), NEW x \in S,
         \A y \in S : f[y] \in Int, \A y \in S \ {x} : g[y] = f[y],
         NEW t, t = SumFunctionOnSet(f, S) % c
  PROVE  (t - f[x]) % c = SumFunctionOnSet(g, S \ {x}) % c
<1>1. IsFiniteSet(S \ {x})
  BY FS_RemoveElement
<1>2. SumFunctionOnSet(g, S \ {x}) = SumFunctionOnSet(f, S \ {x})
  BY <1>1, SumOfSame
<1>3. SumFunctionOnSet(f, S) = f[x] + SumFunctionOnSet(f, S \ {x})
  BY SumTakes
<1>4. SumFunctionOnSet(f, S) \in Int /\ SumFunctionOnSet(f, S \ {x}) \in Int /\ f[x] \in Int
  BY <1>1, SumTakes
<1>5. t \in Int
  BY <1>4
<1>6. (t + (-f[x])) % c = (SumFunctionOnSet(f, S) + (-f[x])) % c
  <2>1. -f[x] \in Int
    BY <1>4
  <2>. QED BY <1>4, <2>1, ModOfSum
<1>7. t + (-f[x]) = t - f[x]
  BY <1>4, <1>5
<1>8. SumFunctionOnSet(f, S) + (-f[x]) = SumFunctionOnSet(g, S \ {x})
  BY <1>2, <1>3, <1>4
<1>. QED
  BY <1>6, <1>7, <1>8

LEMMA TotalOfChanged ==
  ASSUME NEW c \in Nat \ {0}, NEW f, NEW g, NEW S, IsFiniteSet(S), NEW x \in S,
         \A y \in S : f[y] \in Int /\ g[y] \in Int, \A y \in S \ {x} : g[y] = f[y],
         NEW t, t = SumFunctionOnSet(f, S) % c
  PROVE  (t - (f[x] - g[x])) % c = SumFunctionOnSet(g, S) % c
<1>1. SumFunctionOnSet(g, S) = SumFunctionOnSet(f, S) + g[x] - f[x]
  BY SumChangesAt
<1>2. SumFunctionOnSet(f, S) \in Int /\ f[x] \in Int /\ g[x] \in Int
  BY SumTakes
<1>3. t \in Int
  BY <1>2
<1>. DEFINE d == g[x] - f[x]
<1>4. d \in Int /\ t - (f[x] - g[x]) = t + d
      /\ SumFunctionOnSet(f, S) + g[x] - f[x] = SumFunctionOnSet(f, S) + d
  BY <1>2, <1>3
<1>. HIDE DEF d
<1>5. (t + d) % c = (SumFunctionOnSet(f, S) + d) % c
  BY <1>2, <1>4, ModOfSum
<1>. QED
  BY <1>1, <1>4, <1>5

-----------------------------------------------------------------------------
(* Sums of sums.                                                           *)

LEMMA ModIsAtMost ==
  ASSUME NEW c \in Nat \ {0}, NEW a \in Nat
  PROVE  a % c \in Nat /\ a % c <= a
<1>1. a = c * (a \div c) + (a % c) /\ a % c \in 0 .. c - 1 /\ a \div c \in Int
  BY Parts
<1>. DEFINE k == a \div c
            r == a % c
<1>2. a = c * k + r /\ r \in 0 .. c - 1 /\ k \in Int
  BY <1>1
<1>. HIDE DEF k, r
<1>3. k >= 0
  <2>1. ASSUME k <= -1
        PROVE  FALSE
    <3>1. c * k <= -c
      BY <1>2, <2>1
    <3>. QED BY <1>2, <3>1
  <2>. QED BY <1>2, <2>1
<1>4. c * k >= 0
  BY <1>2, <1>3
<1>5. r \in Nat /\ r <= a
  BY <1>2, <1>4
<1>. QED
  BY <1>5 DEF r

\* W falls into the groups Q[d], and f says what each member has.
Groups(f, D, Q, W) ==
  /\ IsFiniteSet(D)
  /\ \A d \in D : IsFiniteSet(Q[d]) /\ \A x \in Q[d] : f[x] \in Nat
  /\ \A d, e \in D : d # e => Q[d] \cap Q[e] = {}
  /\ \A x : x \in W <=> \E d \in D : x \in Q[d]

\* What groups that share no member have adds up to what all the members have.
LEMMA GroupsAddUp ==
  ASSUME NEW f, NEW D, NEW Q, NEW W, Groups(f, D, Q, W),
         NEW t, \A d \in D : t[d] = SumFunctionOnSet(f, Q[d])
  PROVE  SumFunctionOnSet(t, D) = SumFunctionOnSet(f, W)
<1>0. /\ IsFiniteSet(D)
      /\ \A d \in D : IsFiniteSet(Q[d]) /\ \A x \in Q[d] : f[x] \in Nat
      /\ \A d, e \in D : d # e => Q[d] \cap Q[e] = {}
      /\ \A x : x \in W <=> \E d \in D : x \in Q[d]
  BY DEF Groups
<1>. DEFINE U(T) == UNION {Q[d] : d \in T}
            Sum(T) == SumFunctionOnSet(t, T)
            All(T) == SumFunctionOnSet(f, U(T))
            G == {T \in SUBSET D : Sum(T) \in Nat /\ IsFiniteSet(U(T)) /\ Sum(T) = All(T)}
<1>1. \A d \in D : t[d] \in Nat /\ SumFunctionOnSet(f, Q[d]) \in Nat
                   /\ t[d] = SumFunctionOnSet(f, Q[d])
  BY <1>0, SumOfNaturals
<1>2. \A d \in D : \A x \in U(D \ {d}) : x \notin Q[d]
  BY <1>0
<1>. HIDE DEF Sum
<1>3. ASSUME NEW T \in SUBSET D, \A d \in T : T \ {d} \in G
      PROVE  T \in G
  <2>1. CASE T = {}
    <3>1. U(T) = {}
      BY <2>1
    <3>2. Sum(T) = 0 /\ All(T) = 0
      BY <2>1, <3>1, SumOfNone DEF Sum
    <3>3. IsFiniteSet(U(T))
      BY <3>1, FS_EmptySet
    <3>. QED BY <3>2, <3>3
  <2>2. ASSUME NEW d \in T
        PROVE  T \in G
    <3>. DEFINE V == T \ {d}
                Z == U(V)
                R == Q[d]
    <3>1. Sum(V) \in Nat /\ IsFiniteSet(Z) /\ Sum(V) = All(V)
      BY <1>3
    <3>2. U(T) = Z \cup R /\ Z \cap R = {}
      <4>1. U(T) = Z \cup R
        OBVIOUS
      <4>2. Z \subseteq U(D \ {d})
        OBVIOUS
      <4>3. Z \cap R = {}
        <5>. HIDE DEF Z, U
        <5>. QED BY <4>2, <1>2
      <4>. QED BY <4>1, <4>3
    <3>3. IsFiniteSet(R) /\ \A x \in Z \cup R : f[x] \in Nat
      BY <1>0
    <3>4. Sum(T) = t[d] + Sum(V)
      <4>1. IsFiniteSet(T) /\ \A x \in T : t[x] \in Int
        BY <1>0, <1>1, FS_Subset
      <4>. HIDE DEF V
      <4>2. SumFunctionOnSet(t, T) = t[d] + SumFunctionOnSet(t, T \ {d})
        BY <4>1, SumTakes
      <4>. QED BY <4>2 DEF Sum, V
    <3>5. All(V) = SumFunctionOnSet(f, Z)
      OBVIOUS
    <3>. HIDE DEF U, Z, R
    <3>6. SumFunctionOnSet(f, Z \cup R) = SumFunctionOnSet(f, Z) + SumFunctionOnSet(f, R)
      BY <3>1, <3>2, <3>3, SumOfParts
    <3>7. IsFiniteSet(U(T))
      <4>1. IsFiniteSet(Z \cup R)
        BY <3>1, <3>3, FS_Union
      <4>. QED BY <3>2, <4>1
    <3>8. SumFunctionOnSet(f, Z) \in Nat
      BY <3>1, <3>3, SumOfNaturals
    <3>9. t[d] \in Nat /\ SumFunctionOnSet(f, R) \in Nat /\ t[d] = SumFunctionOnSet(f, R)
      BY <1>1 DEF R
    <3>10. All(T) = SumFunctionOnSet(f, Z) + SumFunctionOnSet(f, R)
      BY <3>2, <3>6
    <3>. HIDE DEF V
    <3>11. Sum(T) \in Nat /\ Sum(T) = All(T)
      BY <3>1, <3>4, <3>5, <3>8, <3>9, <3>10
    <3>. QED BY <3>7, <3>11
  <2>. QED BY <2>1, <2>2
<1>. HIDE DEF G
<1>4. \A T \in SUBSET D : T \in G
  BY <1>0, <1>3, SetInduction
<1>5. D \in G
  BY <1>4
<1>6. U(D) = W
  BY <1>0
<1>. HIDE DEF U
<1>. QED
  BY <1>5, <1>6 DEF G, Sum

\* ... and is not less if each is counted at most in full.
LEMMA GroupsAreAtMost ==
  ASSUME NEW f, NEW D, NEW Q, NEW W, Groups(f, D, Q, W),
         NEW t, \A d \in D : t[d] \in Nat /\ t[d] <= SumFunctionOnSet(f, Q[d])
  PROVE  SumFunctionOnSet(t, D) \in Nat /\ SumFunctionOnSet(t, D) <= SumFunctionOnSet(f, W)
<1>. DEFINE u == [d \in D |-> SumFunctionOnSet(f, Q[d])]
<1>0. IsFiniteSet(D) /\ \A d \in D : IsFiniteSet(Q[d]) /\ \A x \in Q[d] : f[x] \in Nat
  BY DEF Groups
<1>1. \A d \in D : u[d] = SumFunctionOnSet(f, Q[d]) /\ t[d] \in Int /\ u[d] \in Int /\ t[d] <= u[d]
  BY <1>0, SumOfNaturals
<1>. HIDE DEF u
<1>2. SumFunctionOnSet(u, D) = SumFunctionOnSet(f, W)
  BY <1>1, GroupsAddUp
<1>3. SumFunctionOnSet(t, D) <= SumFunctionOnSet(u, D)
  BY <1>0, <1>1, SumIsMonotonic
<1>4. SumFunctionOnSet(t, D) \in Nat
  BY <1>0, SumOfNaturals
<1>. QED
  BY <1>2, <1>3, <1>4

\* A sum does not depend on what its terms are called.
LEMMA SumOfImage ==
  ASSUME NEW f, NEW S, IsFiniteSet(S), NEW g, NEW h,
         \A x, y \in S : g[x] = g[y] => x = y,
         \A x \in S : f[x] \in Int /\ h[g[x]] = f[x]
  PROVE  SumFunctionOnSet(h, {g[x] : x \in S}) = SumFunctionOnSet(f, S)
<1>. DEFINE I(T) == {g[x] : x \in T}
            G == {T \in SUBSET S : IsFiniteSet(I(T)) /\ SumFunctionOnSet(h, I(T)) = SumFunctionOnSet(f, T)}
<1>1. ASSUME NEW T \in SUBSET S, \A x \in T : T \ {x} \in G
      PROVE  T \in G
  <2>1. CASE T = {}
    <3>1. I(T) = {}
      BY <2>1
    <3>2. IsFiniteSet(I(T)) /\ SumFunctionOnSet(h, I(T)) = SumFunctionOnSet(f, T)
      BY <2>1, <3>1, SumOfNone, FS_EmptySet
    <3>. QED BY <3>2
  <2>2. ASSUME NEW x \in T
        PROVE  T \in G
    <3>. DEFINE V == T \ {x}
                Z == I(V)
    <3>1. IsFiniteSet(Z) /\ SumFunctionOnSet(h, Z) = SumFunctionOnSet(f, V)
      BY <1>1
    <3>2. I(T) = Z \cup {g[x]} /\ g[x] \notin Z
      OBVIOUS
    <3>3. \A y \in Z \cup {g[x]} : h[y] \in Int
      OBVIOUS
    <3>4. h[g[x]] = f[x]
      OBVIOUS
    <3>5. SumFunctionOnSet(f, T) = f[x] + SumFunctionOnSet(f, V)
      <4>1. IsFiniteSet(T) /\ \A y \in T : f[y] \in Int
        BY FS_Subset
      <4>. QED BY <4>1, SumTakes
    <3>. HIDE DEF Z, V, I
    <3>6. SumFunctionOnSet(h, I(T)) = h[g[x]] + SumFunctionOnSet(h, Z)
      BY <3>1, <3>2, <3>3, SumAddsOne
    <3>7. IsFiniteSet(I(T))
      BY <3>1, <3>2, FS_AddElement
    <3>. QED BY <3>1, <3>4, <3>5, <3>6, <3>7
  <2>. QED BY <2>1, <2>2
<1>. HIDE DEF G
<1>2. \A T \in SUBSET S : T \in G
  BY <1>1, SetInduction
<1>3. S \in G
  BY <1>2
<1>. QED
  BY <1>3 DEF G

\* What n terms of at most k each add up to.
LEMMA SumIsAtMost ==
  ASSUME NEW f, NEW S, IsFiniteSet(S), NEW k \in Nat,
         \A x \in S : f[x] \in Nat /\ f[x] <= k
  PROVE  SumFunctionOnSet(f, S) <= k * Cardinality(S)
<1>. DEFINE Times(n) == k * n
            Sum(T) == SumFunctionOnSet(f, T)
            G == {T \in SUBSET S : Sum(T) \in Nat /\ Sum(T) <= Times(Cardinality(T))}
<1>1. \A n \in Nat : Times(n) \in Nat /\ Times(n + 1) = Times(n) + k
  OBVIOUS
<1>2. Times(0) = 0
  OBVIOUS
<1>. HIDE DEF Times, Sum
<1>3. ASSUME NEW T \in SUBSET S, \A x \in T : T \ {x} \in G
      PROVE  T \in G
  <2>1. CASE T = {}
    <3>1. Sum(T) = 0 /\ Cardinality(T) = 0
      BY <2>1, SumOfNone, FS_EmptySet DEF Sum
    <3>. QED BY <3>1, <1>2
  <2>2. ASSUME NEW x \in T
        PROVE  T \in G
    <3>. DEFINE V == T \ {x}
    <3>1. Sum(V) \in Nat /\ Sum(V) <= Times(Cardinality(V))
      BY <1>3
    <3>2. IsFiniteSet(T) /\ \A y \in T : f[y] \in Int
      BY FS_Subset
    <3>3. IsFiniteSet(V) /\ Cardinality(V) = Cardinality(T) - 1 /\ Cardinality(T) \in Nat
          /\ Cardinality(V) \in Nat
      BY <3>2, FS_RemoveElement, FS_CardinalityType
    <3>4. Sum(T) = f[x] + Sum(V)
      BY <3>2, SumTakes DEF Sum
    <3>5. f[x] \in Nat /\ f[x] <= k
      OBVIOUS
    <3>. HIDE DEF V
    <3>6. Times(Cardinality(T)) = Times(Cardinality(V)) + k /\ Times(Cardinality(V)) \in Nat
      <4>1. Cardinality(T) = Cardinality(V) + 1
        BY <3>3
      <4>. QED BY <4>1, <3>3, <1>1
    <3>7. Sum(T) \in Nat /\ Sum(T) <= Times(Cardinality(T))
      BY <3>1, <3>4, <3>5, <3>6
    <3>. QED BY <3>7
  <2>. QED BY <2>1, <2>2
<1>. HIDE DEF G
<1>4. \A T \in SUBSET S : T \in G
  BY <1>3, SetInduction
<1>5. S \in G
  BY <1>4
<1>. QED
  BY <1>5 DEF G, Sum, Times

\* A sum of ones counts.
LEMMA SumOfOnes ==
  ASSUME NEW f, NEW S, IsFiniteSet(S), \A x \in S : f[x] = 1
  PROVE  SumFunctionOnSet(f, S) = Cardinality(S)
<1>. DEFINE G == {T \in SUBSET S : SumFunctionOnSet(f, T) = Cardinality(T)}
<1>1. ASSUME NEW T \in SUBSET S, \A x \in T : T \ {x} \in G
      PROVE  T \in G
  <2>1. CASE T = {}
    BY <2>1, SumOfNone, FS_EmptySet
  <2>2. ASSUME NEW x \in T
        PROVE  SumFunctionOnSet(f, T) = Cardinality(T)
    <3>1. IsFiniteSet(T) /\ \A y \in T : f[y] \in Int
      BY FS_Subset
    <3>2. SumFunctionOnSet(f, T) = f[x] + SumFunctionOnSet(f, T \ {x})
      BY <3>1, SumTakes
    <3>3. SumFunctionOnSet(f, T \ {x}) = Cardinality(T \ {x})
      BY <1>1
    <3>4. Cardinality(T \ {x}) = Cardinality(T) - 1 /\ Cardinality(T) \in Nat
      BY <3>1, FS_RemoveElement, FS_CardinalityType
    <3>. QED BY <3>2, <3>3, <3>4
  <2>. QED BY <2>1, <2>2
<1>2. \A T \in SUBSET S : T \in G
  <2>. HIDE DEF G
  <2>. QED BY <1>1, SetInduction
<1>. QED
  BY <1>2

\* Remainders may be taken before adding up as well as after.
LEMMA SumOfRemainders ==
  ASSUME NEW c \in Nat \ {0}, NEW f, NEW t, NEW S, IsFiniteSet(S),
         \A x \in S : f[x] \in Int /\ t[x] = f[x] % c
  PROVE  SumFunctionOnSet(t, S) % c = SumFunctionOnSet(f, S) % c
<1>. DEFINE G == {T \in SUBSET S : SumFunctionOnSet(t, T) % c = SumFunctionOnSet(f, T) % c}
<1>0. \A x \in S : t[x] \in Int
  <2>1. \A a \in Int : a % c \in Int
    OBVIOUS
  <2>. QED BY <2>1
<1>1. ASSUME NEW T \in SUBSET S, \A x \in T : T \ {x} \in G
      PROVE  T \in G
  <2>1. CASE T = {}
    BY <2>1, SumOfNone
  <2>2. ASSUME NEW x \in T
        PROVE  SumFunctionOnSet(t, T) % c = SumFunctionOnSet(f, T) % c
    <3>. DEFINE u == SumFunctionOnSet(t, T \ {x})
                v == SumFunctionOnSet(f, T \ {x})
    <3>1. IsFiniteSet(T) /\ IsFiniteSet(T \ {x}) /\ \A y \in T : f[y] \in Int /\ t[y] \in Int
      BY <1>0, FS_Subset
    <3>2. SumFunctionOnSet(t, T) = t[x] + u /\ SumFunctionOnSet(f, T) = f[x] + v
      BY <3>1, SumTakes
    <3>3. u \in Int /\ v \in Int /\ f[x] \in Int
      BY <3>1, SumTakes
    <3>4. u % c = v % c
      BY <1>1
    <3>. HIDE DEF u, v
    <3>5. (t[x] + u) % c = (f[x] + u) % c
      BY <3>3, ModOfSum
    <3>6. ((u % c) + f[x]) % c = (u + f[x]) % c /\ ((v % c) + f[x]) % c = (v + f[x]) % c
      BY <3>3, ModOfSum
    <3>7. f[x] + u = u + f[x] /\ f[x] + v = v + f[x]
      BY <3>3
    <3>8. (f[x] + u) % c = (f[x] + v) % c
      BY <3>4, <3>6, <3>7
    <3>. QED BY <3>2, <3>5, <3>8
  <2>. QED BY <2>1, <2>2
<1>2. \A T \in SUBSET S : T \in G
  <2>. HIDE DEF G
  <2>. QED BY <1>1, SetInduction
<1>. QED
  BY <1>2

\* Sets that correspond one to one have the same size.
LEMMA SameSize ==
  ASSUME NEW S, IsFiniteSet(S), NEW T, NEW g, \A x \in S : g[x] \in T,
         \A x, y \in S : g[x] = g[y] => x = y, \A z \in T : \E x \in S : g[x] = z
  PROVE  IsFiniteSet(T) /\ Cardinality(T) = Cardinality(S)
<1>. DEFINE h == [x \in S |-> g[x]]
<1>1. h \in Surjection(S, T) /\ h \in Injection(S, T)
  BY DEF Surjection, Injection, IsInjective
<1>. QED
  BY <1>1, FS_Surjection

\* g gives the members of S different numbers below its size ...
Numbering(g, S) ==
  /\ \A x \in S : g[x] \in 0 .. Cardinality(S) - 1
  /\ \A x, y \in S : g[x] = g[y] => x = y

\* ... and so each of them.
LEMMA NumberingIsOnto ==
  ASSUME NEW S, IsFiniteSet(S), NEW g, Numbering(g, S)
  PROVE  \A k \in 0 .. Cardinality(S) - 1 : \E x \in S : g[x] = k
<1>. DEFINE h == [x \in S |-> g[x]]
            T == 0 .. Cardinality(S) - 1
<1>1. h \in Injection(S, T)
  BY DEF Injection, IsInjective, Numbering
<1>2. IsFiniteSet(T) /\ Cardinality(T) = Cardinality(S)
  <2>1. Cardinality(S) \in Nat
    BY FS_CardinalityType
  <2>. QED BY <2>1, FS_Interval
<1>3. h \in Surjection(S, T)
  <2>. HIDE DEF h, T
  <2>. QED BY <1>1, <1>2, FS_Injection
<1>. QED
  BY <1>3 DEF Surjection

=============================================================================
