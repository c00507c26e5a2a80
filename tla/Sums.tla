---------------------------------- MODULE Sums ---------------------------------
(***************************************************************************)
(* Facts about SumFunctionOnSet, for the proofs about balances, supplies   *)
(* and pots.  A sum over a finite set of integers does not depend on the   *)
(* order in which its terms are picked, so a term can be split off, and    *)
(* sums can be compared and added term by term.                            *)
(*                                                                         *)
(* The sum is a recursive function over the subsets of its domain, and the *)
(* facts are proved by induction on their size: the sizes at which a fact  *)
(* fails are a set of numbers, which would have a least element (Least).   *)
(***************************************************************************)
EXTENDS Integers, FiniteSets, Functions, WellFoundedInduction, FiniteSetTheorems, TLAPS

\* The term that is added first.
First(s) == CHOOSE x \in s : TRUE

Term(h, f, s) == IF s = {} THEN 0 ELSE f[First(s)] + h[s \ {First(s)}]

\* h gives the sum of f over every subset of S.
Adds(h, f, S) == h = [s \in SUBSET S |-> Term(h, f, s)]

LEMMA Least ==
  ASSUME NEW T \in SUBSET Nat, T # {}
  PROVE  \E n \in T : \A m \in T : n <= m
<1> DEFINE R == OpToRel(<, Nat)
<1>1. \E x \in T : \A y \in T : ~(<<y, x>> \in R)
  <2>1. IsWellFoundedOn(R, Nat)
    BY NatLessThanWellFounded
  <2> HIDE DEF R
  <2> QED BY <2>1, WFMin
<1>2. \A x, y \in Nat : <<y, x>> \in R <=> y < x
  BY DEF OpToRel
<1> HIDE DEF R
<1>3. PICK x \in T : \A y \in T : ~(<<y, x>> \in R)
  BY <1>1
<1>4. \A y \in T : y \in Nat /\ x \in Nat /\ ~(y < x)
  BY <1>2, <1>3
<1>5. \A y \in T : x <= y
  BY <1>4
<1> QED BY <1>5

LEMMA FirstIsIn ==
  ASSUME NEW s, s # {}
  PROVE  First(s) \in s
BY Zenon DEF First

\* One element less.
LEMMA Smaller ==
  ASSUME NEW s, IsFiniteSet(s), NEW x \in s
  PROVE  /\ IsFiniteSet(s \ {x})
         /\ Cardinality(s) \in Nat /\ Cardinality(s \ {x}) \in Nat
         /\ Cardinality(s \ {x}) = Cardinality(s) - 1
<1>1. IsFiniteSet(s \ {x}) /\ Cardinality(s \ {x}) = Cardinality(s) - 1
  BY FS_RemoveElement
<1> QED BY <1>1, FS_CardinalityType

LEMMA AddsExists ==
  ASSUME NEW f, NEW S, IsFiniteSet(S)
  PROVE  \E h : Adds(h, f, S)
<1> DEFINE Upto(n) == {s \in SUBSET S : Cardinality(s) <= n}
           Defined(n) == \E h : h = [s \in Upto(n) |-> Term(h, f, s)]
           Bad == {n \in Nat : ~Defined(n)}
<1>1. \A s \in SUBSET S : IsFiniteSet(s) /\ Cardinality(s) \in Nat
  BY FS_Subset, FS_CardinalityType
<1>2. Defined(0)
  <2> DEFINE h == [s \in Upto(0) |-> 0]
  <2>1. \A s \in Upto(0) : s = {}
    BY <1>1, FS_EmptySet
  <2>2. h = [s \in Upto(0) |-> Term(h, f, s)]
    BY <2>1 DEF Term
  <2> QED BY <2>2
<1>3. ASSUME NEW n \in Nat, Defined(n) PROVE Defined(n + 1)
  <2>1. PICK h : h = [s \in Upto(n) |-> Term(h, f, s)]
    BY <1>3
  <2> DEFINE g == [s \in Upto(n + 1) |-> Term(h, f, s)]
  <2>2. ASSUME NEW s \in Upto(n + 1), s # {} PROVE g[s \ {First(s)}] = h[s \ {First(s)}]
    <3> DEFINE r == s \ {First(s)}
    <3>1. r \in Upto(n) /\ r \in Upto(n + 1)
      BY <1>1, <2>2, FirstIsIn, Smaller
    <3> HIDE DEF r
    <3>2. g[r] = Term(h, f, r)
      BY <3>1
    <3>3. h[r] = Term(h, f, r)
      BY <2>1, <3>1
    <3> QED BY <3>2, <3>3 DEF r
  <2> HIDE DEF Upto, g
  <2>3. \A s \in Upto(n + 1) : Term(g, f, s) = Term(h, f, s)
    BY <2>2 DEF Term
  <2>4. g = [s \in Upto(n + 1) |-> Term(g, f, s)]
    BY <2>3 DEF g
  <2> QED BY <2>4
<1>4. \A n \in Nat : Defined(n)
  <2> SUFFICES ASSUME Bad # {} PROVE FALSE
    OBVIOUS
  <2> HIDE DEF Defined
  <2>1. PICK n \in Bad : \A m \in Bad : n <= m
    BY Least
  <2>2. n # 0 /\ n - 1 \in Nat /\ n - 1 \notin Bad
    BY <1>2, <2>1
  <2>3. Defined(n - 1 + 1)
    BY <1>3, <2>2
  <2> QED BY <2>1, <2>3
<1>5. Upto(Cardinality(S)) = SUBSET S
  BY <1>1, FS_Subset
<1>6. Cardinality(S) \in Nat /\ Defined(Cardinality(S))
  BY <1>1, <1>4
<1> HIDE DEF Upto
<1> QED BY <1>5, <1>6 DEF Adds

\* Two such functions agree where their terms do.
LEMMA AddsAgree ==
  ASSUME NEW f, NEW e, NEW S, NEW T \in SUBSET S, IsFiniteSet(T), \A x \in T : f[x] = e[x],
         NEW h, Adds(h, f, S), NEW k, Adds(k, e, T)
  PROVE  \A s \in SUBSET T : h[s] = k[s]
<1> DEFINE Bad == {s \in SUBSET T : h[s] # k[s]}
           Sizes == {n \in Nat : \E s \in Bad : Cardinality(s) = n}
<1> SUFFICES ASSUME Bad # {} PROVE FALSE
  OBVIOUS
<1>1. \A s \in SUBSET T : IsFiniteSet(s) /\ Cardinality(s) \in Nat
  BY FS_Subset, FS_CardinalityType
<1>2. PICK n \in Sizes : \A m \in Sizes : n <= m
  <2>1. Sizes # {} /\ Sizes \in SUBSET Nat
    BY <1>1
  <2> HIDE DEF Sizes
  <2> QED BY <2>1, Least
<1>3. PICK s \in Bad : Cardinality(s) = n
  BY <1>2
<1>4. h[s] = Term(h, f, s) /\ k[s] = Term(k, e, s)
  BY DEF Adds
<1>5. s # {}
  BY <1>3, <1>4 DEF Term
<1> DEFINE r == s \ {First(s)}
<1>6. /\ First(s) \in s /\ r \in SUBSET T /\ r \notin Bad
  <2>1. First(s) \in s
    BY <1>5, FirstIsIn
  <2>2. Cardinality(r) \in Nat /\ Cardinality(r) = n - 1
    BY <1>1, <1>3, <2>1, Smaller
  <2> QED BY <1>2, <2>1, <2>2
<1>7. h[r] = k[r] /\ f[First(s)] = e[First(s)]
  BY <1>6
<1> HIDE DEF r
<1>8. Term(h, f, s) = Term(k, e, s)
  BY <1>7 DEF Term, r
<1> QED BY <1>3, <1>4, <1>8

\* Any term may be split off.
LEMMA AddsSplit ==
  ASSUME NEW S, IsFiniteSet(S), NEW f, \A x \in S : f[x] \in Int, NEW h, Adds(h, f, S)
  PROVE  \A s \in SUBSET S : h[s] \in Int /\ \A x \in s : h[s] = f[x] + h[s \ {x}]
<1> DEFINE Good(s) == h[s] \in Int /\ \A x \in s : h[s] = f[x] + h[s \ {x}]
           Bad == {s \in SUBSET S : ~Good(s)}
           Sizes == {n \in Nat : \E s \in Bad : Cardinality(s) = n}
<1> SUFFICES ASSUME Bad # {} PROVE FALSE
  OBVIOUS
<1>1. \A s \in SUBSET S : IsFiniteSet(s) /\ Cardinality(s) \in Nat
  BY FS_Subset, FS_CardinalityType
<1>2. PICK n \in Sizes : \A m \in Sizes : n <= m
  <2>1. Sizes # {} /\ Sizes \in SUBSET Nat
    BY <1>1
  <2> HIDE DEF Sizes
  <2> QED BY <2>1, Least
<1>3. PICK s \in Bad : Cardinality(s) = n
  BY <1>2
<1>4. \A r \in SUBSET S : h[r] = Term(h, f, r)
  BY DEF Adds
<1>5. \A r \in SUBSET S : Cardinality(r) < n => Good(r)
  BY <1>1, <1>2
<1>6. s # {}
  <2> SUFFICES ASSUME s = {} PROVE FALSE
    OBVIOUS
  <2>1. h[s] = 0
    BY <1>4 DEF Term
  <2>2. Good(s)
    BY <2>1
  <2> QED BY <1>3, <2>2
<1> DEFINE y == First(s)
<1>7. y \in s /\ h[s] = f[y] + h[s \ {y}]
  BY <1>3, <1>4, <1>6, FirstIsIn DEF Term
<1> HIDE DEF y
<1>8. \A x \in s : s \ {x} \in SUBSET S /\ Good(s \ {x})
  <2> SUFFICES ASSUME NEW x \in s PROVE s \ {x} \in SUBSET S /\ Good(s \ {x})
    OBVIOUS
  <2>1. s \ {x} \in SUBSET S /\ n \in Nat /\ Cardinality(s \ {x}) = n - 1
    BY <1>1, <1>3, Smaller
  <2> HIDE DEF Good
  <2>2. Cardinality(s \ {x}) < n
    BY <2>1
  <2> QED BY <1>5, <2>1, <2>2
<1>9. h[s] \in Int
  <2>1. Good(s \ {y})
    <3> HIDE DEF Good
    <3> QED BY <1>7, <1>8
  <2>2. f[y] \in Int /\ h[s \ {y}] \in Int
    BY <1>3, <1>7, <2>1
  <2> QED BY <1>7, <2>2
<1>10. ASSUME NEW x \in s PROVE h[s] = f[x] + h[s \ {x}]
  <2>1. CASE x = y
    BY <1>7, <2>1
  <2>2. CASE x # y
    <3> DEFINE r == (s \ {x}) \ {y}
    <3>1. (s \ {y}) \ {x} = r /\ x \in s \ {y} /\ y \in s \ {x}
      BY <1>7, <2>2
    <3>2. h[s \ {y}] = f[x] + h[r] /\ h[s \ {x}] = f[y] + h[r]
      BY <1>7, <1>8, <3>1
    <3>3. r \in SUBSET S /\ Cardinality(r) < n
      <4>1. Cardinality(s \ {x}) = n - 1 /\ IsFiniteSet(s \ {x}) /\ n \in Nat
        BY <1>1, <1>3, Smaller
      <4>2. Cardinality(r) = n - 1 - 1
        BY <3>1, <4>1, Smaller
      <4> QED BY <4>1, <4>2
    <3>4. h[r] \in Int /\ f[x] \in Int /\ f[y] \in Int
      BY <1>5, <1>7, <3>3
    <3> HIDE DEF r
    <3> QED BY <1>7, <3>2, <3>4
  <2> QED BY <2>1, <2>2
<1> QED BY <1>3, <1>9, <1>10

-----------------------------------------------------------------------------
(* What is used elsewhere. *)

LEMMA SumIsAdded ==
  ASSUME NEW f, NEW S, IsFiniteSet(S)
  PROVE  \E h : Adds(h, f, S) /\ SumFunctionOnSet(f, S) = h[S]
<1> DEFINE g == CHOOSE x : Adds(x, f, S)
<1>1. Adds(g, f, S)
  BY AddsExists, Zenon
<1>2. SumFunctionOnSet(f, S) = g[S]
  BY Zenon DEF SumFunctionOnSet, FoldFunctionOnSet, MapThenFoldSet, Adds, Term, First
<1> QED BY <1>1, <1>2

\* Equal terms, equal sums.
LEMMA SumSame ==
  ASSUME NEW S, IsFiniteSet(S), NEW f, NEW g, \A x \in S : f[x] = g[x]
  PROVE  SumFunctionOnSet(f, S) = SumFunctionOnSet(g, S)
<1>1. PICK h : Adds(h, f, S) /\ SumFunctionOnSet(f, S) = h[S]
  BY SumIsAdded
<1>2. PICK k : Adds(k, g, S) /\ SumFunctionOnSet(g, S) = k[S]
  BY SumIsAdded
<1>3. \A s \in SUBSET S : h[s] = k[s]
  <2>1. S \in SUBSET S
    OBVIOUS
  <2> QED BY <1>1, <1>2, <2>1, AddsAgree
<1> QED BY <1>1, <1>2, <1>3

\* The empty sum, and a term taken out of a sum.
LEMMA SumEmpty ==
  ASSUME NEW f
  PROVE  SumFunctionOnSet(f, {}) = 0
<1>1. PICK h : Adds(h, f, {}) /\ SumFunctionOnSet(f, {}) = h[{}]
  BY SumIsAdded, FS_EmptySet
<1> QED BY <1>1 DEF Adds, Term

LEMMA SumSplit ==
  ASSUME NEW S, IsFiniteSet(S), NEW f, \A x \in S : f[x] \in Int
  PROVE  /\ SumFunctionOnSet(f, S) \in Int
         /\ \A x \in S : SumFunctionOnSet(f, S) = f[x] + SumFunctionOnSet(f, S \ {x})
<1>1. PICK h : Adds(h, f, S) /\ SumFunctionOnSet(f, S) = h[S]
  BY SumIsAdded
<1>2. h[S] \in Int /\ \A x \in S : h[S] = f[x] + h[S \ {x}]
  <2>1. \A s \in SUBSET S : h[s] \in Int /\ \A x \in s : h[s] = f[x] + h[s \ {x}]
    BY <1>1, AddsSplit
  <2> QED BY <2>1
<1>3. ASSUME NEW x \in S PROVE SumFunctionOnSet(f, S \ {x}) = h[S \ {x}]
  <2>1. IsFiniteSet(S \ {x})
    BY FS_Subset
  <2>2. PICK k : Adds(k, f, S \ {x}) /\ SumFunctionOnSet(f, S \ {x}) = k[S \ {x}]
    BY <2>1, SumIsAdded
  <2> DEFINE T == S \ {x}
  <2>3. T \in SUBSET S /\ IsFiniteSet(T) /\ Adds(k, f, T)
    BY <2>1, <2>2
  <2> HIDE DEF T
  <2>4. \A s \in SUBSET T : h[s] = k[s]
    BY <1>1, <2>3, AddsAgree
  <2>5. h[T] = k[T]
    BY <2>4
  <2> QED BY <2>2, <2>5 DEF T
<1> QED BY <1>1, <1>2, <1>3

\* One more term.
LEMMA SumWith ==
  ASSUME NEW S, IsFiniteSet(S), NEW f, NEW x, x \notin S, \A y \in S \cup {x} : f[y] \in Int
  PROVE  SumFunctionOnSet(f, S \cup {x}) = SumFunctionOnSet(f, S) + f[x]
<1>1. IsFiniteSet(S \cup {x}) /\ (S \cup {x}) \ {x} = S
  BY FS_AddElement
<1>2. SumFunctionOnSet(f, S) \in Int
  BY SumSplit
<1>3. SumFunctionOnSet(f, S \cup {x}) = f[x] + SumFunctionOnSet(f, (S \cup {x}) \ {x})
  BY <1>1, SumSplit
<1>4. f[x] \in Int
  OBVIOUS
<1>5. SumFunctionOnSet(f, S \cup {x}) = f[x] + SumFunctionOnSet(f, S)
  BY <1>1, <1>3
<1> QED BY <1>2, <1>4, <1>5

\* One term changes.
LEMMA SumChange ==
  ASSUME NEW S, IsFiniteSet(S), NEW f, NEW g, \A y \in S : f[y] \in Int /\ g[y] \in Int
  PROVE  \A x \in S : (\A y \in S \ {x} : g[y] = f[y]) =>
             SumFunctionOnSet(g, S) = SumFunctionOnSet(f, S) + (g[x] - f[x])
<1> SUFFICES ASSUME NEW x \in S, \A y \in S \ {x} : g[y] = f[y]
             PROVE  SumFunctionOnSet(g, S) = SumFunctionOnSet(f, S) + (g[x] - f[x])
  OBVIOUS
<1> DEFINE r == S \ {x}
<1>1. IsFiniteSet(r)
  BY FS_Subset
<1>2. SumFunctionOnSet(f, S) = f[x] + SumFunctionOnSet(f, r)
  BY SumSplit
<1>3. SumFunctionOnSet(g, S) = g[x] + SumFunctionOnSet(g, r)
  BY SumSplit
<1>4. SumFunctionOnSet(g, r) = SumFunctionOnSet(f, r)
  BY <1>1, SumSame
<1>5. SumFunctionOnSet(f, r) \in Int
  BY <1>1, SumSplit
<1> HIDE DEF r
<1> QED BY <1>2, <1>3, <1>4, <1>5

\* Sums compare as their terms do.
LEMMA SumBelow ==
  ASSUME NEW S, IsFiniteSet(S), NEW f, NEW g,
         \A x \in S : f[x] \in Int /\ g[x] \in Int /\ f[x] <= g[x]
  PROVE  SumFunctionOnSet(f, S) <= SumFunctionOnSet(g, S)
<1> DEFINE Bad == {s \in SUBSET S : ~(SumFunctionOnSet(f, s) <= SumFunctionOnSet(g, s))}
           Sizes == {n \in Nat : \E s \in Bad : Cardinality(s) = n}
<1> SUFFICES ASSUME Bad # {} PROVE FALSE
  OBVIOUS
<1>1. \A s \in SUBSET S : IsFiniteSet(s) /\ Cardinality(s) \in Nat
  BY FS_Subset, FS_CardinalityType
<1>2. PICK n \in Sizes : \A m \in Sizes : n <= m
  <2>1. Sizes # {} /\ Sizes \in SUBSET Nat
    BY <1>1
  <2> HIDE DEF Sizes
  <2> QED BY <2>1, Least
<1>3. PICK s \in Bad : Cardinality(s) = n
  BY <1>2
<1>4. s # {}
  BY SumEmpty
<1>5. PICK x \in s : TRUE
  BY <1>4
<1>6. SumFunctionOnSet(f, s \ {x}) <= SumFunctionOnSet(g, s \ {x})
  <2>1. Cardinality(s \ {x}) \in Nat /\ Cardinality(s \ {x}) = n - 1 /\ s \ {x} \in SUBSET S
    BY <1>1, <1>3, Smaller
  <2> QED BY <1>2, <2>1
<1>7. /\ SumFunctionOnSet(f, s) = f[x] + SumFunctionOnSet(f, s \ {x})
      /\ SumFunctionOnSet(g, s) = g[x] + SumFunctionOnSet(g, s \ {x})
  BY <1>1, SumSplit
<1>8. SumFunctionOnSet(f, s \ {x}) \in Int /\ SumFunctionOnSet(g, s \ {x}) \in Int
  <2>1. IsFiniteSet(s \ {x})
    BY <1>1, Smaller
  <2> QED BY <2>1, SumSplit
<1>9. f[x] \in Int /\ g[x] \in Int /\ f[x] <= g[x]
  BY <1>3
<1>10. SumFunctionOnSet(f, s) <= SumFunctionOnSet(g, s)
  BY <1>6, <1>7, <1>8, <1>9
<1> QED BY <1>3, <1>10

\* a times one function and b times another.
Combined(f, a, g, b) == [x \in DOMAIN f |-> f[x] * a + g[x] * b]

\* Sums are linear.
LEMMA SumLinear ==
  ASSUME NEW S, IsFiniteSet(S), NEW f \in [S -> Int], NEW g \in [S -> Int]
  PROVE  \A a, b \in Int : SumFunctionOnSet(Combined(f, a, g, b), S)
                               = SumFunctionOnSet(f, S) * a + SumFunctionOnSet(g, S) * b
<1> SUFFICES ASSUME NEW a \in Int, NEW b \in Int
             PROVE  SumFunctionOnSet(Combined(f, a, g, b), S)
                       = SumFunctionOnSet(f, S) * a + SumFunctionOnSet(g, S) * b
  OBVIOUS
<1> DEFINE e == Combined(f, a, g, b)
<1>e. \A x \in S : e[x] = f[x] * a + g[x] * b
  BY DEF Combined
<1> HIDE DEF e
<1> SUFFICES SumFunctionOnSet(e, S) = SumFunctionOnSet(f, S) * a + SumFunctionOnSet(g, S) * b
  BY DEF e
<1> DEFINE Fits(s) == SumFunctionOnSet(e, s) = SumFunctionOnSet(f, s) * a + SumFunctionOnSet(g, s) * b
           Bad == {s \in SUBSET S : ~Fits(s)}
           Sizes == {n \in Nat : \E s \in Bad : Cardinality(s) = n}
<1> SUFFICES ASSUME Bad # {} PROVE FALSE
  OBVIOUS
<1>0. \A x \in S : f[x] \in Int /\ g[x] \in Int /\ e[x] \in Int
  BY <1>e
<1>1. \A s \in SUBSET S : IsFiniteSet(s) /\ Cardinality(s) \in Nat
  BY FS_Subset, FS_CardinalityType
<1>2. PICK n \in Sizes : \A m \in Sizes : n <= m
  <2>1. Sizes # {} /\ Sizes \in SUBSET Nat
    BY <1>1
  <2> HIDE DEF Sizes
  <2> QED BY <2>1, Least
<1>3. PICK s \in Bad : Cardinality(s) = n
  BY <1>2
<1>4. s # {}
  <2> SUFFICES ASSUME s = {} PROVE FALSE
    OBVIOUS
  <2>1. SumFunctionOnSet(e, s) = 0 /\ SumFunctionOnSet(f, s) = 0 /\ SumFunctionOnSet(g, s) = 0
    BY SumEmpty
  <2>2. Fits(s)
    BY <2>1
  <2> QED BY <1>3, <2>2
<1>5. PICK x \in s : TRUE
  BY <1>4
<1> DEFINE r == s \ {x}
<1>6. Fits(r)
  <2>1. Cardinality(r) \in Nat /\ Cardinality(r) = n - 1 /\ r \in SUBSET S
    BY <1>1, <1>3, Smaller
  <2> QED BY <1>2, <2>1
<1>7. /\ SumFunctionOnSet(f, s) = f[x] + SumFunctionOnSet(f, r)
      /\ SumFunctionOnSet(g, s) = g[x] + SumFunctionOnSet(g, r)
      /\ SumFunctionOnSet(e, s) = e[x] + SumFunctionOnSet(e, r)
  BY <1>0, <1>1, SumSplit
<1>8. SumFunctionOnSet(f, r) \in Int /\ SumFunctionOnSet(g, r) \in Int
  <2>1. IsFiniteSet(r)
    BY <1>1, Smaller
  <2> QED BY <2>1, SumSplit
<1>9. f[x] \in Int /\ g[x] \in Int /\ e[x] = f[x] * a + g[x] * b
  BY <1>0, <1>3, <1>e
<1> HIDE DEF r
<1>10. Fits(s)
  BY <1>6, <1>7, <1>8, <1>9
<1> QED BY <1>3, <1>10

\* One term of a function is raised by n, its other terms stand.
LEMMA SumRaised ==
  ASSUME NEW S, IsFiniteSet(S), NEW f \in [S -> Int], NEW g \in [S -> Int]
  PROVE  /\ SumFunction(f) \in Int
         /\ \A x \in S, n \in Int :
                (g[x] = f[x] + n /\ \A y \in S \ {x} : g[y] = f[y]) =>
                    SumFunction(g) = SumFunction(f) + n
<1>1. SumFunction(g) = SumFunctionOnSet(g, S) /\ SumFunction(f) = SumFunctionOnSet(f, S)
  BY DEF SumFunction
<1>2. SumFunction(f) \in Int
  BY <1>1, SumSplit
<1>3. ASSUME NEW x \in S, NEW n \in Int, g[x] = f[x] + n, \A y \in S \ {x} : g[y] = f[y]
      PROVE  SumFunction(g) = SumFunction(f) + n
  <2>1. \A y \in S : f[y] \in Int /\ g[y] \in Int
    OBVIOUS
  <2>2. SumFunctionOnSet(g, S) = SumFunctionOnSet(f, S) + (g[x] - f[x])
    BY <1>3, <2>1, SumChange
  <2>3. g[x] - f[x] = n
    BY <1>3
  <2> QED BY <1>1, <2>2, <2>3
<1> QED BY <1>2, <1>3

\* A sum without one of its terms.
LEMMA SumLess ==
  ASSUME NEW T, IsFiniteSet(T), NEW g \in [T -> Int]
  PROVE  /\ SumFunction(g) \in Int
         /\ \A x \in T : \A f \in [T \ {x} -> Int] :
                (\A y \in T \ {x} : f[y] = g[y]) =>
                    SumFunction(f) \in Int /\ SumFunction(g) = SumFunction(f) + g[x]
<1>1. SumFunction(g) = SumFunctionOnSet(g, T)
  BY DEF SumFunction
<1>2. SumFunction(g) \in Int
  BY <1>1, SumSplit
<1>3. ASSUME NEW x \in T, NEW f \in [T \ {x} -> Int], \A y \in T \ {x} : f[y] = g[y]
      PROVE  SumFunction(f) \in Int /\ SumFunction(g) = SumFunction(f) + g[x]
  <2>1. SumFunction(f) = SumFunctionOnSet(f, T \ {x}) /\ IsFiniteSet(T \ {x})
    BY FS_RemoveElement DEF SumFunction
  <2>2. SumFunctionOnSet(f, T \ {x}) = SumFunctionOnSet(g, T \ {x})
    BY <1>3, <2>1, SumSame
  <2>3. \A y \in T : g[y] \in Int
    OBVIOUS
  <2>4. SumFunctionOnSet(g, T) = g[x] + SumFunctionOnSet(g, T \ {x})
    BY <2>3, SumSplit
  <2>5. \A y \in T \ {x} : g[y] \in Int
    OBVIOUS
  <2>6. SumFunctionOnSet(g, T \ {x}) \in Int
    BY <2>1, <2>5, SumSplit
  <2> QED BY <1>1, <2>1, <2>2, <2>4, <2>6
<1> QED BY <1>2, <1>3

\* Nothing but zeros.
LEMMA SumOfZeros ==
  ASSUME NEW S, IsFiniteSet(S), NEW f, \A x \in S : f[x] = 0
  PROVE  SumFunctionOnSet(f, S) = 0
<1> DEFINE z == [x \in S |-> 0]
<1>1. \A x \in S : f[x] = z[x] /\ Combined(z, 0, z, 0)[x] = z[x]
  BY DEF Combined
<1>2. z \in [S -> Int]
  OBVIOUS
<1> HIDE DEF z
<1>3. SumFunctionOnSet(f, S) = SumFunctionOnSet(z, S)
      /\ SumFunctionOnSet(Combined(z, 0, z, 0), S) = SumFunctionOnSet(z, S)
  BY <1>1, SumSame
<1>4. SumFunctionOnSet(z, S) \in Int
  BY <1>2, SumSplit
<1>5. SumFunctionOnSet(Combined(z, 0, z, 0), S)
         = SumFunctionOnSet(z, S) * 0 + SumFunctionOnSet(z, S) * 0
  BY <1>2, SumLinear
<1> QED BY <1>3, <1>4, <1>5

(* A sum does not depend on how its terms are named.                       *)
ImageOf(e, s) == {e[i] : i \in s}
SameSum(f, e, k, s) ==
    IsFiniteSet(ImageOf(e, s)) /\ SumFunctionOnSet(f, ImageOf(e, s)) = SumFunctionOnSet(k, s)

LEMMA OneMoreName ==
  ASSUME NEW s, IsFiniteSet(s), NEW x \in s, NEW e, NEW f, NEW k,
         \A i, j \in s : e[i] = e[j] => i = j,
         \A i \in s : f[e[i]] = k[i] /\ k[i] \in Int,
         SameSum(f, e, k, s \ {x})
  PROVE  SameSum(f, e, k, s)
<1>1. PICK r : r = s \ {x}
  OBVIOUS
<1>2. PICK T : T = ImageOf(e, r)
  OBVIOUS
<1>3. PICK y : y = e[x]
  OBVIOUS
<1>4. ImageOf(e, s) = T \cup {y} /\ y \notin T
  BY <1>1, <1>2, <1>3 DEF ImageOf
<1>5. IsFiniteSet(T) /\ SumFunctionOnSet(f, T) = SumFunctionOnSet(k, r)
  BY <1>1, <1>2 DEF SameSum
<1>6. \A z \in T \cup {y} : f[z] \in Int
  BY <1>1, <1>2, <1>3 DEF ImageOf
<1>7. SumFunctionOnSet(f, T \cup {y}) = SumFunctionOnSet(f, T) + f[y]
  <2>1. PICK V : V = T \cup {y}
    OBVIOUS
  <2>2. IsFiniteSet(V) /\ y \in V /\ V \ {y} = T /\ \A z \in V : f[z] \in Int
    BY <1>4, <1>5, <1>6, <2>1, FS_AddElement
  <2>3. SumFunctionOnSet(f, V) = f[y] + SumFunctionOnSet(f, V \ {y})
    BY <2>2, SumSplit
  <2>4. IsFiniteSet(T) /\ \A z \in T : f[z] \in Int
    BY <1>5, <1>6
  <2>5. SumFunctionOnSet(f, T) \in Int
    BY <2>4, SumSplit
  <2>6. f[y] \in Int
    BY <1>6
  <2>7. SumFunctionOnSet(f, T \cup {y}) = f[y] + SumFunctionOnSet(f, T)
    BY <2>1, <2>2, <2>3
  <2> QED BY <2>5, <2>6, <2>7
<1>8. IsFiniteSet(T \cup {y})
  BY <1>5, FS_AddElement
<1>9. IsFiniteSet(r) /\ \A i \in r : k[i] \in Int
  BY <1>1, Smaller
<1>10. SumFunctionOnSet(k, r) \in Int
  BY <1>9, SumSplit
<1>11. SumFunctionOnSet(k, s) = k[x] + SumFunctionOnSet(k, r)
  <2>1. \A i \in s : k[i] \in Int
    OBVIOUS
  <2> QED BY <1>1, <2>1, SumSplit
<1>12. f[y] = k[x] /\ k[x] \in Int
  BY <1>3
<1> QED BY <1>4, <1>5, <1>7, <1>8, <1>10, <1>11, <1>12 DEF SameSum

LEMMA SumRenamed ==
  ASSUME NEW C, IsFiniteSet(C), NEW e, NEW f, NEW k,
         \A i, j \in C : e[i] = e[j] => i = j,
         \A i \in C : f[e[i]] = k[i] /\ k[i] \in Int
  PROVE  SameSum(f, e, k, C)
<1> DEFINE Bad == {s \in SUBSET C : ~SameSum(f, e, k, s)}
           Sizes == {n \in Nat : \E s \in Bad : Cardinality(s) = n}
<1> SUFFICES ASSUME Bad # {} PROVE FALSE
  OBVIOUS
<1>1. \A s \in SUBSET C : IsFiniteSet(s) /\ Cardinality(s) \in Nat
  BY FS_Subset, FS_CardinalityType
<1>2. PICK n \in Sizes : \A m \in Sizes : n <= m
  <2>1. Sizes # {} /\ Sizes \in SUBSET Nat
    BY <1>1
  <2> HIDE DEF Sizes
  <2> QED BY <2>1, Least
<1>3. PICK s \in Bad : Cardinality(s) = n
  BY <1>2
<1>4. s # {}
  <2>1. ImageOf(e, {}) = {} /\ SumFunctionOnSet(f, {}) = 0 /\ SumFunctionOnSet(k, {}) = 0
    BY SumEmpty DEF ImageOf
  <2>2. SameSum(f, e, k, {})
    BY <2>1, FS_EmptySet DEF SameSum
  <2> QED BY <1>3, <2>2
<1>5. PICK x \in s : TRUE
  BY <1>4
<1>6. SameSum(f, e, k, s \ {x})
  <2>1. Cardinality(s \ {x}) \in Nat /\ Cardinality(s \ {x}) = n - 1 /\ s \ {x} \in SUBSET C
    BY <1>1, <1>3, Smaller
  <2>2. s \ {x} \notin Bad
    BY <1>2, <2>1
  <2> QED BY <2>1, <2>2
<1>7. /\ IsFiniteSet(s) /\ \A i, j \in s : e[i] = e[j] => i = j
      /\ \A i \in s : f[e[i]] = k[i] /\ k[i] \in Int
  BY <1>1, <1>3
<1>8. SameSum(f, e, k, s)
  BY <1>6, <1>7, OneMoreName
<1> QED BY <1>3, <1>8

(* Terms that are zero may be left out.                                    *)
LEMMA SumWithoutZeros ==
  ASSUME NEW S, IsFiniteSet(S), NEW f, \A x \in S : f[x] \in Int
  PROVE  \A T \in SUBSET S : (\A x \in S \ T : f[x] = 0) => SumFunctionOnSet(f, S) = SumFunctionOnSet(f, T)
<1> SUFFICES ASSUME NEW T \in SUBSET S, \A x \in S \ T : f[x] = 0
             PROVE  SumFunctionOnSet(f, S) = SumFunctionOnSet(f, T)
  OBVIOUS
<1> DEFINE Fits(s) == SumFunctionOnSet(f, T \cup s) = SumFunctionOnSet(f, T)
           Bad == {s \in SUBSET (S \ T) : ~Fits(s)}
           Sizes == {n \in Nat : \E s \in Bad : Cardinality(s) = n}
<1>1. ASSUME NEW s \in SUBSET (S \ T), NEW x \in s, Fits(s \ {x}) PROVE Fits(s)
  <2>1. PICK U : U = T \cup (s \ {x})
    OBVIOUS
  <2>2. T \cup s = U \cup {x} /\ x \notin U /\ U \in SUBSET S /\ f[x] = 0 /\ \A y \in U \cup {x} : f[y] \in Int
    BY <2>1
  <2>3. IsFiniteSet(U)
    BY <2>2, FS_Subset
  <2>4. SumFunctionOnSet(f, U \cup {x}) = SumFunctionOnSet(f, U) + f[x]
    BY <2>2, <2>3, SumWith
  <2>5. SumFunctionOnSet(f, U) \in Int
    BY <2>2, <2>3, SumSplit
  <2>6. SumFunctionOnSet(f, U) = SumFunctionOnSet(f, T)
    BY <1>1, <2>1
  <2>7. SumFunctionOnSet(f, T \cup s) = SumFunctionOnSet(f, U \cup {x}) /\ f[x] = 0
    BY <2>2
  <2> QED BY <2>4, <2>5, <2>6, <2>7
<1>2. Fits({})
  <2>1. T \cup {} = T
    OBVIOUS
  <2> QED BY <2>1
<1> HIDE DEF Fits
<1>3. \A s \in SUBSET (S \ T) : IsFiniteSet(s) /\ Cardinality(s) \in Nat
  BY FS_Subset, FS_CardinalityType
<1>4. Bad = {}
  <2> SUFFICES ASSUME Bad # {} PROVE FALSE
    OBVIOUS
  <2>1. PICK n \in Sizes : \A m \in Sizes : n <= m
    <3>1. Sizes # {} /\ Sizes \in SUBSET Nat
      BY <1>3
    <3> HIDE DEF Sizes
    <3> QED BY <3>1, Least
  <2>2. PICK s \in Bad : Cardinality(s) = n
    BY <2>1
  <2>3. PICK x \in s : TRUE
    BY <1>2, <2>2
  <2>4. Cardinality(s \ {x}) \in Nat /\ Cardinality(s \ {x}) = n - 1 /\ s \ {x} \in SUBSET (S \ T)
    BY <1>3, <2>2, Smaller
  <2>5. s \ {x} \notin Bad
    BY <2>1, <2>4
  <2>6. Fits(s)
    BY <1>1, <2>4, <2>5
  <2> QED BY <2>2, <2>6
<1>5. Fits(S \ T) /\ T \cup (S \ T) = S
  BY <1>4
<1> QED BY <1>5 DEF Fits

LEMMA SumOfOne ==
  ASSUME NEW f, NEW x, f[x] \in Int
  PROVE  SumFunctionOnSet(f, {x}) = f[x]
<1>1. SumFunctionOnSet(f, {} \cup {x}) = SumFunctionOnSet(f, {}) + f[x]
  BY FS_EmptySet, SumWith
<1>2. {} \cup {x} = {x}
  OBVIOUS
<1> QED BY <1>1, <1>2, SumEmpty

LEMMA SumOfPair ==
  ASSUME NEW f, NEW x, NEW y, x # y, f[x] \in Int, f[y] \in Int
  PROVE  SumFunctionOnSet(f, {x, y}) = f[x] + f[y]
<1>1. PICK Z : Z = {x}
  OBVIOUS
<1>2. IsFiniteSet(Z) /\ y \notin Z /\ \A z \in Z \cup {y} : f[z] \in Int
  BY <1>1, FS_Singleton
<1>3. SumFunctionOnSet(f, Z \cup {y}) = SumFunctionOnSet(f, Z) + f[y]
  BY <1>2, SumWith
<1>4. SumFunctionOnSet(f, Z) = f[x]
  BY <1>1, SumOfOne
<1>5. Z \cup {y} = {x, y}
  BY <1>1
<1> QED BY <1>3, <1>4, <1>5

\* What the members of s under each name add up to.
PartSums(f, name, s, G) == [g \in G |-> SumFunctionOnSet(f, {x \in s : name[x] = g})]

\* One more member is one more term under its name.
LEMMA OneMoreInItsPart ==
  ASSUME NEW s, IsFiniteSet(s), NEW f, \A y \in s : f[y] \in Int, NEW G, IsFiniteSet(G),
         NEW name, \A y \in s : name[y] \in G, NEW x \in s
  PROVE  SumFunction(PartSums(f, name, s, G)) = SumFunction(PartSums(f, name, s \ {x}, G)) + f[x]
<1>1. PICK r : r = s \ {x}
  OBVIOUS
<1>2. PICK a, b : a = PartSums(f, name, r, G) /\ b = PartSums(f, name, s, G)
  OBVIOUS
<1>3. \A g \in G : /\ a[g] = SumFunctionOnSet(f, {y \in r : name[y] = g})
                   /\ b[g] = SumFunctionOnSet(f, {y \in s : name[y] = g})
  BY <1>2 DEF PartSums
<1>4. \A g : /\ IsFiniteSet({y \in r : name[y] = g}) /\ \A z \in {y \in r : name[y] = g} : f[z] \in Int
             /\ IsFiniteSet({y \in s : name[y] = g}) /\ \A z \in {y \in s : name[y] = g} : f[z] \in Int
  BY <1>1, FS_Subset
<1>5. ASSUME NEW g \in G PROVE a[g] \in Int /\ b[g] \in Int
  <2>1. PICK A, B : A = {y \in r : name[y] = g} /\ B = {y \in s : name[y] = g}
    OBVIOUS
  <2>2. IsFiniteSet(A) /\ (\A z \in A : f[z] \in Int) /\ IsFiniteSet(B) /\ \A z \in B : f[z] \in Int
    BY <1>4, <2>1
  <2>3. SumFunctionOnSet(f, A) \in Int /\ SumFunctionOnSet(f, B) \in Int
    BY <2>2, SumSplit
  <2> QED BY <1>3, <2>1, <2>3
<1>6. a \in [G -> Int] /\ b \in [G -> Int]
  BY <1>2, <1>5 DEF PartSums
<1>7. \A g \in G \ {name[x]} : b[g] = a[g]
  <2> SUFFICES ASSUME NEW g \in G \ {name[x]} PROVE b[g] = a[g]
    OBVIOUS
  <2>1. {y \in s : name[y] = g} = {y \in r : name[y] = g}
    BY <1>1
  <2> QED BY <1>3, <2>1
<1>8. b[name[x]] = a[name[x]] + f[x]
  <2>1. PICK g \in G : g = name[x]
    OBVIOUS
  <2>2. PICK T : T = {y \in r : name[y] = g}
    OBVIOUS
  <2>3. {y \in s : name[y] = g} = T \cup {x} /\ x \notin T /\ \A y \in T \cup {x} : f[y] \in Int
    BY <1>1, <2>1, <2>2
  <2>4. IsFiniteSet(T)
    BY <1>4, <2>2
  <2>5. SumFunctionOnSet(f, T \cup {x}) = SumFunctionOnSet(f, T) + f[x]
    BY <2>3, <2>4, SumWith
  <2> QED BY <1>3, <2>1, <2>2, <2>3, <2>5
<1>9. SumFunction(b) = SumFunction(a) + f[x]
  BY <1>6, <1>7, <1>8, SumRaised
<1> QED BY <1>1, <1>2, <1>9

(* A sum by parts, each under a name of its own, is the sum over all.      *)
LEMMA SumOfParts ==
  ASSUME NEW S, IsFiniteSet(S), NEW f, \A x \in S : f[x] \in Int, NEW G, IsFiniteSet(G),
         NEW name, \A x \in S : name[x] \in G
  PROVE  SumFunction(PartSums(f, name, S, G)) = SumFunctionOnSet(f, S)
<1> DEFINE Fits(s) == SumFunction(PartSums(f, name, s, G)) = SumFunctionOnSet(f, s)
           Bad == {s \in SUBSET S : ~Fits(s)}
           Sizes == {n \in Nat : \E s \in Bad : Cardinality(s) = n}
<1>1. ASSUME NEW s \in SUBSET S, NEW x \in s, Fits(s \ {x}) PROVE Fits(s)
  <2>1. IsFiniteSet(s) /\ \A y \in s : f[y] \in Int /\ name[y] \in G
    BY FS_Subset
  <2>2. SumFunction(PartSums(f, name, s, G)) = SumFunction(PartSums(f, name, s \ {x}, G)) + f[x]
    BY <2>1, OneMoreInItsPart
  <2>3. SumFunctionOnSet(f, s) = f[x] + SumFunctionOnSet(f, s \ {x}) /\ f[x] \in Int
    BY <2>1, SumSplit
  <2>4. SumFunctionOnSet(f, s \ {x}) \in Int
    <3>1. IsFiniteSet(s \ {x}) /\ \A y \in s \ {x} : f[y] \in Int
      BY <2>1, Smaller
    <3> QED BY <3>1, SumSplit
  <2> QED BY <1>1, <2>2, <2>3, <2>4
<1>2. Fits({})
  <2>1. PICK z : z = PartSums(f, name, {}, G)
    OBVIOUS
  <2>2. DOMAIN z = G /\ \A g \in G : z[g] = SumFunctionOnSet(f, {x \in {} : name[x] = g})
    BY <2>1 DEF PartSums
  <2>3. \A g \in G : z[g] = 0
    <3>1. \A g \in G : {x \in {} : name[x] = g} = {}
      OBVIOUS
    <3> QED BY <2>2, <3>1, SumEmpty
  <2>4. SumFunction(z) = 0
    BY <2>2, <2>3, SumOfZeros DEF SumFunction
  <2> QED BY <2>1, <2>4, SumEmpty
<1> HIDE DEF Fits
<1>3. \A s \in SUBSET S : IsFiniteSet(s) /\ Cardinality(s) \in Nat
  BY FS_Subset, FS_CardinalityType
<1>4. Bad = {}
  <2> SUFFICES ASSUME Bad # {} PROVE FALSE
    OBVIOUS
  <2>1. PICK n \in Sizes : \A m \in Sizes : n <= m
    <3>1. Sizes # {} /\ Sizes \in SUBSET Nat
      BY <1>3
    <3> HIDE DEF Sizes
    <3> QED BY <3>1, Least
  <2>2. PICK s \in Bad : Cardinality(s) = n
    BY <2>1
  <2>3. PICK x \in s : TRUE
    BY <1>2, <2>2
  <2>4. Cardinality(s \ {x}) \in Nat /\ Cardinality(s \ {x}) = n - 1 /\ s \ {x} \in SUBSET S
    BY <1>3, <2>2, Smaller
  <2>5. s \ {x} \notin Bad
    BY <2>1, <2>4
  <2>6. Fits(s)
    BY <1>1, <2>4, <2>5
  <2> QED BY <2>2, <2>6
<1>5. Fits(S)
  BY <1>4
<1> QED BY <1>5 DEF Fits

\* Of two parts of which one is the whole but for the other.
LEMMA SumOfTwo ==
  ASSUME NEW S, IsFiniteSet(S), NEW f, \A x \in S : f[x] \in Int, NEW A \in SUBSET S
  PROVE  SumFunctionOnSet(f, S) = SumFunctionOnSet(f, A) + SumFunctionOnSet(f, S \ A)
<1>1. PICK name : name = [x \in S |-> IF x \in A THEN 0 ELSE 1]
  OBVIOUS
<1>2. PICK p : p = PartSums(f, name, S, {0, 1})
  OBVIOUS
<1>3. SumFunction(p) = SumFunctionOnSet(f, S)
  <2>1. IsFiniteSet({0, 1})
    <3>1. IsFiniteSet({0} \cup {1})
      BY FS_Singleton, FS_AddElement, Zenon
    <3>2. {0} \cup {1} = {0, 1}
      OBVIOUS
    <3> QED BY <3>1, <3>2
  <2>2. \A x \in S : name[x] \in {0, 1}
    BY <1>1
  <2> QED BY <1>2, <2>1, <2>2, SumOfParts
<1>4. p[0] = SumFunctionOnSet(f, A) /\ p[1] = SumFunctionOnSet(f, S \ A)
  <2>1. {x \in S : name[x] = 0} = A /\ {x \in S : name[x] = 1} = S \ A
    BY <1>1
  <2> QED BY <1>2, <2>1 DEF PartSums
<1>5. IsFiniteSet(A) /\ IsFiniteSet(S \ A)
  BY FS_Subset
<1>6. p[0] \in Int /\ p[1] \in Int
  <2>1. (\A x \in A : f[x] \in Int) /\ (\A x \in S \ A : f[x] \in Int)
    OBVIOUS
  <2> QED BY <1>4, <1>5, <2>1, SumSplit
<1>7. SumFunction(p) = SumFunctionOnSet(p, {0, 1})
  BY <1>2 DEF PartSums, SumFunction
<1>8. SumFunctionOnSet(p, {0, 1}) = p[0] + p[1]
  <2>1. 0 # 1
    OBVIOUS
  <2> QED BY <1>6, <2>1, SumOfPair
<1> QED BY <1>3, <1>4, <1>7, <1>8
=============================================================================
