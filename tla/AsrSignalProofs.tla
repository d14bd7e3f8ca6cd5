--------------------------- MODULE AsrSignalProofs ---------------------------
(***************************************************************************)
(* What the signal check counts and what it decides, for every file, every *)
(* number of channels and every size of the chunks.                        *)
(*                                                                         *)
(* The first part is about sums over finite sets: the library defines them *)
(* by a recursive function on the subsets of a set, in an order that is    *)
(* not known, so that all that is known of an order is what the lemmas     *)
(* say: none matters.  The second part is about the reader.                *)
(***************************************************************************)
EXTENDS AsrSignal, TLAPS, FiniteSetTheorems, WellFoundedInduction,
        FunctionTheorems

(* Induction on numbers and on the subsets of a finite set, for a set in    *)
(* the place of the property.                                               *)
LEMMA Least ==
  ASSUME NEW T, T \subseteq Nat, T # {}
  PROVE  \E n \in T : \A m \in T : n <= m
<1>1. PICK n \in T : \A m \in T : ~(<<m, n>> \in OpToRel(<, Nat))
  BY NatLessThanWellFounded, WFMin
<1>2. \A m \in T : ~(m < n)
  BY <1>1 DEF OpToRel
<1> QED BY <1>2

LEMMA OneByOne ==
  ASSUME NEW Q, 0 \in Q, \A n \in Nat : n \in Q => n + 1 \in Q
  PROVE  Nat \subseteq Q
<1> DEFINE T == Nat \ Q
<1>1. SUFFICES ASSUME T # {} PROVE FALSE
  OBVIOUS
<1>2. PICK n \in T : \A m \in T : n <= m
  BY <1>1, Least
<1>3. n # 0 /\ n - 1 \in Nat /\ n - 1 \notin T
  BY <1>2
<1> QED BY <1>2, <1>3

LEMMA ElementByElement ==
  ASSUME NEW S, IsFiniteSet(S), NEW Q, {} \in Q,
         \A A \in SUBSET S, x \in S : x \in A /\ A \ {x} \in Q => A \in Q
  PROVE  SUBSET S \subseteq Q
<1> DEFINE T == {Cardinality(A) : A \in (SUBSET S) \ Q}
<1>1. \A A \in SUBSET S : IsFiniteSet(A) /\ Cardinality(A) \in Nat
  BY FS_Subset, FS_CardinalityType
<1>2. SUFFICES ASSUME T # {} PROVE FALSE
  OBVIOUS
<1>3. PICK n \in T : \A m \in T : n <= m
  <2>1. T \subseteq Nat
    BY <1>1
  <2> HIDE DEF T
  <2> QED BY <1>2, <2>1, Least
<1>4. PICK A \in (SUBSET S) \ Q : n = Cardinality(A)
  BY <1>3
<1>5. PICK x \in A : TRUE
  BY <1>4
<1>6. Cardinality(A \ {x}) = n - 1 /\ A \ {x} \in SUBSET S /\ n \in Nat
  BY <1>1, <1>4, FS_RemoveElement
<1>7. A \ {x} \notin Q
  BY <1>4
<1>8. n - 1 \in T
  BY <1>6, <1>7
<1> QED BY <1>3, <1>6, <1>8
-----------------------------------------------------------------------------
(* Sums over finite sets.                                                   *)
Pick(s) == CHOOSE x \in s : TRUE

Sum(f, S) == SumFunctionOnSet(f, S)

(* g is the recursive function of the library: the sum of f over each       *)
(* subset of S, one picked element after the other.                         *)
IsSums(f, S, g) ==
  g = [s \in SUBSET S |->
         IF s = {} THEN 0 ELSE f[Pick(s)] + g[s \ {Pick(s)}]]

LEMMA PickIsIn == ASSUME NEW s, s # {} PROVE Pick(s) \in s
BY DEF Pick

LEMMA Unfold ==
  ASSUME NEW f, NEW S
  PROVE  Sum(f, S) = (CHOOSE g : IsSums(f, S, g))[S]
BY DEF Sum, SumFunctionOnSet, FoldFunctionOnSet, MapThenFoldSet, Pick, IsSums

LEMMA SumsExist ==
  ASSUME NEW f, NEW S, IsFiniteSet(S)
  PROVE  \E g : IsSums(f, S, g)
<1> DEFINE Rule(g, s) ==
             g[s] = IF s = {} THEN 0 ELSE f[Pick(s)] + g[s \ {Pick(s)}]
           Upto(n) == \E g : /\ g = [s \in SUBSET S |-> g[s]]
                             /\ \A s \in SUBSET S :
                                  Cardinality(s) <= n => Rule(g, s)
           Q == {n \in Nat : Upto(n)}
<1>1. \A s \in SUBSET S :
        /\ IsFiniteSet(s) /\ Cardinality(s) \in Nat
        /\ Cardinality(s) <= Cardinality(S)
        /\ Cardinality(s) = 0 <=> s = {}
  BY FS_Subset, FS_CardinalityType, FS_EmptySet
<1>2. \A s \in SUBSET S : s # {} =>
        /\ s \ {Pick(s)} \in SUBSET S
        /\ Cardinality(s \ {Pick(s)}) = Cardinality(s) - 1
  BY <1>1, PickIsIn, FS_RemoveElement
<1>3. 0 \in Q
  <2> DEFINE g == [s \in SUBSET S |-> 0]
  <2>1. g = [s \in SUBSET S |-> g[s]]
    OBVIOUS
  <2>2. \A s \in SUBSET S : Cardinality(s) <= 0 => Rule(g, s)
    BY <1>1
  <2>3. Upto(0)
    BY <2>1, <2>2
  <2> QED BY <2>3
<1>4. ASSUME NEW n \in Nat, n \in Q PROVE n + 1 \in Q
  <2>1. PICK g : /\ g = [s \in SUBSET S |-> g[s]]
                 /\ \A s \in SUBSET S : Cardinality(s) <= n => Rule(g, s)
    BY <1>4
  <2> DEFINE h == [s \in SUBSET S |-> IF Cardinality(s) <= n THEN g[s]
                                     ELSE f[Pick(s)] + g[s \ {Pick(s)}]]
  <2>2. h = [s \in SUBSET S |-> h[s]]
    OBVIOUS
  <2>3. ASSUME NEW s \in SUBSET S, Cardinality(s) <= n + 1 PROVE Rule(h, s)
    <3>1. CASE s = {}
      <4>1. Cardinality(s) <= n
        BY <1>1, <3>1
      <4> QED BY <2>1, <3>1, <4>1
    <3>2. CASE s # {}
      <4>1. h[s \ {Pick(s)}] = g[s \ {Pick(s)}]
        BY <1>1, <1>2, <2>3, <3>2
      <4>2. h[s] = f[Pick(s)] + g[s \ {Pick(s)}]
        BY <2>1, <3>2
      <4> HIDE DEF h
      <4> QED BY <3>2, <4>1, <4>2
    <3> QED BY <3>1, <3>2
  <2> HIDE DEF h
  <2>4. Upto(n + 1)
    BY <2>2, <2>3
  <2> HIDE DEF Upto
  <2> QED BY <2>4
<1>5. Cardinality(S) \in Q
  <2> HIDE DEF Q
  <2>1. Nat \subseteq Q
    BY <1>3, <1>4, OneByOne
  <2> QED BY <1>1, <2>1
<1>6. PICK g : /\ g = [s \in SUBSET S |-> g[s]]
               /\ \A s \in SUBSET S :
                    Cardinality(s) <= Cardinality(S) => Rule(g, s)
  BY <1>5
<1>7. \A s \in SUBSET S : Rule(g, s)
  BY <1>1, <1>6
<1>8. IsSums(f, S, g)
  BY <1>6, <1>7 DEF IsSums
<1> QED BY <1>8

(* The sums of a set contain those of its subsets.                          *)
LEMMA SumsAgree ==
  ASSUME NEW f, NEW S, IsFiniteSet(S), NEW g, IsSums(f, S, g),
         NEW T \in SUBSET S, NEW h, IsSums(f, T, h)
  PROVE  \A s \in SUBSET T : g[s] = h[s]
<1> DEFINE Q == {s \in SUBSET T : g[s] = h[s]}
<1>1. IsFiniteSet(T)
  BY FS_Subset
<1>2. \A s \in SUBSET S :
        g[s] = IF s = {} THEN 0 ELSE f[Pick(s)] + g[s \ {Pick(s)}]
  BY DEF IsSums
<1>3. \A s \in SUBSET T :
        h[s] = IF s = {} THEN 0 ELSE f[Pick(s)] + h[s \ {Pick(s)}]
  BY DEF IsSums
<1>4. {} \in Q
  BY <1>2, <1>3
<1> DEFINE N == {n \in Nat : \A s \in SUBSET T : Cardinality(s) = n => s \in Q}
<1>5. \A s \in SUBSET T : IsFiniteSet(s) /\ Cardinality(s) \in Nat
        /\ (Cardinality(s) = 0 <=> s = {})
  BY <1>1, FS_Subset, FS_CardinalityType, FS_EmptySet
<1>6. 0 \in N
  BY <1>4, <1>5
<1>7. ASSUME NEW n \in Nat, n \in N PROVE n + 1 \in N
  <2> SUFFICES ASSUME NEW s \in SUBSET T, Cardinality(s) = n + 1
               PROVE  g[s] = h[s]
    OBVIOUS
  <2>1. s # {} /\ Pick(s) \in s
    BY <1>5, PickIsIn
  <2>2. Cardinality(s \ {Pick(s)}) = n /\ s \ {Pick(s)} \in SUBSET T
    BY <1>5, <2>1, FS_RemoveElement
  <2>3. g[s \ {Pick(s)}] = h[s \ {Pick(s)}]
    BY <1>7, <2>2
  <2> QED BY <1>2, <1>3, <2>1, <2>3
<1>8. Nat \subseteq N
  <2> HIDE DEF N
  <2> QED BY <1>6, <1>7, OneByOne
<1> QED BY <1>5, <1>8

LEMMA SumsAreSums ==
  ASSUME NEW f, NEW S, IsFiniteSet(S)
  PROVE  \E g : /\ IsSums(f, S, g)
                /\ \A T \in SUBSET S : Sum(f, T) = g[T]
<1> DEFINE G(T) == CHOOSE g : IsSums(f, T, g)
<1>1. \A T \in SUBSET S : IsSums(f, T, G(T))
  BY SumsExist, FS_Subset
<1>2. \A T \in SUBSET S : Sum(f, T) = G(T)[T]
  BY Unfold
<1> HIDE DEF G
<1>3. \A T \in SUBSET S : G(S)[T] = G(T)[T]
  BY <1>1, SumsAgree
<1> QED BY <1>1, <1>2, <1>3

LEMMA SumByPick ==
  ASSUME NEW f, NEW S, IsFiniteSet(S)
  PROVE  Sum(f, S) =
           IF S = {} THEN 0 ELSE f[Pick(S)] + Sum(f, S \ {Pick(S)})
<1>1. PICK g : /\ IsSums(f, S, g)
               /\ \A T \in SUBSET S : Sum(f, T) = g[T]
  BY SumsAreSums
<1>2. g[S] = IF S = {} THEN 0 ELSE f[Pick(S)] + g[S \ {Pick(S)}]
  BY <1>1 DEF IsSums
<1> QED BY <1>1, <1>2

LEMMA SumIsInt ==
  ASSUME NEW f, NEW S, IsFiniteSet(S), \A x \in S : f[x] \in Int
  PROVE  Sum(f, S) \in Int
<1> DEFINE N == {n \in Nat :
                   \A A \in SUBSET S : Cardinality(A) = n => Sum(f, A) \in Int}
<1>1. \A A \in SUBSET S : /\ IsFiniteSet(A) /\ Cardinality(A) \in Nat
                          /\ Cardinality(A) = 0 <=> A = {}
  BY FS_Subset, FS_CardinalityType, FS_EmptySet
<1>2. 0 \in N
  <2>1. Sum(f, {}) = 0
    BY FS_EmptySet, SumByPick
  <2> QED BY <1>1, <2>1
<1>3. ASSUME NEW n \in Nat, n \in N PROVE n + 1 \in N
  <2> SUFFICES ASSUME NEW A \in SUBSET S, Cardinality(A) = n + 1
               PROVE  Sum(f, A) \in Int
    OBVIOUS
  <2>1. A # {} /\ Pick(A) \in A
    BY <1>1, PickIsIn
  <2>2. Cardinality(A \ {Pick(A)}) = n /\ A \ {Pick(A)} \in SUBSET S
    BY <1>1, <2>1, FS_RemoveElement
  <2>3. Sum(f, A \ {Pick(A)}) \in Int /\ f[Pick(A)] \in Int
    BY <1>3, <2>1, <2>2
  <2>4. Sum(f, A) = f[Pick(A)] + Sum(f, A \ {Pick(A)})
    BY <1>1, <2>1, SumByPick
  <2> QED BY <2>3, <2>4
<1>4. Nat \subseteq N
  <2> HIDE DEF N
  <2> QED BY <1>2, <1>3, OneByOne
<1> QED BY <1>1, <1>4

(* Any element may be added last.                                           *)
LEMMA SumByAny ==
  ASSUME NEW f, NEW S, IsFiniteSet(S), \A x \in S : f[x] \in Int, NEW x \in S
  PROVE  Sum(f, S) = f[x] + Sum(f, S \ {x})
<1> DEFINE Rule(A) == \A y \in A : Sum(f, A) = f[y] + Sum(f, A \ {y})
           N == {n \in Nat : \A A \in SUBSET S : Cardinality(A) = n => Rule(A)}
<1>1. \A A \in SUBSET S : /\ IsFiniteSet(A) /\ Cardinality(A) \in Nat
                          /\ Cardinality(A) = 0 <=> A = {}
  BY FS_Subset, FS_CardinalityType, FS_EmptySet
<1>2. \A A \in SUBSET S : Sum(f, A) \in Int
  BY <1>1, SumIsInt
<1>3. 0 \in N
  BY <1>1
<1>4. ASSUME NEW n \in Nat, n \in N PROVE n + 1 \in N
  <2> SUFFICES ASSUME NEW A \in SUBSET S, Cardinality(A) = n + 1, NEW y \in A
               PROVE  Sum(f, A) = f[y] + Sum(f, A \ {y})
    OBVIOUS
  <2> DEFINE z == Pick(A)
  <2>1. z \in A
    BY PickIsIn
  <2>2. Sum(f, A) = f[z] + Sum(f, A \ {z})
    BY <1>1, <2>1, SumByPick
  <2> HIDE DEF z
  <2>3. CASE y = z
    BY <2>2, <2>3
  <2>4. CASE y # z
    <3>1. /\ A \ {z} \in SUBSET S /\ Cardinality(A \ {z}) = n
          /\ A \ {y} \in SUBSET S /\ Cardinality(A \ {y}) = n
      <4>1. \A w \in A : Cardinality(A \ {w}) = n
        BY <1>1, FS_RemoveElement
      <4> QED BY <2>1, <4>1
    <3>2. Sum(f, A \ {z}) = f[y] + Sum(f, (A \ {z}) \ {y})
      <4>1. Rule(A \ {z})
        BY <1>4, <3>1
      <4> QED BY <2>4, <4>1
    <3>3. Sum(f, A \ {y}) = f[z] + Sum(f, (A \ {y}) \ {z})
      <4>1. Rule(A \ {y})
        BY <1>4, <3>1
      <4> QED BY <2>1, <2>4, <4>1
    <3> DEFINE rest == Sum(f, (A \ {z}) \ {y})
    <3>4. rest \in Int /\ f[y] \in Int /\ f[z] \in Int
      BY <1>2, <2>1
    <3>5. (A \ {y}) \ {z} = (A \ {z}) \ {y}
      OBVIOUS
    <3>6. Sum(f, A) = f[z] + (f[y] + rest)
      BY <2>2, <3>2
    <3>7. Sum(f, A \ {y}) = f[z] + rest
      BY <3>3, <3>5
    <3> HIDE DEF rest
    <3> QED BY <3>4, <3>6, <3>7
  <2> QED BY <2>3, <2>4
<1>5. Nat \subseteq N
  <2> HIDE DEF N
  <2> QED BY <1>3, <1>4, OneByOne
<1> QED BY <1>1, <1>5

(* A sum does not depend on the names of the elements.                      *)
LEMMA SumRenamed ==
  ASSUME NEW S, IsFiniteSet(S), NEW T, NEW m \in Bijection(S, T),
         NEW f, NEW h, \A x \in S : f[x] \in Int /\ h[m[x]] = f[x]
  PROVE  Sum(h, T) = Sum(f, S)
<1> DEFINE Image(A) == {m[x] : x \in A}
           Q == {A \in SUBSET S : Sum(h, Image(A)) = Sum(f, A)}
<1>1. /\ m \in [S -> T] /\ \A x, y \in S : m[x] = m[y] => x = y
      /\ IsFiniteSet(T) /\ T = Image(S)
  <2>1. IsFiniteSet(T)
    BY FS_Bijection DEF ExistsBijection
  <2> QED BY <2>1 DEF Bijection, Injection, Surjection, IsInjective
<1>2. \A A \in SUBSET S : /\ IsFiniteSet(A) /\ IsFiniteSet(Image(A))
                          /\ \A z \in Image(A) : h[z] \in Int
  BY <1>1, FS_Subset
<1>3. {} \in Q
  <2>1. Image({}) = {} /\ IsFiniteSet({})
    BY <1>2
  <2> QED BY <2>1, SumByPick
<1>4. ASSUME NEW A \in SUBSET S, NEW x \in S, x \in A, A \ {x} \in Q
      PROVE  A \in Q
  <2>1. Image(A \ {x}) = Image(A) \ {m[x]} /\ m[x] \in Image(A)
    BY <1>1, <1>4
  <2>2. Sum(h, Image(A)) = h[m[x]] + Sum(h, Image(A) \ {m[x]})
    <3>1. IsFiniteSet(Image(A)) /\ \A z \in Image(A) : h[z] \in Int
      BY <1>2
    <3> HIDE DEF Image
    <3> QED BY <2>1, <3>1, SumByAny
  <2>3. Sum(f, A) = f[x] + Sum(f, A \ {x})
    <3>1. IsFiniteSet(A) /\ \A z \in A : f[z] \in Int
      BY <1>2
    <3> QED BY <1>4, <3>1, SumByAny
  <2> QED BY <1>4, <2>1, <2>2, <2>3
<1>5. S \in Q
  <2> HIDE DEF Q
  <2> QED BY <1>3, <1>4, ElementByElement
<1> QED BY <1>1, <1>5

(* A sum may be taken in two parts.                                         *)
LEMMA SumOfParts ==
  ASSUME NEW f, NEW S, IsFiniteSet(S), \A x \in S : f[x] \in Int,
         NEW T \in SUBSET S
  PROVE  Sum(f, S) = Sum(f, T) + Sum(f, S \ T)
<1> DEFINE Q == {A \in SUBSET S : Sum(f, S) = Sum(f, A) + Sum(f, S \ A)}
<1>1. \A A \in SUBSET S : IsFiniteSet(A) /\ Sum(f, A) \in Int
  BY FS_Subset, SumIsInt
<1>2. {} \in Q
  <2>1. Sum(f, {}) = 0 /\ S \ {} = S
    BY <1>1, SumByPick
  <2> QED BY <1>1, <2>1
<1>3. ASSUME NEW A \in SUBSET S, NEW x \in S, x \in A, A \ {x} \in Q
      PROVE  A \in Q
  <2>1. Sum(f, A) = f[x] + Sum(f, A \ {x})
    BY <1>1, <1>3, SumByAny
  <2>2. /\ (S \ (A \ {x})) \ {x} = S \ A
        /\ x \in S \ (A \ {x}) /\ S \ (A \ {x}) \in SUBSET S
    BY <1>3
  <2>3. Sum(f, S \ (A \ {x})) = f[x] + Sum(f, S \ A)
    BY <1>1, <2>2, SumByAny
  <2>4. Sum(f, S) = Sum(f, A \ {x}) + Sum(f, S \ (A \ {x}))
    BY <1>3
  <2>5. /\ Sum(f, A \ {x}) \in Int /\ f[x] \in Int /\ Sum(f, S \ A) \in Int
    BY <1>1
  <2> QED BY <2>1, <2>3, <2>4, <2>5
<1>4. SUBSET S \subseteq Q
  <2> HIDE DEF Q
  <2> QED BY <1>2, <1>3, ElementByElement
<1> QED BY <1>4
-----------------------------------------------------------------------------
(* The greatest of finitely many numbers.                                   *)
LEMMA MaxIs ==
  ASSUME NEW S, S \subseteq Int, NEW x \in S, \A y \in S : y <= x
  PROVE  Max(S) = x
<1>1. \A y \in S : x >= y
  OBVIOUS
<1>2. Max(S) \in S /\ \A y \in S : Max(S) >= y
  BY <1>1 DEF Max
<1>3. Max(S) >= x /\ Max(S) <= x /\ Max(S) \in Int /\ x \in Int
  BY <1>2
<1> QED BY <1>3

LEMMA MaxIsIn ==
  ASSUME NEW S, IsFiniteSet(S), S \subseteq Int, S # {}
  PROVE  Max(S) \in S /\ \A y \in S : y <= Max(S)
<1> DEFINE Q == {A \in SUBSET S : A # {} => \E x \in A : \A y \in A : y <= x}
<1>1. ASSUME NEW A \in SUBSET S, NEW x \in S, x \in A, A \ {x} \in Q
      PROVE  A \in Q
  <2>1. CASE A \ {x} = {}
    BY <1>1, <2>1
  <2>2. CASE A \ {x} # {}
    <3>1. PICK z \in A \ {x} : \A y \in A \ {x} : y <= z
      BY <1>1, <2>2
    <3>2. \A y \in A : y <= IF x <= z THEN z ELSE x
      BY <3>1
    <3> QED BY <1>1, <3>1, <3>2
  <2> QED BY <2>1, <2>2
<1>2. S \in Q
  <2>1. {} \in Q
    OBVIOUS
  <2> HIDE DEF Q
  <2> QED BY <1>1, <2>1, ElementByElement
<1>3. PICK x \in S : \A y \in S : y <= x
  BY <1>2
<1> QED BY <1>3, MaxIs

LEMMA MinOfTwo ==
  ASSUME NEW a \in Int, NEW b \in Int
  PROVE  Min({a, b}) = IF a <= b THEN a ELSE b
<1> DEFINE x == IF a <= b THEN a ELSE b
<1>1. x \in {a, b} /\ \A y \in {a, b} : x <= y
  OBVIOUS
<1>2. Min({a, b}) \in {a, b} /\ \A y \in {a, b} : Min({a, b}) <= y
  <2> HIDE DEF x
  <2> QED BY <1>1 DEF Min
<1> QED BY <1>1, <1>2
-----------------------------------------------------------------------------
(* Frames of c samples each.                                                *)
LEMMA WholeFrames ==
  ASSUME NEW c \in Nat \ {0}, NEW a \in Nat, a % c = 0
  PROVE  a \div c \in Nat /\ a = (a \div c) * c
OBVIOUS

LEMMA SamplesOfFrames ==
  ASSUME NEW c \in Nat \ {0}, NEW q \in Nat
  PROVE  q * c \in Nat /\ (q * c) % c = 0 /\ (q * c) \div c = q
OBVIOUS

LEMMA FramesInOrder ==
  ASSUME NEW c \in Nat \ {0}, NEW q \in Int, NEW n \in Int
  PROVE  q * c <= n * c <=> q <= n
OBVIOUS

(* The first sample of a frame is the one whose index is counted.           *)
LEMMA FirstOfFrame ==
  ASSUME NEW c \in Nat \ {0}, NEW l \in Nat
  PROVE  {i \in 1..(l * c) : (i - 1) % c = 0} = {(j - 1) * c + 1 : j \in 1..l}
<1>1. ASSUME NEW i \in 1..(l * c), (i - 1) % c = 0
      PROVE  \E j \in 1..l : i = (j - 1) * c + 1
  <2>1. i - 1 \in Nat
    OBVIOUS
  <2> DEFINE d == (i - 1) \div c
  <2>2. d \in Nat /\ i - 1 = d * c
    BY <1>1, <2>1, WholeFrames
  <2> HIDE DEF d
  <2>3. d < l
    BY <2>2
  <2>4. d + 1 \in 1..l /\ i = ((d + 1) - 1) * c + 1
    BY <2>2, <2>3
  <2> QED BY <2>4
<1>2. ASSUME NEW j \in 1..l
      PROVE  (j - 1) * c + 1 \in 1..(l * c) /\ ((j - 1) * c + 1 - 1) % c = 0
  OBVIOUS
<1> DEFINE counted == {i \in 1..(l * c) : (i - 1) % c = 0}
           firsts  == {(j - 1) * c + 1 : j \in 1..l}
<1>3. counted \subseteq firsts
  BY <1>1
<1>4. firsts \subseteq counted
  BY <1>2
<1> QED BY <1>3, <1>4
-----------------------------------------------------------------------------
(* The first channel of a file, and the part of it that has been seen after *)
(* q frames.                                                                *)
Frames(f)    == Len(f.data) \div f.channelCount
Seen(f, q)   == SubSeq(FirstChannel(f), 1, q)
Square(f)    == [k \in 1..Frames(f) |-> FirstChannel(f)[k] * FirstChannel(f)[k]]

LEMMA SamplesAreNumbers == Samples \subseteq Int
BY DEF Samples

LEMMA FileFacts ==
  ASSUME NEW f \in Files
  PROVE  /\ f.channelCount \in Nat \ {0} /\ f.sampleWidth \in Nat
         /\ f.frameRate \in Nat /\ f.frameCount \in Nat
         /\ f.data \in Seq(Samples)
         /\ Frames(f) \in Nat /\ Len(f.data) = Frames(f) * f.channelCount
<1>1. /\ f.channelCount \in Nat \ {0} /\ f.sampleWidth \in Nat
      /\ f.frameRate \in Nat /\ f.frameCount \in Nat
      /\ f.data \in Seq(Samples)
      /\ Len(f.data) % f.channelCount = 0
  <2>1. f \in File /\ Len(f.data) % f.channelCount = 0
    BY AsrSignalAssumption DEF AsrSignalAssumption
  <2> QED BY <2>1 DEF File
<1>2. Len(f.data) \in Nat
  BY <1>1
<1>3. /\ Len(f.data) \div f.channelCount \in Nat
      /\ Len(f.data) = (Len(f.data) \div f.channelCount) * f.channelCount
  BY <1>1, <1>2, WholeFrames
<1> QED BY <1>1, <1>3 DEF Frames

LEMMA ChannelFacts ==
  ASSUME NEW f \in Files
  PROVE  /\ FirstChannel(f) \in Seq(Samples)
         /\ Len(FirstChannel(f)) = Frames(f)
         /\ \A k \in 1..Frames(f) :
              /\ (k - 1) * f.channelCount + 1 \in 1..Len(f.data)
              /\ FirstChannel(f)[k] = f.data[(k - 1) * f.channelCount + 1]
              /\ FirstChannel(f)[k] \in Samples
<1> DEFINE c == f.channelCount
           n == Frames(f)
           data == f.data
<1>1. /\ c \in Nat \ {0} /\ data \in Seq(Samples) /\ n \in Nat
      /\ Len(data) = n * c
  BY FileFacts
<1>2. FirstChannel(f) = [k \in 1..n |-> data[(k - 1) * c + 1]]
  BY DEF FirstChannel, Frames
<1> HIDE DEF c, n, data
<1>3. ASSUME NEW k \in 1..n PROVE (k - 1) * c + 1 \in 1..Len(data)
  <2>1. k * c <= n * c /\ k * c = (k - 1) * c + c /\ (k - 1) * c \in Nat
    BY <1>1
  <2> QED BY <1>1, <2>1
<1>4. \A k \in 1..n : data[(k - 1) * c + 1] \in Samples
  BY <1>1, <1>3
<1>5. /\ FirstChannel(f) \in Seq(Samples)
      /\ Len(FirstChannel(f)) = n
  BY <1>1, <1>2, <1>4
<1> QED BY <1>2, <1>3, <1>4, <1>5 DEF c, n, data

LEMMA SeenFacts ==
  ASSUME NEW f \in Files, NEW q \in 0..Frames(f)
  PROVE  /\ Len(Seen(f, q)) = q /\ DOMAIN Seen(f, q) = 1..q
         /\ \A k \in 1..q : Seen(f, q)[k] = FirstChannel(f)[k]
<1>1. Frames(f) \in Nat
  BY FileFacts
<1> QED BY <1>1, ChannelFacts DEF Seen

LEMMA SameSums ==
  ASSUME NEW S, IsFiniteSet(S), NEW f, NEW h,
         \A x \in S : f[x] \in Int /\ h[x] = f[x]
  PROVE  Sum(h, S) = Sum(f, S)
<1> DEFINE m == [x \in S |-> x]
<1>1. m \in Bijection(S, S) /\ \A x \in S : m[x] = x
  BY DEF Bijection, Injection, Surjection, IsInjective
<1> HIDE DEF m
<1> QED BY <1>1, SumRenamed

LEMMA SquaresSeen ==
  ASSUME NEW f \in Files, NEW q \in 0..Frames(f)
  PROVE  /\ SquaresOf(Seen(f, q)) = Sum(Square(f), 1..q)
         /\ \A k \in 1..Frames(f) : Square(f)[k] \in Int
<1> DEFINE s == Seen(f, q)
           h == [k \in DOMAIN s |-> s[k] * s[k]]
<1>1. \A k \in 1..Frames(f) :
        /\ Square(f)[k] \in Int
        /\ Square(f)[k] = FirstChannel(f)[k] * FirstChannel(f)[k]
  <2>1. \A k \in 1..Frames(f) : FirstChannel(f)[k] \in Int
    BY ChannelFacts, SamplesAreNumbers
  <2> QED BY <2>1 DEF Square
<1>2. 1..q \subseteq 1..Frames(f) /\ IsFiniteSet(1..q)
  BY FileFacts, FS_Interval
<1>3. DOMAIN h = 1..q /\ \A k \in 1..q : h[k] = Square(f)[k]
  BY <1>1, <1>2, SeenFacts
<1>4. SquaresOf(s) = Sum(h, 1..q)
  BY <1>3 DEF SquaresOf, SumFunction, Sum
<1> HIDE DEF h
<1>5. Sum(h, 1..q) = Sum(Square(f), 1..q)
  BY <1>1, <1>2, <1>3, SameSums
<1> QED BY <1>1, <1>4, <1>5
-----------------------------------------------------------------------------
(* A chunk is some frames of the file, fewer than ChunkFrames only at its   *)
(* end; what is counted in it are their samples of the first channel.       *)
ChunkIs(f, q, l) ==
  /\ q + l <= Frames(f) /\ (l = 0 <=> q = Frames(f))
  /\ Len(Chunk) = l * f.channelCount /\ (Chunk = <<>> <=> l = 0)
  /\ Counted(Chunk) = {(j - 1) * f.channelCount + 1 : j \in 1..l}
  /\ \A j \in 1..l :
       Chunk[(j - 1) * f.channelCount + 1] = FirstChannel(f)[q + j]

LEMMA ChunkFacts ==
  ASSUME NEW f \in Files, NEW q \in 0..Frames(f),
         wav.file = f, wav.position = q * f.channelCount
  PROVE  \E l \in Nat : ChunkIs(f, q, l)
<1> DEFINE c == f.channelCount
           n == Frames(f)
           data == f.data
           l == IF q + ChunkFrames <= n THEN ChunkFrames ELSE n - q
<1>1. /\ c \in Nat \ {0} /\ data \in Seq(Samples) /\ n \in Nat
      /\ Len(data) = n * c /\ q \in 0..n
  BY FileFacts
<1>2. ChunkFrames \in Nat \ {0}
  BY AsrSignalAssumption DEF AsrSignalAssumption
<1>3. Chunk = SubSeq(data, q * c + 1, Min({q * c + ChunkFrames * c, Len(data)}))
  BY DEF Chunk
<1>4. FirstChannel(f) = [k \in 1..n |-> data[(k - 1) * c + 1]]
  BY DEF FirstChannel, Frames
<1>5. Counted(Chunk) =
        {i \in DOMAIN Chunk : c > 1 => (i - 1) % c = 0}
  BY DEF Counted
<1> HIDE DEF c, n, data
<1>6. l \in Nat /\ q + l <= n /\ (l = 0 <=> q = n)
  BY <1>1, <1>2
<1>7. Min({q * c + ChunkFrames * c, Len(data)}) = (q + l) * c
  <2>1. /\ q * c + ChunkFrames * c = (q + ChunkFrames) * c
        /\ (q + ChunkFrames) * c \in Int /\ n * c \in Int
    BY <1>1, <1>2
  <2>2. (q + ChunkFrames) * c <= n * c <=> q + ChunkFrames <= n
    BY <1>1, <1>2, FramesInOrder
  <2>3. q + l = IF q + ChunkFrames <= n THEN q + ChunkFrames ELSE n
    BY <1>1, <1>2
  <2> HIDE DEF l
  <2> QED BY <1>1, <2>1, <2>2, <2>3, MinOfTwo
<1> HIDE DEF l
<1>8. /\ Len(Chunk) = l * c /\ DOMAIN Chunk = 1..(l * c)
      /\ Chunk = <<>> <=> l * c = 0
      /\ \A i \in 1..(l * c) : Chunk[i] = data[q * c + i]
  <2> DEFINE a == q * c
             b == l * c
  <2>1. a \in Nat /\ b \in Nat /\ (q + l) * c = a + b
    BY <1>1, <1>6
  <2>2. a + b <= Len(data)
    BY <1>1, <1>6, <2>1, FramesInOrder
  <2>3. Chunk = SubSeq(data, a + 1, a + b)
    BY <1>3, <1>7, <2>1
  <2> HIDE DEF a, b
  <2>4. /\ Len(Chunk) = b /\ DOMAIN Chunk = 1..b /\ (Chunk = <<>> <=> b = 0)
        /\ \A i \in 1..b : Chunk[i] = data[a + i]
    BY <1>1, <2>1, <2>2, <2>3
  <2> QED BY <2>4 DEF a, b
<1>9. l * c = 0 <=> l = 0
  BY <1>1, <1>6
<1>10. Counted(Chunk) = {(j - 1) * c + 1 : j \in 1..l}
  <2>1. CASE c = 1
    <3>1. Counted(Chunk) = 1..l
      BY <1>5, <1>6, <1>8, <2>1
    <3>2. \A j \in 1..l : (j - 1) * c + 1 = j
      BY <2>1
    <3> QED BY <3>1, <3>2
  <2>2. CASE c # 1
    <3>1. c > 1
      BY <1>1, <2>2
    <3>2. Counted(Chunk) = {i \in 1..(l * c) : (i - 1) % c = 0}
      BY <1>5, <1>8, <3>1
    <3> QED BY <1>1, <1>6, <3>2, FirstOfFrame
  <2> QED BY <2>1, <2>2
<1>11. ASSUME NEW j \in 1..l
       PROVE  Chunk[(j - 1) * c + 1] = FirstChannel(f)[q + j]
  <2>1. (j - 1) * c + 1 \in 1..(l * c)
    <3>1. j * c <= l * c /\ j * c = (j - 1) * c + c /\ (j - 1) * c \in Nat
      BY <1>1, <1>6
    <3> QED BY <1>1, <1>6, <3>1
  <2>2. q * c + ((j - 1) * c + 1) = ((q + j) - 1) * c + 1
    BY <1>1
  <2>3. q + j \in 1..n
    BY <1>1, <1>6
  <2> QED BY <1>4, <1>8, <2>1, <2>2, <2>3
<1>12. ChunkIs(f, q, l)
  BY <1>6, <1>8, <1>9, <1>10, <1>11 DEF ChunkIs, c, n
<1> QED BY <1>6, <1>12

(* What the loop adds for a chunk is what the first channel has there.      *)
LEMMA ChunkCounts ==
  ASSUME NEW f \in Files, NEW q \in 0..Frames(f), NEW l \in Nat,
         ChunkIs(f, q, l)
  PROVE  LET counted == Counted(Chunk)
             squares == [i \in counted |-> Chunk[i] * Chunk[i]]
         IN /\ Cardinality(counted) = l
            /\ SumFunction(squares) = Sum(Square(f), (q + 1)..(q + l))
            /\ {Abs(Chunk[i]) : i \in counted} =
                 {Abs(FirstChannel(f)[k]) : k \in (q + 1)..(q + l)}
<1> DEFINE c == f.channelCount
           counted == Counted(Chunk)
           squares == [i \in counted |-> Chunk[i] * Chunk[i]]
           here == (q + 1)..(q + l)
           m == [k \in here |-> (k - q - 1) * c + 1]
<1>1. c \in Nat \ {0} /\ Frames(f) \in Nat /\ q + l <= Frames(f)
  BY FileFacts DEF ChunkIs
<1>2. /\ counted = {(j - 1) * c + 1 : j \in 1..l}
      /\ \A j \in 1..l : Chunk[(j - 1) * c + 1] = FirstChannel(f)[q + j]
  BY DEF ChunkIs
<1> HIDE DEF c, counted
<1>3. \A k \in here : /\ k - q \in 1..l /\ k \in 1..Frames(f)
                      /\ m[k] = (k - q - 1) * c + 1
                      /\ m[k] \in counted
                      /\ Chunk[m[k]] = FirstChannel(f)[k]
  <2> SUFFICES ASSUME NEW k \in here
               PROVE  /\ k - q \in 1..l /\ k \in 1..Frames(f)
                      /\ m[k] = (k - q - 1) * c + 1
                      /\ m[k] \in counted
                      /\ Chunk[m[k]] = FirstChannel(f)[k]
    OBVIOUS
  <2>1. k - q \in 1..l /\ k \in 1..Frames(f) /\ q + (k - q) = k
    BY <1>1
  <2>2. m[k] = (k - q - 1) * c + 1
    OBVIOUS
  <2> HIDE DEF m, here
  <2> QED BY <1>2, <2>1, <2>2
<1>4. \A i \in counted : \E k \in here : m[k] = i
  <2> SUFFICES ASSUME NEW j \in 1..l PROVE \E k \in here : m[k] = (j - 1) * c + 1
    BY <1>2
  <2>1. q + j \in here /\ (q + j) - q - 1 = j - 1
    OBVIOUS
  <2> QED BY <2>1
<1>5. \A k1, k2 \in here : m[k1] = m[k2] => k1 = k2
  <2> SUFFICES ASSUME NEW k1 \in here, NEW k2 \in here, m[k1] = m[k2]
               PROVE  k1 = k2
    OBVIOUS
  <2>1. (k1 - q - 1) * c = (k2 - q - 1) * c
    BY <1>1
  <2> QED BY <1>1, <2>1
<1>6. m \in Bijection(here, counted)
  <2>1. m \in [here -> counted]
    BY <1>3
  <2> HIDE DEF m, here
  <2> QED BY <1>4, <1>5, <2>1 DEF Bijection, Injection, Surjection, IsInjective
<1>7. IsFiniteSet(here) /\ Cardinality(here) = l
  <2>1. q + 1 \in Int /\ q + l \in Int
    BY <1>1
  <2> QED BY <1>1, <2>1, FS_Interval
<1>8. Cardinality(counted) = l
  BY <1>6, <1>7, FS_Bijection DEF ExistsBijection
<1>9. \A k \in here : /\ Square(f)[k] \in Int
                      /\ squares[m[k]] = Square(f)[k]
  <2>1. \A k \in 1..Frames(f) : Square(f)[k] \in Int
    BY <1>1, SquaresSeen
  <2>2. \A k \in 1..Frames(f) :
          Square(f)[k] = FirstChannel(f)[k] * FirstChannel(f)[k]
    BY DEF Square
  <2> HIDE DEF m, here
  <2> QED BY <1>3, <2>1, <2>2
<1>10. SumFunction(squares) = Sum(squares, counted)
  BY DEF SumFunction, Sum
<1>11. {Abs(Chunk[i]) : i \in counted} =
         {Abs(FirstChannel(f)[k]) : k \in here}
  <2> HIDE DEF m, here
  <2> QED BY <1>3, <1>4
<1> HIDE DEF squares, m
<1>12. Sum(squares, counted) = Sum(Square(f), here)
  <2> HIDE DEF here
  <2> QED BY <1>6, <1>7, <1>9, SumRenamed
<1> QED BY <1>8, <1>10, <1>11, <1>12 DEF counted, squares
-----------------------------------------------------------------------------
(* The inductive invariant.  A reader that was opened has found a header    *)
(* worth reading, and never stands behind the end of the data.              *)
Worth(f) ==
  /\ f.header = "wave" /\ f.sampleWidth = 2
  /\ f.frameRate > 0 /\ f.frameCount > 0 /\ ~TooShort(f)

ReaderInv ==
  /\ wav \in [file : Files, opened : BOOLEAN, position : Nat]
  /\ sampleCount \in Nat /\ squareSum \in Int /\ peak \in Nat
  /\ wav.position <= Len(wav.file.data)
  /\ ~wav.opened => wav.position = 0
  /\ wav.opened => Worth(wav.file)

SignalInv == ReaderInv /\ CountsFirstChannel /\ VerdictIsRight
-----------------------------------------------------------------------------
Peaks(f, q) == {0} \cup {Abs(FirstChannel(f)[k]) : k \in 1..q}

LEMMA PeaksAreFinite ==
  ASSUME NEW f \in Files, NEW q \in 0..Frames(f)
  PROVE  IsFiniteSet(Peaks(f, q)) /\ Peaks(f, q) \subseteq Nat
<1>1. \A k \in 1..q : FirstChannel(f)[k] \in Samples
  BY FileFacts, ChannelFacts
<1>2. PICK top \in Nat : top = 32768
  OBVIOUS
<1>3. ASSUME NEW x \in Samples PROVE Abs(x) \in 0..top
  <2>1. x \in Int
    BY DEF Samples
  <2>2. x <= 32767
    BY DEF Samples
  <2>3. -32768 <= x
    BY SMTT(60) DEF Samples
  <2> QED BY <1>2, <2>1, <2>2, <2>3 DEF Abs
<1>4. Peaks(f, q) \subseteq 0..top
  BY <1>1, <1>3 DEF Peaks
<1>5. IsFiniteSet(0..top)
  BY FS_Interval
<1> QED BY <1>4, <1>5, FS_Subset

(* CountsFirstChannel for a reader that stands after q frames.              *)
CountsAre(f, q, count, squares, top) ==
  /\ count = q
  /\ squares = Sum(Square(f), 1..q)
  /\ top = Max(Peaks(f, q))

LEMMA CountsMean ==
  ASSUME NEW f \in Files, NEW q \in 0..Frames(f)
  PROVE  LET seen == SubSeq(FirstChannel(f), 1, q)
         IN /\ Len(seen) = q
            /\ SquaresOf(seen) = Sum(Square(f), 1..q)
            /\ {0} \cup {Abs(seen[k]) : k \in DOMAIN seen} = Peaks(f, q)
<1>1. /\ Len(Seen(f, q)) = q /\ DOMAIN Seen(f, q) = 1..q
      /\ \A k \in 1..q : Seen(f, q)[k] = FirstChannel(f)[k]
  BY SeenFacts
<1>2. SquaresOf(Seen(f, q)) = Sum(Square(f), 1..q)
  BY SquaresSeen
<1>3. {Abs(Seen(f, q)[k]) : k \in DOMAIN Seen(f, q)}
        = {Abs(FirstChannel(f)[k]) : k \in 1..q}
  BY <1>1
<1> QED BY <1>1, <1>2, <1>3 DEF Seen, Peaks

LEMMA PositionIs ==
  ASSUME NEW f \in Files, NEW p \in Nat, p <= Len(f.data),
         p % f.channelCount = 0
  PROVE  /\ p \div f.channelCount \in 0..Frames(f)
         /\ p = (p \div f.channelCount) * f.channelCount
<1> DEFINE q == p \div f.channelCount
<1>1. /\ f.channelCount \in Nat \ {0} /\ Frames(f) \in Nat
      /\ Len(f.data) = Frames(f) * f.channelCount
  BY FileFacts
<1>2. q \in Nat /\ p = q * f.channelCount
  BY <1>1, WholeFrames
<1> HIDE DEF q
<1>3. q <= Frames(f)
  BY <1>1, <1>2, FramesInOrder
<1> QED BY <1>1, <1>2, <1>3 DEF q

LEMMA CountsAtPosition ==
  ASSUME ReaderInv, NEW q \in 0..Frames(wav.file),
         wav.position = q * wav.file.channelCount
  PROVE  CountsFirstChannel <=>
           CountsAre(wav.file, q, sampleCount, squareSum, peak)
<1> DEFINE f == wav.file
<1>1. f \in Files
  BY DEF ReaderInv
<1>2. f.channelCount \in Nat \ {0} /\ q \in Nat
  BY <1>1, FileFacts
<1>3. wav.position % f.channelCount = 0 /\ wav.position \div f.channelCount = q
  BY <1>2, SamplesOfFrames
<1> QED BY <1>1, <1>3, CountsMean DEF CountsFirstChannel, CountsAre

(* VerdictIsRight, of any verdict and file.                                 *)
Right(v, f) ==
  /\ v \notin {"reading", "raised", "undecodable"} => f.header = "wave"
  /\ v = "accepted" =>
       f.sampleWidth = 2 /\ f.frameRate > 0
         /\ 4 * f.frameCount >= f.frameRate /\ HasSignal(f)
  /\ v = "silent" => f.frameRate = 0 \/ f.frameCount = 0 \/ ~HasSignal(f)
  /\ v = "too short" => 0 < f.frameCount /\ 4 * f.frameCount < f.frameRate
  /\ v = "not normalized" => f.sampleWidth # 2
  /\ v = "undecodable" => f.header = "not wave"

LEMMA LongEnough ==
  ASSUME NEW rate \in Nat, NEW frames \in Nat, ~(4 * frames < rate)
  PROVE  4 * frames >= rate
OBVIOUS

LEMMA RightVerdicts ==
  ASSUME NEW f \in Files, NEW v,
         \/ v \in {"reading", "raised"}
         \/ v = "undecodable" /\ f.header = "not wave"
         \/ /\ f.header = "wave"
            /\ \/ v = "not normalized" /\ f.sampleWidth # 2
               \/ /\ v = "silent"
                  /\ f.frameRate <= 0 \/ f.frameCount <= 0 \/ ~HasSignal(f)
               \/ v = "too short" /\ f.frameCount > 0 /\ TooShort(f)
               \/ v = "accepted" /\ Worth(f) /\ HasSignal(f)
  PROVE  Right(v, f)
<1> DEFINE rate == f.frameRate
           frames == f.frameCount
           heard == HasSignal(f)
<1>1. rate \in Nat /\ frames \in Nat
  BY FileFacts
<1>2. /\ TooShort(f) <=> 4 * frames < rate
      /\ Worth(f) => f.sampleWidth = 2 /\ rate > 0 /\ ~TooShort(f)
  BY DEF TooShort, Worth
<1>3. \/ v \in {"reading", "raised", "undecodable"}
      \/ v = "not normalized" /\ f.sampleWidth # 2
      \/ v = "silent" /\ (rate <= 0 \/ frames <= 0 \/ ~heard)
      \/ v = "too short" /\ frames > 0 /\ TooShort(f)
      \/ v = "accepted" /\ Worth(f) /\ heard
  OBVIOUS
<1> HIDE DEF rate, frames, heard
<1>4. v = "silent" => rate = 0 \/ frames = 0 \/ ~heard
  BY <1>1, <1>3
<1>5. v = "too short" => 0 < frames /\ 4 * frames < rate
  BY <1>1, <1>2, <1>3
<1>6. v = "not normalized" => f.sampleWidth # 2
  BY <1>3
<1>7. v = "accepted" => Worth(f) /\ heard
  BY <1>3
<1>8. ~(4 * frames < rate) => 4 * frames >= rate
  BY <1>1, LongEnough
<1>9. v = "accepted" => f.sampleWidth = 2 /\ rate > 0
                          /\ 4 * frames >= rate /\ heard
  BY <1>2, <1>7, <1>8
<1> QED
  BY <1>4, <1>5, <1>6, <1>9 DEF Right, rate, frames, heard

(* What one more chunk of l frames adds.                                    *)
LEMMA CountsGrow ==
  ASSUME NEW f \in Files, NEW q \in 0..Frames(f), NEW l \in Nat,
         q + l <= Frames(f),
         NEW count, NEW squares, NEW top, CountsAre(f, q, count, squares, top)
  PROVE  LET here == (q + 1)..(q + l)
         IN /\ Sum(Square(f), here) \in Int
            /\ CountsAre(f, q + l, count + l, squares + Sum(Square(f), here),
                  Max({top} \cup {Abs(FirstChannel(f)[k]) : k \in here}))
<1> DEFINE here == (q + 1)..(q + l)
           total == Max({top} \cup {Abs(FirstChannel(f)[k]) : k \in here})
<1>1. Frames(f) \in Nat /\ q + l \in 0..Frames(f) /\ q \in Nat
  BY FileFacts
<1>2. IsFiniteSet(1..(q + l)) /\ IsFiniteSet(here)
  <2>1. \A a, b \in Int : IsFiniteSet(a..b)
    BY FS_Interval
  <2> QED BY <1>1, <2>1
<1>3. \A k \in 1..(q + l) : Square(f)[k] \in Int
  BY <1>1, SquaresSeen
<1>4. /\ 1..q \in SUBSET (1..(q + l)) /\ (1..(q + l)) \ (1..q) = here
      /\ here \subseteq 1..(q + l) /\ 1..(q + l) = (1..q) \cup here
  BY <1>1
<1> HIDE DEF here
<1>5. Sum(Square(f), here) \in Int
  BY <1>2, <1>3, <1>4, SumIsInt
<1>6. squares + Sum(Square(f), here) = Sum(Square(f), 1..(q + l))
  <2> DEFINE all == 1..(q + l)
             before == 1..q
  <2>1. before \in SUBSET all /\ all \ before = here /\ IsFiniteSet(all)
    BY <1>2, <1>4
  <2>2. squares = Sum(Square(f), before)
    BY DEF CountsAre
  <2>3. \A k \in all : Square(f)[k] \in Int
    BY <1>3
  <2> HIDE DEF all, before
  <2>4. Sum(Square(f), all) = Sum(Square(f), before) + Sum(Square(f), here)
    BY <2>1, <2>3, SumOfParts
  <2> QED BY <2>2, <2>4 DEF all
<1>7. total = Max(Peaks(f, q + l))
  <2> DEFINE new == {Abs(FirstChannel(f)[k]) : k \in here}
             all == Peaks(f, q + l)
             before == Peaks(f, q)
  <2>1. all = before \cup new
    BY <1>4 DEF Peaks
  <2>2. IsFiniteSet(all) /\ all \subseteq Int
    BY <1>1, PeaksAreFinite
  <2>3. IsFiniteSet(before) /\ before \subseteq Int /\ before # {}
        /\ top = Max(before)
    <3>1. IsFiniteSet(before) /\ before \subseteq Int
      BY PeaksAreFinite
    <3>2. 0 \in before
      BY DEF Peaks
    <3> QED BY <3>1, <3>2 DEF CountsAre
  <2>4. total = Max({top} \cup new)
    OBVIOUS
  <2> HIDE DEF new, all, before, total
  <2>5. top \in before /\ \A y \in before : y <= top
    BY <2>3, MaxIsIn
  <2>6. IsFiniteSet({top} \cup new) /\ {top} \cup new \subseteq Int
    <3>1. {top} \cup new \in SUBSET all
      BY <2>1, <2>5
    <3> QED BY <2>2, <3>1, FS_Subset
  <2>7. total \in {top} \cup new /\ \A y \in {top} \cup new : y <= total
    BY <2>4, <2>6, MaxIsIn
  <2>8. ASSUME NEW y \in all PROVE y <= total
    <3>1. y \in Int /\ total \in Int /\ top \in Int /\ top <= total
      BY <2>2, <2>6, <2>7
    <3>2. CASE y \in new
      BY <2>7, <3>2
    <3>3. CASE y \in before
      BY <2>5, <3>1, <3>3
    <3> QED BY <2>1, <3>2, <3>3
  <2>9. total \in all
    BY <2>1, <2>5, <2>7
  <2>10. Max(all) = total
    BY <2>2, <2>8, <2>9, MaxIs
  <2> QED BY <2>10 DEF all
<1>8. count + l = q + l
  BY DEF CountsAre
<1> HIDE DEF total
<1>9. CountsAre(f, q + l, count + l, squares + Sum(Square(f), here), total)
  BY <1>6, <1>7, <1>8 DEF CountsAre
<1> QED BY <1>5, <1>9 DEF here, total

(* Such numbers are numbers.                                                *)
LEMMA CountsAreNumbers ==
  ASSUME NEW f \in Files, NEW q \in 0..Frames(f),
         NEW count, NEW squares, NEW top, CountsAre(f, q, count, squares, top)
  PROVE  /\ count \in Nat /\ squares \in Int /\ top \in Nat
         /\ top \in Peaks(f, q) /\ \A y \in Peaks(f, q) : y <= top
<1>1. Frames(f) \in Nat /\ \A k \in 1..Frames(f) : Square(f)[k] \in Int
  BY FileFacts, SquaresSeen
<1>2. IsFiniteSet(1..q) /\ \A k \in 1..q : Square(f)[k] \in Int
  <2>1. \A a, b \in Int : IsFiniteSet(a..b)
    BY FS_Interval
  <2> QED BY <1>1, <2>1
<1>3. Sum(Square(f), 1..q) \in Int
  BY <1>2, SumIsInt
<1>4. IsFiniteSet(Peaks(f, q)) /\ Peaks(f, q) \subseteq Nat
  BY PeaksAreFinite
<1>5. 0 \in Peaks(f, q)
  BY DEF Peaks
<1>6. top \in Peaks(f, q) /\ \A y \in Peaks(f, q) : y <= top
  <2>1. Peaks(f, q) \subseteq Int
    BY <1>4
  <2> QED BY <1>4, <1>5, <2>1, MaxIsIn DEF CountsAre
<1> QED BY <1>1, <1>3, <1>4, <1>6 DEF CountsAre

LEMMA InitSignal == Init => SignalInv
<1> SUFFICES ASSUME Init PROVE SignalInv
  OBVIOUS
<1> DEFINE f == wav.file
<1>1. /\ f \in Files /\ wav.position = 0 /\ ~wav.opened
      /\ wav \in [file : Files, opened : BOOLEAN, position : Nat]
  <2>1. PICK g \in Files : wav = [file |-> g, opened |-> FALSE, position |-> 0]
    BY DEF Init
  <2> QED BY <2>1
<1>2. f.data \in Seq(Samples) /\ f.channelCount \in Nat \ {0} /\ Frames(f) \in Nat
  BY <1>1, FileFacts
<1>3. ReaderInv
  BY <1>1, <1>2 DEF Init, ReaderInv
<1>4. CountsAre(f, 0, 0, 0, 0)
  <2>1. Sum(Square(f), {}) = 0
    BY FS_EmptySet, SumByPick
  <2>2. Peaks(f, 0) = {0}
    BY DEF Peaks
  <2>3. Max({0}) = 0
    BY MaxIs
  <2>4. 1..0 = {}
    OBVIOUS
  <2> QED BY <2>1, <2>2, <2>3, <2>4 DEF CountsAre
<1>5. CountsFirstChannel
  <2>1. wav.position = 0 * f.channelCount /\ 0 \in 0..Frames(f)
    BY <1>1, <1>2
  <2> QED BY <1>3, <1>4, <2>1, CountsAtPosition DEF Init
<1>6. VerdictIsRight
  BY DEF Init, VerdictIsRight
<1> QED BY <1>3, <1>5, <1>6 DEF SignalInv

LEMMA OpenKeeps == SignalInv /\ Open => SignalInv'
<1> SUFFICES ASSUME SignalInv, Open PROVE SignalInv'
  OBVIOUS
<1> DEFINE f == wav.file
<1>1. /\ f \in Files /\ wav \in [file : Files, opened : BOOLEAN, position : Nat]
      /\ f.frameRate \in Nat /\ f.frameCount \in Nat
      /\ verdict = "reading" /\ ~wav.opened
  BY FileFacts DEF SignalInv, ReaderInv, Open
<1>2. CASE UNCHANGED <<wav, peak, sampleCount, squareSum>>
  <2>1. ReaderInv' /\ CountsFirstChannel'
    BY <1>2 DEF SignalInv, ReaderInv, CountsFirstChannel
  <2>2. \/ verdict' = "undecodable" /\ f.header = "not wave"
        \/ verdict' \in {"reading", "raised"}
        \/ /\ f.header = "wave"
           /\ \/ verdict' = "not normalized" /\ f.sampleWidth # 2
              \/ verdict' = "silent" /\ (f.frameRate <= 0 \/ f.frameCount <= 0)
              \/ verdict' = "too short" /\ f.frameCount > 0 /\ TooShort(f)
    BY <1>1 DEF Open, Refuse
  <2>3. wav'.file = f
    BY <1>2
  <2>4. Right(verdict', f)
    BY <1>1, <2>2, RightVerdicts
  <2>5. VerdictIsRight'
    BY <2>3, <2>4 DEF Right, VerdictIsRight
  <2> QED BY <2>1, <2>5 DEF SignalInv
<1>3. CASE /\ Worth(f) /\ wav' = [wav EXCEPT !.opened = TRUE]
           /\ UNCHANGED <<peak, sampleCount, squareSum, verdict>>
  <2>1. /\ wav' \in [file : Files, opened : BOOLEAN, position : Nat]
        /\ wav'.file = f /\ wav'.position = wav.position /\ wav'.opened
    BY <1>1, <1>3
  <2>2. ReaderInv'
    BY <1>3, <2>1 DEF SignalInv, ReaderInv
  <2>3. CountsFirstChannel'
    BY <1>3, <2>1 DEF SignalInv, CountsFirstChannel
  <2>4. VerdictIsRight'
    BY <1>1, <1>3 DEF VerdictIsRight
  <2> QED BY <2>2, <2>3, <2>4 DEF SignalInv
<1>4. \/ UNCHANGED <<wav, peak, sampleCount, squareSum>>
      \/ /\ Worth(f) /\ wav' = [wav EXCEPT !.opened = TRUE]
         /\ UNCHANGED <<peak, sampleCount, squareSum, verdict>>
  BY DEF Open, Refuse, Worth
<1> QED BY <1>2, <1>3, <1>4

LEMMA ReadFailsKeeps == SignalInv /\ ReadFails => SignalInv'
<1> SUFFICES ASSUME SignalInv, ReadFails PROVE SignalInv'
  OBVIOUS
<1>1. UNCHANGED <<wav, peak, sampleCount, squareSum>> /\ verdict' = "raised"
  BY DEF ReadFails, Refuse
<1>2. ReaderInv' /\ CountsFirstChannel'
  BY <1>1 DEF SignalInv, ReaderInv, CountsFirstChannel
<1>3. VerdictIsRight'
  BY <1>1 DEF VerdictIsRight
<1> QED BY <1>2, <1>3 DEF SignalInv

LEMMA ReadChunkKeeps == SignalInv /\ ReadChunk => SignalInv'
<1> SUFFICES ASSUME SignalInv, ReadChunk PROVE SignalInv'
  OBVIOUS
<1> DEFINE f == wav.file
           q == wav.position \div f.channelCount
<1>1. /\ f \in Files /\ wav \in [file : Files, opened : BOOLEAN, position : Nat]
      /\ wav.position \in Nat /\ wav.position <= Len(f.data)
      /\ wav.position % f.channelCount = 0
      /\ sampleCount \in Nat /\ squareSum \in Int /\ peak \in Nat
  BY DEF SignalInv, ReaderInv, CountsFirstChannel
<1>2. /\ f.channelCount \in Nat \ {0} /\ Frames(f) \in Nat
      /\ Len(f.data) = Frames(f) * f.channelCount
  BY <1>1, FileFacts
<1>3. q \in 0..Frames(f) /\ wav.position = q * f.channelCount
  BY <1>1, PositionIs
<1>4. CountsAre(f, q, sampleCount, squareSum, peak)
  BY <1>3, CountsAtPosition DEF SignalInv
<1>5. PICK l \in Nat : ChunkIs(f, q, l)
  BY <1>1, <1>3, ChunkFacts
<1> HIDE DEF q
<1> DEFINE here == (q + 1)..(q + l)
<1>6. /\ sampleCount' = sampleCount + l
      /\ squareSum' = squareSum + Sum(Square(f), here)
      /\ peak' = Max({peak} \cup {Abs(FirstChannel(f)[k]) : k \in here})
  BY <1>1, <1>3, <1>5, ChunkCounts DEF ReadChunk
<1>7. /\ q + l \in 0..Frames(f)
      /\ wav' = [wav EXCEPT !.position = (q + l) * f.channelCount]
  <2>1. Len(Chunk) = l * f.channelCount /\ q + l <= Frames(f)
    BY <1>5 DEF ChunkIs
  <2>2. wav.position + Len(Chunk) = (q + l) * f.channelCount
    BY <1>2, <1>3, <2>1
  <2> QED BY <1>3, <2>1, <2>2 DEF ReadChunk
<1>8. CountsAre(f, q + l, sampleCount', squareSum', peak')
  <2>1. q + l <= Frames(f)
    BY <1>2, <1>7
  <2> HIDE DEF f
  <2> QED BY <1>1, <1>3, <1>4, <1>6, <2>1, CountsGrow
<1>9. /\ wav' \in [file : Files, opened : BOOLEAN, position : Nat]
      /\ wav'.file = f /\ wav'.opened = wav.opened /\ wav.opened
      /\ wav'.position = (q + l) * f.channelCount
  <2>1. (q + l) * f.channelCount \in Nat
    BY <1>2, <1>7
  <2> QED BY <1>1, <1>7, <2>1 DEF ReadChunk
<1>10. ReaderInv'
  <2>1. sampleCount' \in Nat /\ squareSum' \in Int /\ peak' \in Nat
    BY <1>1, <1>7, <1>8, CountsAreNumbers
  <2>4. (q + l) * f.channelCount <= Len(f.data)
    BY <1>2, <1>7, FramesInOrder
  <2>5. Worth(f)
    BY <1>9 DEF SignalInv, ReaderInv
  <2> QED BY <1>9, <2>1, <2>4, <2>5 DEF ReaderInv
<1>11. CountsFirstChannel'
  <2>1. /\ wav'.position % f.channelCount = 0
        /\ wav'.position \div f.channelCount = q + l
    BY <1>2, <1>7, <1>9, SamplesOfFrames
  <2> DEFINE seen == SubSeq(FirstChannel(f), 1, q + l)
  <2>2. /\ sampleCount' = Len(seen) /\ squareSum' = SquaresOf(seen)
        /\ peak' = Max({0} \cup {Abs(seen[k]) : k \in DOMAIN seen})
    <3> HIDE DEF f
    <3> QED BY <1>1, <1>7, <1>8, CountsMean DEF CountsAre
  <2>3. CountsFirstChannel' <=>
          LET now == SubSeq(FirstChannel(wav'.file), 1,
                            wav'.position \div wav'.file.channelCount)
          IN /\ wav'.position % wav'.file.channelCount = 0
             /\ sampleCount' = Len(now) /\ squareSum' = SquaresOf(now)
             /\ peak' = Max({0} \cup {Abs(now[k]) : k \in DOMAIN now})
    BY DEF CountsFirstChannel
  <2> HIDE DEF f
  <2> QED BY <1>9, <2>1, <2>2, <2>3
<1>12. VerdictIsRight'
  <2>1. Right(verdict', f)
    BY DEF SignalInv, VerdictIsRight, Right, ReadChunk
  <2> QED BY <1>9, <2>1 DEF VerdictIsRight, Right
<1> QED BY <1>10, <1>11, <1>12 DEF SignalInv

LEMMA ConcludeKeeps == SignalInv /\ Conclude => SignalInv'
<1> SUFFICES ASSUME SignalInv, Conclude PROVE SignalInv'
  OBVIOUS
<1> DEFINE f == wav.file
           q == wav.position \div f.channelCount
           s == FirstChannel(f)
<1>1. /\ f \in Files /\ wav.position \in Nat /\ wav.position <= Len(f.data)
      /\ wav.position % f.channelCount = 0
      /\ sampleCount \in Nat /\ squareSum \in Int /\ peak \in Nat
      /\ Worth(f)
  BY DEF SignalInv, ReaderInv, CountsFirstChannel, Conclude
<1>2. q \in 0..Frames(f) /\ wav.position = q * f.channelCount
  BY <1>1, PositionIs
<1>3. CountsAre(f, q, sampleCount, squareSum, peak)
  BY <1>2, CountsAtPosition DEF SignalInv
<1>4. q = Frames(f)
  <2>1. PICK l \in Nat : ChunkIs(f, q, l)
    BY <1>1, <1>2, ChunkFacts
  <2> QED BY <2>1 DEF ChunkIs, Conclude
<1> HIDE DEF q
<1>5. /\ s \in Seq(Samples) /\ Len(s) = q /\ DOMAIN s = 1..q
      /\ \A k \in 1..q : s[k] \in Int
  <2>1. /\ s \in Seq(Samples) /\ Len(s) = q
        /\ \A k \in 1..q : s[k] \in Samples
    BY <1>1, <1>4, ChannelFacts
  <2> HIDE DEF s, f
  <2>2. DOMAIN s = 1..q
    BY <2>1
  <2>3. \A k \in 1..q : s[k] \in Int
    BY <2>1, SamplesAreNumbers
  <2> QED BY <2>1, <2>2, <2>3
<1>6. SubSeq(s, 1, q) = s
  BY <1>2, <1>5
<1>7. SquaresOf(s) = squareSum /\ Len(s) = sampleCount
  BY <1>1, <1>2, <1>3, <1>5, <1>6, CountsMean DEF CountsAre
<1>8. peak <= 1 <=> \A k \in DOMAIN s : s[k] \in -1..1
  <2>1. peak \in Peaks(f, q) /\ \A y \in Peaks(f, q) : y <= peak
    BY <1>1, <1>2, <1>3, CountsAreNumbers
  <2>2. \A x \in Int : Abs(x) <= 1 <=> x \in -1..1
    BY DEF Abs
  <2>3. ASSUME peak <= 1, NEW k \in DOMAIN s PROVE s[k] \in -1..1
    <3>1. Abs(s[k]) \in Peaks(f, q) /\ s[k] \in Int
      BY <1>5 DEF Peaks
    <3>2. Abs(s[k]) \in Int
      BY <3>1 DEF Abs
    <3>3. Abs(s[k]) <= 1
      BY <1>1, <2>1, <2>3, <3>1, <3>2
    <3> QED BY <2>2, <3>1, <3>3
  <2>4. ASSUME \A k \in DOMAIN s : s[k] \in -1..1 PROVE peak <= 1
    <3>1. CASE peak = 0
      BY <3>1
    <3>2. CASE peak # 0
      <4>1. PICK k \in 1..q : peak = Abs(s[k])
        BY <2>1, <3>2 DEF Peaks
      <4> QED BY <1>5, <2>2, <2>4, <4>1
    <3> QED BY <3>1, <3>2
  <2> QED BY <2>3, <2>4
<1>9. sampleCount <= 0 \/ TooQuiet <=> ~HasSignal(f)
  <2>1. sampleCount <= 0 => peak <= 1
    BY <1>1, <1>5, <1>7, <1>8
  <2>2. HasSignal(f) <=> ~(peak <= 1) /\ squareSum >= sampleCount
    BY <1>7, <1>8 DEF HasSignal
  <2> QED BY <1>1, <2>1, <2>2 DEF TooQuiet
<1>10. wav' = wav /\ UNCHANGED <<peak, sampleCount, squareSum>>
  BY DEF Conclude
<1>11. ReaderInv' /\ CountsFirstChannel'
  BY <1>10 DEF SignalInv, ReaderInv, CountsFirstChannel
<1>12. VerdictIsRight'
  <2>1. \/ verdict' = "silent" /\ ~HasSignal(f)
        \/ verdict' = "accepted" /\ HasSignal(f)
    BY <1>9 DEF Conclude
  <2>2. f.header = "wave"
    BY <1>1 DEF Worth
  <2>3. Right(verdict', f)
    BY <1>1, <2>1, <2>2, RightVerdicts
  <2> QED BY <1>10, <2>3 DEF VerdictIsRight, Right
<1> QED BY <1>11, <1>12 DEF SignalInv

LEMMA NextSignal == SignalInv /\ [Next]_vars => SignalInv'
<1> SUFFICES ASSUME SignalInv, [Next]_vars PROVE SignalInv'
  OBVIOUS
<1>1. CASE UNCHANGED vars
  BY <1>1 DEF vars, SignalInv, ReaderInv, CountsFirstChannel, VerdictIsRight
<1> QED BY <1>1, OpenKeeps, ReadFailsKeeps, ReadChunkKeeps, ConcludeKeeps
  DEF Next
-----------------------------------------------------------------------------
(* The inductive invariant of the signal check.                             *)
THEOREM SignalInvariant == Spec => []SignalInv
BY InitSignal, NextSignal, PTL DEF Spec

(* Whatever the size of the chunks and the number of channels, the loop of  *)
(* _validate_asr_audio_has_signal counts exactly the first channel.         *)
THEOREM FirstChannelCounted == Spec => []CountsFirstChannel
<1>1. SignalInv => CountsFirstChannel
  BY DEF SignalInv
<1> QED BY <1>1, SignalInvariant, PTL

(* The verdict of the chunked loop is that of the definition over the whole *)
(* file, and every refusal has the cause it names, for every file.          *)
THEOREM VerdictsAreRight == Spec => []VerdictIsRight
<1>1. SignalInv => VerdictIsRight
  BY DEF SignalInv
<1> QED BY <1>1, SignalInvariant, PTL
=============================================================================
