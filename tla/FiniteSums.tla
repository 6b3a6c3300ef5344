---------------------------- MODULE FiniteSums ----------------------------
(***************************************************************************)
(* What the proofs about the limiter and about the pool need of finite     *)
(* sets of numbers: SumFunctionOnSet adds up as expected, and a finite set *)
(* has a highest element.  The induction on the size of a set is a minimal *)
(* counterexample: the natural numbers are well ordered.                   *)
(***************************************************************************)
EXTENDS Integers, Functions, FiniteSetTheorems, TLAPS

\* A set of natural numbers has a least element.
LEMMA LeastNumber ==
    ASSUME NEW T \in SUBSET Nat, T # {}
    PROVE  \E n \in T : \A m \in T : n <= m
  <1>1. PICK n \in T : \A m \in T : ~(<<m, n>> \in OpToRel(<, Nat))
    BY NatLessThanWellFounded, WFMin
  <1>2. \A m \in T : <<m, n>> \in OpToRel(<, Nat) <=> m < n
    BY DEF OpToRel
  <1>3. \A m \in T : ~(m < n)
    BY <1>1, <1>2, Zenon
  <1>4. \A m \in T : n <= m
    BY <1>3
  <1> QED
    BY <1>4

\* The element a sum takes next, and one step of the sum with g for the rest.
Next1(s) == CHOOSE x \in s : TRUE

SumStep(f, g, s) == IF s = {} THEN 0 ELSE f[Next1(s)] + g[s \ {Next1(s)}]

\* The element that is taken is one of the set, which gets smaller.
LEMMA Next1Facts ==
    ASSUME NEW S, IsFiniteSet(S), NEW s \in SUBSET S, s # {}
    PROVE  /\ Next1(s) \in s /\ s \ {Next1(s)} \in SUBSET S
           /\ IsFiniteSet(s) /\ Cardinality(s) \in Nat \ {0}
           /\ Cardinality(s \ {Next1(s)}) = Cardinality(s) - 1
           /\ Cardinality(s \ {Next1(s)}) \in Nat
  <1>1. Next1(s) \in s
    BY DEF Next1
  <1>2. IsFiniteSet(s) /\ IsFiniteSet(s \ {Next1(s)})
    BY FS_Subset, FS_RemoveElement
  <1>3. Cardinality(s) \in Nat /\ Cardinality(s) # 0
    BY <1>2, FS_CardinalityType, FS_EmptySet
  <1>4. Cardinality(s \ {Next1(s)}) = Cardinality(s) - 1
    BY <1>1, <1>2, FS_RemoveElement
  <1> QED
    BY <1>1, <1>2, <1>3, <1>4

\* There is a function that satisfies the sum's recursion.
LEMMA SumExists ==
    ASSUME NEW f, NEW S, IsFiniteSet(S)
    PROVE  \E g : g = [s \in SUBSET S |-> SumStep(f, g, s)]
  <1> DEFINE Upto(g, n) == \A s \in SUBSET S : Cardinality(s) <= n => g[s] = SumStep(f, g, s)
             Bad == {n \in Nat : ~\E g : Upto(g, n)}
  <1>a. \A s \in SUBSET S : IsFiniteSet(s) /\ Cardinality(s) \in Nat
    BY FS_Subset, FS_CardinalityType
  <1>1. Bad = {}
    <2> SUFFICES ASSUME Bad # {} PROVE FALSE
      OBVIOUS
    <2>1. PICK n \in Bad : \A m \in Bad : n <= m
      <3>1. Bad \in SUBSET Nat
        OBVIOUS
      <3> HIDE DEF Bad
      <3> QED
        BY <3>1, LeastNumber
    <2>2. \A g : ~Upto(g, n)
      BY <2>1
    <2>3. CASE n = 0
      <3> DEFINE z == [s \in SUBSET S |-> 0]
      <3>1. ASSUME NEW s \in SUBSET S, Cardinality(s) <= 0 PROVE z[s] = SumStep(f, z, s)
        <4>1. s = {}
          BY <1>a, <3>1, FS_EmptySet
        <4> QED
          BY <4>1 DEF SumStep
      <3>2. Upto(z, 0)
        BY <3>1
      <3> QED
        BY <2>2, <2>3, <3>2
    <2>4. CASE n # 0
      <3>1. n - 1 \in Nat /\ n - 1 \notin Bad
        BY <2>1, <2>4
      <3>2. PICK g : Upto(g, n - 1)
        BY <3>1
      <3> DEFINE h == [s \in SUBSET S |-> IF Cardinality(s) <= n - 1 THEN g[s] ELSE SumStep(f, g, s)]
      <3>3. ASSUME NEW s \in SUBSET S, Cardinality(s) <= n PROVE h[s] = SumStep(f, h, s)
        <4>1. h[s] = SumStep(f, g, s)
          BY <3>2, <3>3
        <4>2. CASE s = {}
          BY <4>1, <4>2 DEF SumStep
        <4>3. CASE s # {}
          <5> DEFINE rest == s \ {Next1(s)}
          <5>1. /\ rest \in SUBSET S /\ Cardinality(rest) = Cardinality(s) - 1
                /\ Cardinality(s) \in Nat
            BY <4>3, Next1Facts
          <5>2. Cardinality(rest) <= n - 1
            BY <2>1, <3>3, <5>1
          <5>3. h[rest] = g[rest]
            BY <5>1, <5>2
          <5> QED
            BY <4>1, <4>3, <5>3 DEF SumStep
        <4> QED
          BY <4>2, <4>3
      <3>4. Upto(h, n)
        BY <3>3
      <3> QED
        BY <2>2, <3>4
    <2> QED
      BY <2>3, <2>4
  <1>2. Cardinality(S) \in Nat
    BY FS_CardinalityType
  <1>3. PICK g : Upto(g, Cardinality(S))
    BY <1>1, <1>2
  <1>4. \A s \in SUBSET S : g[s] = SumStep(f, g, s)
    BY <1>3, FS_Subset
  <1> DEFINE h == [s \in SUBSET S |-> g[s]]
  <1>5. ASSUME NEW s \in SUBSET S PROVE h[s] = SumStep(f, h, s)
    BY <1>4 DEF SumStep
  <1>6. h = [s \in SUBSET S |-> SumStep(f, h, s)]
    BY <1>5
  <1> QED
    BY <1>6

----------------------------------------------------------------------------
(* Sums *)

\* The function that SumFunctionOnSet computes with.
Partial(f, S) == CHOOSE g : g = [s \in SUBSET S |-> SumStep(f, g, s)]

\* SumFunctionOnSet, unfolded.
LEMMA SumUnfolds ==
    ASSUME NEW f, NEW S, IsFiniteSet(S)
    PROVE  /\ SumFunctionOnSet(f, S) = Partial(f, S)[S]
           /\ \A s \in SUBSET S : Partial(f, S)[s] = SumStep(f, Partial(f, S), s)
  <1>1. Partial(f, S) = [s \in SUBSET S |-> SumStep(f, Partial(f, S), s)]
    BY SumExists DEF Partial
  <1>2. \A s \in SUBSET S : Partial(f, S)[s] = SumStep(f, Partial(f, S), s)
    BY <1>1
  <1>3. SumFunctionOnSet(f, S) = Partial(f, S)[S]
    BY DEF SumFunctionOnSet, FoldFunctionOnSet, MapThenFoldSet, Partial, SumStep, Next1
  <1> QED
    BY <1>2, <1>3

\* A sum of integers is an integer.
LEMMA SumType ==
    ASSUME NEW f, NEW S, IsFiniteSet(S), \A x \in S : f[x] \in Int
    PROVE  SumFunctionOnSet(f, S) \in Int
  <1> DEFINE g == Partial(f, S)
             Bad == {n \in Nat : \E s \in SUBSET S : Cardinality(s) = n /\ g[s] \notin Int}
  <1>1. \A s \in SUBSET S : g[s] = SumStep(f, g, s)
    BY SumUnfolds
  <1> HIDE DEF g
  <1>2. Bad = {}
    <2> SUFFICES ASSUME Bad # {} PROVE FALSE
      OBVIOUS
    <2>1. PICK n \in Bad : \A m \in Bad : n <= m
      <3>1. Bad \in SUBSET Nat
        OBVIOUS
      <3> HIDE DEF Bad
      <3> QED
        BY <3>1, LeastNumber
    <2>2. PICK s \in SUBSET S : Cardinality(s) = n /\ g[s] \notin Int
      BY <2>1
    <2>3. s # {}
      BY <1>1, <2>2 DEF SumStep
    <2> DEFINE rest == s \ {Next1(s)}
    <2>4. /\ Next1(s) \in S /\ rest \in SUBSET S /\ n \in Nat
          /\ Cardinality(rest) = n - 1 /\ Cardinality(rest) \in Nat
      BY <2>2, <2>3, Next1Facts
    <2>5. g[rest] \in Int
      <3>1. n - 1 \notin Bad
        BY <2>1, <2>4
      <3> QED
        BY <2>4, <3>1
    <2>6. g[s] = f[Next1(s)] + g[rest]
      BY <1>1, <2>3 DEF SumStep
    <2> QED
      BY <2>2, <2>4, <2>5, <2>6
  <1>3. g[S] \in Int
    BY <1>2, FS_CardinalityType
  <1> QED
    BY <1>3, SumUnfolds DEF g

\* A sum of zeros is zero.
LEMMA SumOfZeros ==
    ASSUME NEW f, NEW S, IsFiniteSet(S), \A x \in S : f[x] = 0
    PROVE  SumFunctionOnSet(f, S) = 0
  <1> DEFINE g == Partial(f, S)
             Bad == {n \in Nat : \E s \in SUBSET S : Cardinality(s) = n /\ g[s] # 0}
  <1>1. \A s \in SUBSET S : g[s] = SumStep(f, g, s)
    BY SumUnfolds
  <1> HIDE DEF g
  <1>2. Bad = {}
    <2> SUFFICES ASSUME Bad # {} PROVE FALSE
      OBVIOUS
    <2>1. PICK n \in Bad : \A m \in Bad : n <= m
      <3>1. Bad \in SUBSET Nat
        OBVIOUS
      <3> HIDE DEF Bad
      <3> QED
        BY <3>1, LeastNumber
    <2>2. PICK s \in SUBSET S : Cardinality(s) = n /\ g[s] # 0
      BY <2>1
    <2>3. s # {}
      BY <1>1, <2>2 DEF SumStep
    <2> DEFINE rest == s \ {Next1(s)}
    <2>4. /\ Next1(s) \in S /\ rest \in SUBSET S /\ n \in Nat
          /\ Cardinality(rest) = n - 1 /\ Cardinality(rest) \in Nat
      BY <2>2, <2>3, Next1Facts
    <2>5. g[rest] = 0
      <3>1. n - 1 \notin Bad
        BY <2>1, <2>4
      <3> QED
        BY <2>4, <3>1
    <2>6. g[s] = f[Next1(s)] + g[rest]
      BY <1>1, <2>3 DEF SumStep
    <2> QED
      BY <2>2, <2>4, <2>5, <2>6
  <1>3. g[S] = 0
    BY <1>2, FS_CardinalityType
  <1> QED
    BY <1>3, SumUnfolds DEF g

\* A sum changes by what one of its terms changes.
LEMMA SumChanges ==
    ASSUME NEW S, IsFiniteSet(S), NEW f, NEW h, NEW r \in S,
           \A x \in S : f[x] \in Int /\ h[x] \in Int,
           \A x \in S : x # r => h[x] = f[x]
    PROVE  SumFunctionOnSet(h, S) = SumFunctionOnSet(f, S) + h[r] - f[r]
  <1> DEFINE g == Partial(f, S)
             k == Partial(h, S)
             Shift(s) == IF r \in s THEN h[r] - f[r] ELSE 0
             Good(s) == g[s] \in Int /\ k[s] = g[s] + Shift(s)
             Bad == {n \in Nat : \E s \in SUBSET S : Cardinality(s) = n /\ ~Good(s)}
  <1>1. \A s \in SUBSET S : g[s] = SumStep(f, g, s) /\ k[s] = SumStep(h, k, s)
    BY SumUnfolds
  <1> HIDE DEF g, k
  <1>2. Bad = {}
    <2> SUFFICES ASSUME Bad # {} PROVE FALSE
      OBVIOUS
    <2>1. PICK n \in Bad : \A m \in Bad : n <= m
      <3>1. Bad \in SUBSET Nat
        OBVIOUS
      <3> HIDE DEF Bad
      <3> QED
        BY <3>1, LeastNumber
    <2>2. PICK s \in SUBSET S : Cardinality(s) = n /\ ~Good(s)
      BY <2>1
    <2>3. CASE s = {}
      <3>1. g[s] = 0 /\ k[s] = 0
        BY <1>1, <2>3 DEF SumStep
      <3> QED
        BY <2>2, <2>3, <3>1
    <2>4. CASE s # {}
      <3> DEFINE x == Next1(s)
                 rest == s \ {x}
      <3>1. /\ x \in s /\ x \in S /\ rest \in SUBSET S /\ n \in Nat
            /\ Cardinality(rest) = n - 1 /\ Cardinality(rest) \in Nat
        BY <2>2, <2>4, Next1Facts
      <3>2. Good(rest)
        <4>1. n - 1 \notin Bad
          BY <2>1, <3>1
        <4> QED
          BY <3>1, <4>1
      <3>3. g[s] = f[x] + g[rest] /\ k[s] = h[x] + k[rest]
        BY <1>1, <2>4 DEF SumStep
      <3>4. Shift(s) \in Int /\ Shift(rest) \in Int
        OBVIOUS
      <3>5. h[x] + Shift(rest) = f[x] + Shift(s)
        <4>1. CASE x = r
          BY <3>1, <4>1
        <4>2. CASE x # r
          <5>1. h[x] = f[x] /\ (r \in rest <=> r \in s)
            BY <3>1, <4>2
          <5> QED
            BY <5>1
        <4> QED
          BY <4>1, <4>2
      <3>6. f[x] \in Int /\ h[x] \in Int /\ g[rest] \in Int /\ k[rest] = g[rest] + Shift(rest)
        BY <3>1, <3>2
      <3> HIDE DEF Shift, x, rest
      <3>7. g[s] \in Int /\ k[s] = g[s] + Shift(s)
        BY <3>3, <3>4, <3>5, <3>6
      <3> QED
        BY <2>2, <3>7
    <2> QED
      BY <2>3, <2>4
  <1>3. Good(S)
    BY <1>2, FS_CardinalityType
  <1>4. k[S] = g[S] + h[r] - f[r]
    BY <1>3
  <1> QED
    BY <1>4, SumUnfolds DEF g, k

\* A sum depends on its terms only.
LEMMA SumOfSame ==
    ASSUME NEW S, IsFiniteSet(S), NEW f, NEW h,
           \A x \in S : f[x] \in Int /\ h[x] = f[x]
    PROVE  SumFunctionOnSet(h, S) = SumFunctionOnSet(f, S)
  <1>1. CASE S = {}
    BY <1>1, SumOfZeros
  <1>2. CASE S # {}
    <2>1. PICK r \in S : TRUE
      BY <1>2
    <2>2. SumFunctionOnSet(h, S) = SumFunctionOnSet(f, S) + h[r] - f[r]
      BY <2>1, SumChanges
    <2>3. SumFunctionOnSet(f, S) \in Int
      BY SumType
    <2> QED
      BY <2>1, <2>2, <2>3
  <1> QED
    BY <1>1, <1>2

----------------------------------------------------------------------------
(* Sums over parts of a set *)

\* Induction over a finite set, with the property as a set of sets.
LEMMA FiniteInduction ==
    ASSUME NEW S, IsFiniteSet(S), NEW P, {} \in P,
           \A s \in SUBSET S, x \in S : s \in P /\ x \notin s => s \cup {x} \in P
    PROVE  S \in P
  <1> DEFINE Bad == {n \in Nat : \E s \in SUBSET S : Cardinality(s) = n /\ s \notin P}
  <1>1. Bad = {}
    <2> SUFFICES ASSUME Bad # {} PROVE FALSE
      OBVIOUS
    <2>1. PICK n \in Bad : \A m \in Bad : n <= m
      <3>1. Bad \in SUBSET Nat
        OBVIOUS
      <3> HIDE DEF Bad
      <3> QED
        BY <3>1, LeastNumber
    <2>2. PICK s \in SUBSET S : Cardinality(s) = n /\ s \notin P
      BY <2>1
    <2> DEFINE x == Next1(s)
               rest == s \ {x}
    <2>3. /\ x \in s /\ rest \in SUBSET S /\ n \in Nat
          /\ Cardinality(rest) = n - 1 /\ Cardinality(rest) \in Nat
      BY <2>2, Next1Facts
    <2>4. rest \in P
      <3>1. n - 1 \notin Bad
        BY <2>1, <2>3
      <3> QED
        BY <2>3, <3>1
    <2> HIDE DEF x
    <2>5. s = rest \cup {x} /\ x \notin rest /\ x \in S
      BY <2>3
    <2> HIDE DEF rest
    <2> QED
      BY <2>2, <2>3, <2>4, <2>5
  <1>2. Cardinality(S) \in Nat /\ Cardinality(S) \notin Bad
    BY <1>1, FS_CardinalityType
  <1> QED
    BY <1>2

\* The sum over a part of S is what the sum over S has for that part.
LEMMA SumPartial ==
    ASSUME NEW f, NEW S, IsFiniteSet(S), NEW v \in SUBSET S
    PROVE  SumFunctionOnSet(f, v) = Partial(f, S)[v]
  <1> DEFINE g == Partial(f, S)
             h == Partial(f, v)
             Bad == {n \in Nat : \E s \in SUBSET v : Cardinality(s) = n /\ h[s] # g[s]}
  <1>0. IsFiniteSet(v)
    BY FS_Subset
  <1>1. \A s \in SUBSET S : g[s] = SumStep(f, g, s)
    BY SumUnfolds
  <1>2. \A s \in SUBSET v : h[s] = SumStep(f, h, s)
    BY <1>0, SumUnfolds
  <1>3. SumFunctionOnSet(f, v) = h[v]
    BY <1>0, SumUnfolds
  <1> HIDE DEF g, h
  <1>4. Bad = {}
    <2> SUFFICES ASSUME Bad # {} PROVE FALSE
      OBVIOUS
    <2>1. PICK n \in Bad : \A m \in Bad : n <= m
      <3>1. Bad \in SUBSET Nat
        OBVIOUS
      <3> HIDE DEF Bad
      <3> QED
        BY <3>1, LeastNumber
    <2>2. PICK s \in SUBSET v : Cardinality(s) = n /\ h[s] # g[s]
      BY <2>1
    <2>3. s # {}
      <3> SUFFICES ASSUME s = {} PROVE FALSE
        OBVIOUS
      <3>1. g[s] = 0 /\ h[s] = 0
        BY <1>1, <1>2 DEF SumStep
      <3> QED
        BY <2>2, <3>1
    <2> DEFINE rest == s \ {Next1(s)}
    <2>4. /\ rest \in SUBSET v /\ n \in Nat
          /\ Cardinality(rest) = n - 1 /\ Cardinality(rest) \in Nat
      BY <1>0, <2>2, <2>3, Next1Facts
    <2>5. h[rest] = g[rest]
      <3>1. n - 1 \notin Bad
        BY <2>1, <2>4
      <3> QED
        BY <2>4, <3>1
    <2>6. g[s] = f[Next1(s)] + g[rest] /\ h[s] = f[Next1(s)] + h[rest]
      BY <1>1, <1>2, <2>3 DEF SumStep
    <2> QED
      BY <2>2, <2>5, <2>6
  <1>5. h[v] = g[v]
    BY <1>0, <1>4, FS_CardinalityType
  <1> QED
    BY <1>3, <1>5 DEF g

\* A term can be taken out of a sum, whichever it is.
LEMMA SumRemoves ==
    ASSUME NEW f, NEW S, IsFiniteSet(S), \A x \in S : f[x] \in Int, NEW r \in S
    PROVE  SumFunctionOnSet(f, S) = f[r] + SumFunctionOnSet(f, S \ {r})
  <1> DEFINE g == Partial(f, S)
             Good(s) == \A y \in s : g[s] = f[y] + g[s \ {y}]
             Bad == {n \in Nat : \E s \in SUBSET S : Cardinality(s) = n /\ ~Good(s)}
  <1>1. \A s \in SUBSET S : g[s] = SumStep(f, g, s)
    BY SumUnfolds
  <1>2. \A s \in SUBSET S : g[s] = SumFunctionOnSet(f, s)
    BY SumPartial
  <1>3. \A s \in SUBSET S : g[s] \in Int
    <2> SUFFICES ASSUME NEW s \in SUBSET S PROVE g[s] \in Int
      OBVIOUS
    <2>1. IsFiniteSet(s) /\ \A x \in s : f[x] \in Int
      BY FS_Subset
    <2>2. SumFunctionOnSet(f, s) \in Int
      BY <2>1, SumType
    <2> QED
      BY <1>2, <2>2
  <1> HIDE DEF g
  <1>4. Bad = {}
    <2> SUFFICES ASSUME Bad # {} PROVE FALSE
      OBVIOUS
    <2>1. PICK n \in Bad : \A m \in Bad : n <= m
      <3>1. Bad \in SUBSET Nat
        OBVIOUS
      <3> HIDE DEF Bad
      <3> QED
        BY <3>1, LeastNumber
    <2>2. PICK s \in SUBSET S : Cardinality(s) = n /\ ~Good(s)
      BY <2>1
    <2>3. PICK y \in s : g[s] # f[y] + g[s \ {y}]
      BY <2>2
    <2> DEFINE x == Next1(s)
    <2>4. /\ x \in s /\ s \ {x} \in SUBSET S /\ n \in Nat
          /\ Cardinality(s \ {x}) = n - 1 /\ Cardinality(s \ {x}) \in Nat /\ IsFiniteSet(s)
      BY <2>2, <2>3, Next1Facts
    <2>5. g[s] = f[x] + g[s \ {x}]
      BY <1>1, <2>3 DEF SumStep
    <2> HIDE DEF x
    <2>6. x # y
      BY <2>3, <2>5
    <2>7. Cardinality(s \ {y}) = n - 1
      BY <2>2, <2>3, <2>4, FS_RemoveElement
    <2>8. n - 1 \in Nat /\ n - 1 \notin Bad
      BY <2>1, <2>4
    <2>9. Good(s \ {x}) /\ Good(s \ {y})
      BY <2>4, <2>7, <2>8
    <2>10. PICK q \in SUBSET S : q = (s \ {x}) \ {y} /\ q = (s \ {y}) \ {x}
      OBVIOUS
    <2>11. g[s \ {x}] = f[y] + g[q] /\ g[s \ {y}] = f[x] + g[q]
      BY <2>3, <2>4, <2>6, <2>9, <2>10
    <2>12. f[x] \in Int /\ f[y] \in Int /\ g[q] \in Int
      BY <1>3, <2>3, <2>4, <2>10
    <2>13. g[s] = f[x] + (f[y] + g[q]) /\ g[s] # f[y] + (f[x] + g[q])
      BY <2>3, <2>5, <2>11
    <2> QED
      BY <2>12, <2>13
  <1>5. Good(S)
    BY <1>4, FS_CardinalityType
  <1>6. S \in SUBSET S /\ S \ {r} \in SUBSET S
    OBVIOUS
  <1> QED
    BY <1>2, <1>5, <1>6

\* The empty sum is 0, and a new element adds its term.
LEMMA SumGrows ==
    ASSUME NEW f, NEW s, IsFiniteSet(s), NEW x, x \notin s,
           f[x] \in Int, \A y \in s : f[y] \in Int
    PROVE  SumFunctionOnSet(f, s \cup {x}) = f[x] + SumFunctionOnSet(f, s)
  <1>1. IsFiniteSet(s \cup {x}) /\ (s \cup {x}) \ {x} = s
    BY FS_AddElement
  <1>2. \A y \in s \cup {x} : f[y] \in Int
    OBVIOUS
  <1>3. SumFunctionOnSet(f, s \cup {x}) = f[x] + SumFunctionOnSet(f, (s \cup {x}) \ {x})
    BY <1>1, <1>2, SumRemoves
  <1> QED
    BY <1>1, <1>3

\* A sum over two disjoint sets is the sum of the two sums.
LEMMA SumDisjoint ==
    ASSUME NEW f, NEW A, IsFiniteSet(A), NEW B, IsFiniteSet(B), A \cap B = {},
           \A x \in A \cup B : f[x] \in Int
    PROVE  SumFunctionOnSet(f, A \cup B) = SumFunctionOnSet(f, A) + SumFunctionOnSet(f, B)
  <1> DEFINE P == {s \in SUBSET B :
                SumFunctionOnSet(f, A \cup s) = SumFunctionOnSet(f, A) + SumFunctionOnSet(f, s)}
  <1>1. SumFunctionOnSet(f, A) \in Int
    BY SumType
  <1>2. {} \in P
    <2>1. SumFunctionOnSet(f, {}) = 0
      BY SumOfZeros, FS_EmptySet
    <2>2. A \cup {} = A
      OBVIOUS
    <2> QED
      BY <1>1, <2>1, <2>2
  <1>3. ASSUME NEW s \in SUBSET B, NEW x \in B, s \in P, x \notin s PROVE s \cup {x} \in P
    <2>1. IsFiniteSet(s) /\ IsFiniteSet(A \cup s)
      BY FS_Subset, FS_Union
    <2>2. SumFunctionOnSet(f, s \cup {x}) = f[x] + SumFunctionOnSet(f, s)
      BY <1>3, <2>1, SumGrows
    <2>3. SumFunctionOnSet(f, (A \cup s) \cup {x}) = f[x] + SumFunctionOnSet(f, A \cup s)
      BY <1>3, <2>1, SumGrows
    <2>4. SumFunctionOnSet(f, A \cup (s \cup {x})) = f[x] + SumFunctionOnSet(f, A \cup s)
      <3>1. A \cup (s \cup {x}) = (A \cup s) \cup {x}
        OBVIOUS
      <3> QED
        BY <2>3, <3>1
    <2>5. SumFunctionOnSet(f, s) \in Int /\ f[x] \in Int
      BY <2>1, SumType
    <2>6. SumFunctionOnSet(f, A \cup s) = SumFunctionOnSet(f, A) + SumFunctionOnSet(f, s)
      BY <1>3
    <2>7. SumFunctionOnSet(f, A \cup (s \cup {x}))
            = SumFunctionOnSet(f, A) + SumFunctionOnSet(f, s \cup {x})
      BY <1>1, <2>2, <2>4, <2>5, <2>6
    <2> QED
      BY <2>7
  <1> HIDE DEF P
  <1>4. B \in P
    BY <1>2, <1>3, FiniteInduction
  <1> QED
    BY <1>4 DEF P

\* Two sums over the same set are added term by term.
LEMMA SumAdds ==
    ASSUME NEW S, IsFiniteSet(S), NEW f, NEW g, NEW h,
           \A x \in S : f[x] \in Int /\ g[x] \in Int /\ h[x] = f[x] + g[x]
    PROVE  SumFunctionOnSet(h, S) = SumFunctionOnSet(f, S) + SumFunctionOnSet(g, S)
  <1> DEFINE P == {s \in SUBSET S :
                SumFunctionOnSet(h, s) = SumFunctionOnSet(f, s) + SumFunctionOnSet(g, s)}
  <1>1. {} \in P
    <2>1. /\ SumFunctionOnSet(f, {}) = 0 /\ SumFunctionOnSet(g, {}) = 0
          /\ SumFunctionOnSet(h, {}) = 0
      BY SumOfZeros, FS_EmptySet
    <2> QED
      BY <2>1
  <1>2. ASSUME NEW s \in SUBSET S, NEW x \in S, s \in P, x \notin s PROVE s \cup {x} \in P
    <2>1. IsFiniteSet(s) /\ \A y \in s \cup {x} : f[y] \in Int /\ g[y] \in Int /\ h[y] \in Int
      BY FS_Subset
    <2>2. /\ SumFunctionOnSet(f, s \cup {x}) = f[x] + SumFunctionOnSet(f, s)
          /\ SumFunctionOnSet(g, s \cup {x}) = g[x] + SumFunctionOnSet(g, s)
          /\ SumFunctionOnSet(h, s \cup {x}) = h[x] + SumFunctionOnSet(h, s)
      BY <1>2, <2>1, SumGrows
    <2>3. SumFunctionOnSet(f, s) \in Int /\ SumFunctionOnSet(g, s) \in Int
      BY <2>1, SumType
    <2>4. SumFunctionOnSet(h, s) = SumFunctionOnSet(f, s) + SumFunctionOnSet(g, s)
      BY <1>2
    <2>5. SumFunctionOnSet(h, s \cup {x})
            = SumFunctionOnSet(f, s \cup {x}) + SumFunctionOnSet(g, s \cup {x})
      BY <2>2, <2>3, <2>4
    <2> QED
      BY <2>5
  <1> HIDE DEF P
  <1>3. S \in P
    BY <1>1, <1>2, FiniteInduction
  <1> QED
    BY <1>3 DEF P

\* A sum is at most, or at least, what its size says when every term is.
LEMMA SumAtMost ==
    ASSUME NEW S, IsFiniteSet(S), NEW f, NEW c \in Int,
           \A x \in S : f[x] \in Int /\ f[x] <= c
    PROVE  SumFunctionOnSet(f, S) <= Cardinality(S) * c
  <1> DEFINE P == {s \in SUBSET S : SumFunctionOnSet(f, s) <= Cardinality(s) * c}
  <1>1. {} \in P
    <2>1. SumFunctionOnSet(f, {}) = 0 /\ Cardinality({}) = 0
      BY SumOfZeros, FS_EmptySet
    <2> QED
      BY <2>1
  <1>2. ASSUME NEW s \in SUBSET S, NEW x \in S, s \in P, x \notin s PROVE s \cup {x} \in P
    <2>1. IsFiniteSet(s) /\ \A y \in s \cup {x} : f[y] \in Int
      BY FS_Subset
    <2>2. SumFunctionOnSet(f, s \cup {x}) = f[x] + SumFunctionOnSet(f, s)
      BY <1>2, <2>1, SumGrows
    <2>3. SumFunctionOnSet(f, s) \in Int /\ SumFunctionOnSet(f, s) <= Cardinality(s) * c
      BY <1>2, <2>1, SumType
    <2>4. Cardinality(s) \in Nat /\ Cardinality(s \cup {x}) = Cardinality(s) + 1
      BY <1>2, <2>1, FS_AddElement, FS_CardinalityType
    <2>5. \A n \in Nat : (n + 1) * c = n * c + c /\ n * c \in Int
      OBVIOUS
    <2>6. Cardinality(s \cup {x}) * c = Cardinality(s) * c + c /\ Cardinality(s) * c \in Int
      BY <2>4, <2>5
    <2>7. f[x] \in Int /\ f[x] <= c
      OBVIOUS
    <2>8. SumFunctionOnSet(f, s \cup {x}) <= Cardinality(s \cup {x}) * c
      BY <2>2, <2>3, <2>6, <2>7
    <2> QED
      BY <2>8
  <1> HIDE DEF P
  <1>3. S \in P
    BY <1>1, <1>2, FiniteInduction
  <1> QED
    BY <1>3 DEF P

\* A sum of terms that are not negative is not negative.
LEMMA SumNatural ==
    ASSUME NEW S, IsFiniteSet(S), NEW f, \A x \in S : f[x] \in Nat
    PROVE  SumFunctionOnSet(f, S) \in Nat
  <1> DEFINE P == {s \in SUBSET S : SumFunctionOnSet(f, s) \in Nat}
  <1>1. {} \in P
    <2>1. SumFunctionOnSet(f, {}) = 0
      BY SumOfZeros, FS_EmptySet
    <2> QED
      BY <2>1
  <1>2. ASSUME NEW s \in SUBSET S, NEW x \in S, s \in P, x \notin s PROVE s \cup {x} \in P
    <2>1. IsFiniteSet(s) /\ f[x] \in Int /\ \A y \in s : f[y] \in Int
      BY FS_Subset
    <2>2. SumFunctionOnSet(f, s \cup {x}) = f[x] + SumFunctionOnSet(f, s)
      BY <1>2, <2>1, SumGrows
    <2> QED
      BY <1>2, <2>2
  <1> HIDE DEF P
  <1>3. S \in P
    BY <1>1, <1>2, FiniteInduction
  <1> QED
    BY <1>3 DEF P

----------------------------------------------------------------------------
(* Maxima *)

\* A finite set that a numbering "pos" tells apart has an element of the
\* highest value and, among those, of the lowest position.
LEMMA HighestExists ==
    ASSUME NEW S, IsFiniteSet(S), S # {}, NEW value, NEW pos,
           \A x \in S : value[x] \in Int /\ pos[x] \in Nat,
           \A x, y \in S : pos[x] = pos[y] => x = y
    PROVE  \E x \in S : \A y \in S \ {x} :
               value[x] > value[y] \/ (value[x] = value[y] /\ pos[x] < pos[y])
  <1> DEFINE Beats(x, y) == value[x] > value[y] \/ (value[x] = value[y] /\ pos[x] < pos[y])
             Top(s) == \E x \in s : \A y \in s \ {x} : Beats(x, y)
             Bad == {n \in Nat : \E s \in SUBSET S : s # {} /\ Cardinality(s) = n /\ ~Top(s)}
  <1>a. \A x, y \in S : x # y => Beats(x, y) \/ Beats(y, x)
    OBVIOUS
  <1>b. \A x, y, z \in S : Beats(x, y) /\ Beats(y, z) => Beats(x, z)
    OBVIOUS
  <1> HIDE DEF Beats
  <1>1. Bad = {}
    <2> SUFFICES ASSUME Bad # {} PROVE FALSE
      OBVIOUS
    <2>1. PICK n \in Bad : \A m \in Bad : n <= m
      <3>1. Bad \in SUBSET Nat
        OBVIOUS
      <3> HIDE DEF Bad
      <3> QED
        BY <3>1, LeastNumber
    <2>2. PICK s \in SUBSET S : s # {} /\ Cardinality(s) = n /\ ~Top(s)
      BY <2>1
    <2> DEFINE x == Next1(s)
               rest == s \ {x}
    <2>3. /\ x \in s /\ x \in S /\ rest \in SUBSET S /\ n \in Nat
          /\ Cardinality(rest) = n - 1 /\ Cardinality(rest) \in Nat
      BY <2>2, Next1Facts
    <2> HIDE DEF x
    <2>4. CASE rest = {}
      <3>1. \A y \in s \ {x} : Beats(x, y)
        BY <2>4
      <3> QED
        BY <2>2, <2>3, <3>1
    <2>5. CASE rest # {}
      <3>1. Top(rest)
        <4>1. n - 1 \notin Bad
          BY <2>1, <2>3
        <4> QED
          BY <2>3, <2>5, <4>1
      <3>2. PICK t \in rest : \A y \in rest \ {t} : Beats(t, y)
        BY <3>1
      <3>3. t \in s /\ t \in S /\ x # t
        BY <2>3, <3>2
      <3>4. CASE Beats(t, x)
        <4>1. \A y \in s \ {t} : Beats(t, y)
          BY <3>2, <3>4
        <4> QED
          BY <2>2, <3>3, <4>1
      <3>5. CASE Beats(x, t)
        <4>1. ASSUME NEW y \in s \ {x} PROVE Beats(x, y)
          <5>1. y \in S /\ (y = t \/ Beats(t, y))
            BY <3>2, <4>1
          <5> QED
            BY <1>b, <2>3, <3>3, <3>5, <5>1
        <4> QED
          BY <2>2, <2>3, <4>1
      <3> QED
        BY <1>a, <2>3, <3>3, <3>4, <3>5
    <2> QED
      BY <2>4, <2>5
  <1>2. Top(S)
    <2>1. Cardinality(S) \in Nat /\ Cardinality(S) \notin Bad
      BY <1>1, FS_CardinalityType
    <2> QED
      BY <2>1
  <1> QED
    BY <1>2 DEF Beats
============================================================================
