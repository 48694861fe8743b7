----------------------------- MODULE SumTheorems -----------------------------
(***************************************************************************)
(* What SumFunction, which adds up a function in an unspecified order,     *)
(* does when one value grows by one (SumIncrement), and what it is on part *)
(* of the indices (SumOnSet, SumMonotone).  The recursive function it is   *)
(* defined by exists on finite domains (SumExists), and two sums are       *)
(* compared by induction on the number of indices (NatInd).                *)
(***************************************************************************)
EXTENDS Integers, Functions, FiniteSetTheorems, WellFoundedInduction, TLAPS

\* Induction on the natural numbers, stated for a set.
LEMMA NatInd ==
  ASSUME NEW S, S \subseteq Nat, 0 \in S, \A n \in S : n + 1 \in S
  PROVE  S = Nat
<1> SUFFICES ASSUME Nat \ S # {} PROVE FALSE
  BY Zenon
<1> DEFINE R == {ss \in Nat \X Nat : ss[1] < ss[2]}
<1>1. IsWellFoundedOn(R, Nat)
  BY NatLessThanWellFounded DEF OpToRel
<1> HIDE DEF R
<1>2. PICK m \in Nat \ S : \A y \in Nat \ S : ~ (<<y, m>> \in R)
  <2>1. Nat \ S \subseteq Nat
    OBVIOUS
  <2>2. QED
    BY <1>1, <2>1, WFMin, Zenon
<1>3. m # 0 /\ m - 1 \in Nat /\ (m - 1) + 1 = m
  OBVIOUS
<1>4. <<m - 1, m>> \in R
  BY <1>3 DEF R
<1>5. m - 1 \in S
  BY <1>2, <1>3, <1>4
<1>6. QED
  BY <1>3, <1>5

\* The element the sum takes next.
First(s) == CHOOSE x \in s : TRUE

\* g gives the sum of f on every set of at most n indices, an index at a time.
SumsUpTo(f, n, g) ==
  \A s \in SUBSET (DOMAIN f) : Cardinality(s) <= n =>
    g[s] = IF s = {} THEN 0 ELSE f[First(s)] + g[s \ {First(s)}]

\* g is the recursive function in the definition of SumFunction.
Sums(f, g) ==
  g = [s \in SUBSET (DOMAIN f) |->
         IF s = {} THEN 0 ELSE f[First(s)] + g[s \ {First(s)}]]

\* SumFunction chooses such a g.
LEMMA SumChoice ==
  ASSUME NEW f
  PROVE  SumFunction(f) = (CHOOSE g : Sums(f, g))[DOMAIN f]
BY DEF SumFunction, SumFunctionOnSet, FoldFunctionOnSet, MapThenFoldSet, Sums, First

\* A set of n + 1 indices is its first element and a set of n.
LEMMA FirstOf ==
  ASSUME NEW I, IsFiniteSet(I), NEW s \in SUBSET I
  PROVE  /\ IsFiniteSet(s) /\ Cardinality(s) \in Nat
         /\ Cardinality(s) = 0 <=> s = {}
         /\ s # {} => /\ First(s) \in s
                      /\ s \ {First(s)} \in SUBSET I
                      /\ Cardinality(s \ {First(s)}) = Cardinality(s) - 1
<1>1. IsFiniteSet(s) /\ Cardinality(s) \in Nat
  BY FS_Subset, FS_CardinalityType
<1>2. Cardinality(s) = 0 <=> s = {}
  BY <1>1, FS_EmptySet
<1>3. ASSUME s # {} PROVE First(s) \in s
  BY <1>3 DEF First
<1>4. ASSUME s # {} PROVE Cardinality(s \ {First(s)}) = Cardinality(s) - 1
  BY <1>1, <1>3, <1>4, FS_RemoveElement, Zenon
<1>5. QED
  BY <1>1, <1>2, <1>3, <1>4

\* There is such a g to choose.
LEMMA SumExists ==
  ASSUME NEW f, IsFiniteSet(DOMAIN f)
  PROVE  \E g : Sums(f, g)
<1> DEFINE I == DOMAIN f
<1> DEFINE N == {n \in Nat : \E g : SumsUpTo(f, n, g)}
<1>1. 0 \in N
  <2>1. PICK g : g = [s \in SUBSET I |-> 0]
    BY Zenon
  <2>2. ASSUME NEW s \in SUBSET I, Cardinality(s) <= 0 PROVE s = {} /\ g[s] = 0
    <3>1. Cardinality(s) \in Nat /\ (Cardinality(s) = 0 <=> s = {})
      BY FirstOf, Zenon
    <3>2. QED
      BY <2>1, <2>2, <3>1
  <2>3. SumsUpTo(f, 0, g)
    BY <2>2 DEF SumsUpTo
  <2>4. QED
    BY <2>3
<1>2. ASSUME NEW n \in N PROVE n + 1 \in N
  <2>1. PICK g : SumsUpTo(f, n, g)
    OBVIOUS
  <2>2. PICK h : h = [s \in SUBSET I |->
                 IF s = {} THEN 0 ELSE f[First(s)] + g[s \ {First(s)}]]
    BY Zenon
  <2>3. ASSUME NEW s \in SUBSET I, Cardinality(s) <= n PROVE h[s] = g[s]
    BY <2>1, <2>2, <2>3, Zenon DEF SumsUpTo
  <2>4. ASSUME NEW s \in SUBSET I, Cardinality(s) <= n + 1
        PROVE  h[s] = IF s = {} THEN 0 ELSE f[First(s)] + h[s \ {First(s)}]
    <3>1. CASE s = {}
      BY <2>2, <3>1
    <3>2. CASE s # {}
      <4>1. s \ {First(s)} \in SUBSET I /\ Cardinality(s \ {First(s)}) <= n
        BY <2>4, <3>2, FirstOf
      <4>2. h[s \ {First(s)}] = g[s \ {First(s)}]
        BY <2>3, <4>1
      <4>3. QED
        BY <2>2, <3>2, <4>2
    <3>3. QED
      BY <3>1, <3>2
  <2>5. SumsUpTo(f, n + 1, h)
    BY <2>4 DEF SumsUpTo
  <2>6. QED
    BY <2>5
<1> HIDE DEF N
<1>3. N = Nat
  BY <1>1, <1>2, NatInd, Zenon DEF N
<1>4. PICK g : SumsUpTo(f, Cardinality(I), g)
  BY <1>3, FS_CardinalityType DEF N
<1>5. \A s \in SUBSET I : Cardinality(s) <= Cardinality(I)
  BY FS_Subset
<1>6. Sums(f, [s \in SUBSET I |-> g[s]])
  BY <1>4, <1>5, FirstOf, Zenon DEF Sums, SumsUpTo
<1>7. QED
  BY <1>6

\* g satisfies that recursion on every set of indices.
Adds(f, I, g) ==
  \A s \in SUBSET I :
    g[s] = IF s = {} THEN 0 ELSE f[First(s)] + g[s \ {First(s)}]

\* SumFunction is computed by such a g.
LEMMA SumUnfold ==
  ASSUME NEW f, NEW I, I = DOMAIN f, IsFiniteSet(I)
  PROVE  \E g : SumFunction(f) = g[I] /\ Adds(f, I, g)
<1>1. Sums(f, CHOOSE g : Sums(f, g))
  BY SumExists
<1>2. PICK g : Sums(f, g) /\ SumFunction(f) = g[I]
  BY <1>1, SumChoice
<1>3. QED
  BY <1>2, Zenon DEF Sums, Adds

\* The sum over the empty histogram is 0.
LEMMA SumZero ==
  ASSUME NEW I, IsFiniteSet(I)
  PROVE  SumFunction([i \in I |-> 0]) = 0
<1>1. PICK f : f = [i \in I |-> 0]
  BY Zenon
<1>2. PICK g : SumFunction(f) = g[I] /\ Adds(f, I, g)
  <2>1. I = DOMAIN f
    BY <1>1
  <2>2. QED
    BY <2>1, SumUnfold
<1> DEFINE N == {n \in Nat : \A s \in SUBSET I : Cardinality(s) = n => g[s] = 0}
<1>3. 0 \in N
  BY <1>2, FirstOf, ZenonT(40) DEF Adds
<1>4. ASSUME NEW n \in N PROVE n + 1 \in N
  <2>1. ASSUME NEW s \in SUBSET I, Cardinality(s) = n + 1 PROVE g[s] = 0
    <3>1. PICK x, r : x = First(s) /\ r = s \ {First(s)}
      BY Zenon
    <3>2. s # {} /\ x \in s /\ r \in SUBSET I /\ Cardinality(r) = n
      BY <2>1, <3>1, FirstOf
    <3>3. g[r] = 0 /\ f[x] = 0
      BY <1>1, <3>2
    <3>4. g[s] = f[x] + g[r]
      BY <1>2, <3>1, <3>2, Zenon DEF Adds
    <3>5. QED
      BY <3>3, <3>4
  <2>2. QED
    BY <2>1
<1> HIDE DEF N
<1>5. N = Nat
  BY <1>3, <1>4, NatInd, Zenon DEF N
<1>6. QED
  BY <1>1, <1>2, <1>5, FS_CardinalityType DEF N

\* One more sample in one bucket makes the sum one larger.
LEMMA SumIncrement ==
  ASSUME NEW I, IsFiniteSet(I), NEW f \in [I -> Nat], NEW i \in I
  PROVE  /\ SumFunction(f) \in Nat
         /\ SumFunction([f EXCEPT ![i] = @ + 1]) = SumFunction(f) + 1
<1>1. PICK e : e = [f EXCEPT ![i] = @ + 1]
  BY Zenon
<1>2. PICK g : SumFunction(f) = g[I] /\ Adds(f, I, g)
  <2>1. I = DOMAIN f
    OBVIOUS
  <2>2. QED
    BY <2>1, SumUnfold
<1>3. PICK h : SumFunction(e) = h[I] /\ Adds(e, I, h)
  <2>1. I = DOMAIN e
    BY <1>1
  <2>2. QED
    BY <2>1, SumUnfold
<1> DEFINE Right(s) == g[s] \in Nat /\ h[s] = g[s] + (IF i \in s THEN 1 ELSE 0)
           N == {n \in Nat : \A s \in SUBSET I : Cardinality(s) = n => Right(s)}
<1>4. 0 \in N
  <2>1. ASSUME NEW s \in SUBSET I, Cardinality(s) = 0 PROVE Right(s)
    <3>1. s = {}
      BY <2>1, FirstOf, Zenon
    <3>2. g[s] = 0 /\ h[s] = 0
      BY <1>2, <1>3, <3>1, Zenon DEF Adds
    <3>3. QED
      BY <3>1, <3>2
  <2>2. QED
    BY <2>1
<1>5. ASSUME NEW n \in N PROVE n + 1 \in N
  <2>1. ASSUME NEW s \in SUBSET I, Cardinality(s) = n + 1 PROVE Right(s)
    <3>1. PICK x, r : x = First(s) /\ r = s \ {First(s)}
      BY Zenon
    <3>2. s # {} /\ x \in s /\ r \in SUBSET I /\ Cardinality(r) = n
      BY <2>1, <3>1, FirstOf
    <3>3. Right(r)
      BY <3>2
    <3>4. g[s] = f[x] + g[r] /\ h[s] = e[x] + h[r]
      BY <1>2, <1>3, <3>1, <3>2 DEF Adds
    <3>5. f[x] \in Nat /\ e[x] = f[x] + (IF x = i THEN 1 ELSE 0)
      BY <1>1, <3>2
    <3>6. i \in s <=> x = i \/ i \in r
      BY <3>1, <3>2
    <3>7. x \notin r
      BY <3>1
    <3>8. CASE x = i
      BY <3>3, <3>4, <3>5, <3>6, <3>7, <3>8
    <3>9. CASE x # i
      BY <3>3, <3>4, <3>5, <3>6, <3>9
    <3>10. QED
      BY <3>8, <3>9
  <2>2. QED
    BY <2>1
<1> HIDE DEF N
<1>6. N = Nat
  BY <1>4, <1>5, NatInd, Zenon DEF N
<1>7. Right(I)
  BY <1>6, FS_CardinalityType DEF N
<1>8. QED
  BY <1>1, <1>2, <1>3, <1>7

\* The recursion yields natural numbers.
LEMMA SumNat ==
  ASSUME NEW I, IsFiniteSet(I), NEW f \in [I -> Nat], NEW g, Adds(f, I, g)
  PROVE  \A s \in SUBSET I : g[s] \in Nat
<1> DEFINE N == {n \in Nat : \A s \in SUBSET I : Cardinality(s) = n => g[s] \in Nat}
<1>1. 0 \in N
  <2>1. ASSUME NEW s \in SUBSET I, Cardinality(s) = 0 PROVE g[s] \in Nat
    <3>1. s = {}
      BY <2>1, FirstOf, Zenon
    <3>2. g[s] = 0
      BY <3>1, Zenon DEF Adds
    <3>3. QED
      BY <3>2
  <2>2. QED
    BY <2>1
<1>2. ASSUME NEW n \in N PROVE n + 1 \in N
  <2>1. ASSUME NEW s \in SUBSET I, Cardinality(s) = n + 1 PROVE g[s] \in Nat
    <3>1. PICK x, r : x = First(s) /\ r = s \ {First(s)}
      BY Zenon
    <3>2. s # {} /\ x \in s /\ r \in SUBSET I /\ Cardinality(r) = n
      BY <2>1, <3>1, FirstOf
    <3>3. g[r] \in Nat /\ f[x] \in Nat
      BY <3>2
    <3>4. g[s] = f[x] + g[r]
      BY <3>1, <3>2, Zenon DEF Adds
    <3>5. QED
      BY <3>3, <3>4
  <2>2. QED
    BY <2>1
<1> HIDE DEF N
<1>3. N = Nat
  BY <1>1, <1>2, NatInd, Zenon DEF N
<1>4. ASSUME NEW s \in SUBSET I PROVE g[s] \in Nat
  <2>1. Cardinality(s) \in N
    BY <1>3, FirstOf, Zenon
  <2>2. QED
    BY <2>1 DEF N
<1>5. QED
  BY <1>4

\* The recursion may take any element next, not only the first.
LEMMA SumRemove ==
  ASSUME NEW I, IsFiniteSet(I), NEW f \in [I -> Nat], NEW g, Adds(f, I, g)
  PROVE  \A s \in SUBSET I : \A x \in s : g[s] = f[x] + g[s \ {x}]
<1> DEFINE Right(s) == \A x \in s : g[s] = f[x] + g[s \ {x}]
           N == {n \in Nat : \A s \in SUBSET I : Cardinality(s) = n => Right(s)}
<1>1. 0 \in N
  BY FirstOf, Zenon
<1>2. ASSUME NEW n \in N PROVE n + 1 \in N
  <2>1. ASSUME NEW s \in SUBSET I, Cardinality(s) = n + 1 PROVE Right(s)
    <3>1. PICK y, r : y = First(s) /\ r = s \ {First(s)}
      BY Zenon
    <3>2. s # {} /\ y \in s /\ r \in SUBSET I /\ Cardinality(r) = n
      BY <2>1, <3>1, FirstOf
    <3>3. Right(r)
      BY <3>2
    <3>4. g[s] = f[y] + g[r]
      BY <3>1, <3>2, Zenon DEF Adds
    <3>5. ASSUME NEW x \in s, x # y PROVE g[s] = f[x] + g[s \ {x}]
      <4>1. PICK t, u : t = s \ {x} /\ u = r \ {x}
        BY Zenon
      <4>2. t \in SUBSET I /\ u \in SUBSET I /\ y \in t /\ x \in r /\ t \ {y} = u
        BY <3>1, <3>2, <3>5, <4>1
      <4>3. IsFiniteSet(s) /\ Cardinality(s) \in Nat
        BY FirstOf, Zenon
      <4>4. Cardinality(t) = Cardinality(s) - 1
        BY <4>1, <4>3, FS_RemoveElement, Zenon
      <4>5. Cardinality(t) = n
        BY <2>1, <4>4
      <4>6. Right(t)
        BY <4>2, <4>5
      <4>7. g[t] = f[y] + g[t \ {y}] /\ g[r] = f[x] + g[r \ {x}]
        BY <3>3, <4>2, <4>6, Zenon
      <4>8. g[t] = f[y] + g[u] /\ g[r] = f[x] + g[u]
        BY <4>1, <4>2, <4>7, Zenon
      <4>9. f[x] \in Nat /\ f[y] \in Nat
        BY <3>2
      <4>10. g[u] \in Nat
        BY <4>2, SumNat, Zenon
      <4>11. QED
        BY <3>4, <4>1, <4>8, <4>9, <4>10
    <3>6. QED
      BY <3>1, <3>4, <3>5, Zenon
  <2>2. QED
    BY <2>1
<1> HIDE DEF N
<1>3. N = Nat
  BY <1>1, <1>2, NatInd, Zenon DEF N
<1>4. ASSUME NEW s \in SUBSET I PROVE Right(s)
  <2>1. Cardinality(s) \in N
    BY <1>3, FirstOf, Zenon
  <2>2. QED
    BY <2>1, Zenon DEF N
<1>5. QED
  BY <1>4, Zenon

\* h is the recursive function by which SumFunctionOnSet adds up f over J.
SumsOn(f, J, h) ==
  h = [s \in SUBSET J |->
         IF s = {} THEN 0 ELSE f[First(s)] + h[s \ {First(s)}]]

\* A sum over a part of the indices is what the recursion over all of them
\* yields for that part.
LEMMA SumOnPart ==
  ASSUME NEW I, IsFiniteSet(I), NEW f \in [I -> Nat], NEW g, Adds(f, I, g),
         NEW J \in SUBSET I
  PROVE  SumFunctionOnSet(f, J) = g[J]
<1>1. SumFunctionOnSet(f, J) = (CHOOSE h : SumsOn(f, J, h))[J]
  BY DEF SumFunctionOnSet, FoldFunctionOnSet, MapThenFoldSet, SumsOn, First
<1>2. \E h : SumsOn(f, J, h)
  <2>1. PICK h : h = [s \in SUBSET J |-> g[s]]
    BY Zenon
  <2>2. ASSUME NEW s \in SUBSET J
        PROVE  g[s] = IF s = {} THEN 0 ELSE f[First(s)] + h[s \ {First(s)}]
    <3>1. s \in SUBSET I /\ s \ {First(s)} \in SUBSET J
      OBVIOUS
    <3>2. h[s \ {First(s)}] = g[s \ {First(s)}]
      BY <2>1, <3>1, Zenon
    <3>3. QED
      BY <3>1, <3>2, Zenon DEF Adds
  <2>3. SumsOn(f, J, h)
    BY <2>1, <2>2, Zenon DEF SumsOn
  <2>4. QED
    BY <2>3, Zenon
<1>3. PICK h : SumsOn(f, J, h) /\ SumFunctionOnSet(f, J) = h[J]
  BY <1>1, <1>2, Zenon
<1>4. Adds(f, J, h)
  <2>1. ASSUME NEW s \in SUBSET J
        PROVE  h[s] = IF s = {} THEN 0 ELSE f[First(s)] + h[s \ {First(s)}]
    BY <1>3, Zenon DEF SumsOn
  <2>2. QED
    BY <2>1, Zenon DEF Adds
<1>5. IsFiniteSet(J)
  BY FS_Subset, Zenon
<1> DEFINE N == {n \in Nat : \A s \in SUBSET J : Cardinality(s) = n => h[s] = g[s]}
<1>6. 0 \in N
  <2>1. ASSUME NEW s \in SUBSET J, Cardinality(s) = 0 PROVE h[s] = g[s]
    <3>1. s = {} /\ s \in SUBSET I
      BY <1>5, <2>1, FirstOf, Zenon
    <3>2. QED
      BY <1>4, <3>1, Zenon DEF Adds
  <2>2. QED
    BY <2>1
<1>7. ASSUME NEW n \in N PROVE n + 1 \in N
  <2>1. ASSUME NEW s \in SUBSET J, Cardinality(s) = n + 1 PROVE h[s] = g[s]
    <3>1. PICK x, r : x = First(s) /\ r = s \ {First(s)}
      BY Zenon
    <3>2. s # {} /\ s \in SUBSET I /\ r \in SUBSET J /\ Cardinality(r) = n
      BY <1>5, <2>1, <3>1, FirstOf
    <3>3. h[s] = f[x] + h[r] /\ g[s] = f[x] + g[r]
      BY <1>4, <3>1, <3>2, Zenon DEF Adds
    <3>4. h[r] = g[r]
      BY <3>2
    <3>5. QED
      BY <3>3, <3>4, Zenon
  <2>2. QED
    BY <2>1
<1> HIDE DEF N
<1>8. N = Nat
  BY <1>6, <1>7, NatInd, Zenon DEF N
<1>9. Cardinality(J) \in N
  BY <1>5, <1>8, FS_CardinalityType, Zenon
<1>10. QED
  BY <1>3, <1>9 DEF N

\* A sum over a part of the buckets: it is a natural number, one more bucket adds
\* its samples, and it does not exceed the sum over all.
LEMMA SumOnSet ==
  ASSUME NEW I, IsFiniteSet(I), NEW f \in [I -> Nat], NEW J \in SUBSET I
  PROVE  /\ SumFunctionOnSet(f, J) \in Nat
         /\ J = {} => SumFunctionOnSet(f, J) = 0
         /\ \A x \in I \ J :
              SumFunctionOnSet(f, J \cup {x}) = SumFunctionOnSet(f, J) + f[x]
<1>1. PICK g : SumFunction(f) = g[I] /\ Adds(f, I, g)
  BY SumUnfold
<1>2. SumFunctionOnSet(f, J) = g[J] /\ g[J] \in Nat
  <2>1. SumFunctionOnSet(f, J) = g[J]
    BY <1>1, SumOnPart
  <2>2. g[J] \in Nat
    BY <1>1, SumNat
  <2>3. QED
    BY <2>1, <2>2
<1>3. J = {} => g[J] = 0
  BY <1>1, Zenon DEF Adds
<1>4. ASSUME NEW x \in I \ J
      PROVE  SumFunctionOnSet(f, J \cup {x}) = SumFunctionOnSet(f, J) + f[x]
  <2>1. PICK s : s = J \cup {x}
    BY Zenon
  <2>2. s \in SUBSET I /\ x \in s /\ s \ {x} = J /\ f[x] \in Nat
    BY <2>1
  <2>3. g[s] = f[x] + g[s \ {x}]
    BY <1>1, <2>2, SumRemove
  <2>4. SumFunctionOnSet(f, s) = g[s]
    BY <1>1, <2>2, SumOnPart
  <2>5. QED
    BY <1>2, <2>1, <2>2, <2>3, <2>4
<1>5. QED
  BY <1>2, <1>3, <1>4, Zenon

\* A part of the buckets holds no more samples than a larger part.
LEMMA SumMonotone ==
  ASSUME NEW I, IsFiniteSet(I), NEW f \in [I -> Nat], NEW J \in SUBSET I
  PROVE  SumFunctionOnSet(f, J) <= SumFunction(f)
<1> DEFINE N == {n \in Nat : \A s \in SUBSET I :
                   Cardinality(I \ s) = n =>
                     SumFunctionOnSet(f, s) <= SumFunctionOnSet(f, I)}
<1>0. ASSUME NEW s \in SUBSET I
      PROVE  IsFiniteSet(I \ s) /\ Cardinality(I \ s) \in Nat
  <2>1. I \ s \in SUBSET I
    OBVIOUS
  <2>2. QED
    BY <2>1, FirstOf, Zenon
<1>1. 0 \in N
  <2>1. ASSUME NEW s \in SUBSET I, Cardinality(I \ s) = 0
        PROVE  SumFunctionOnSet(f, s) <= SumFunctionOnSet(f, I)
    <3>1. I \ s = {}
      BY <1>0, <2>1, FS_EmptySet, Zenon
    <3>2. s = I
      BY <3>1
    <3>3. SumFunctionOnSet(f, s) \in Nat
      BY SumOnSet, Zenon
    <3>4. QED
      BY <3>2, <3>3
  <2>2. QED
    BY <2>1
<1>2. ASSUME NEW n \in N PROVE n + 1 \in N
  <2>1. ASSUME NEW s \in SUBSET I, Cardinality(I \ s) = n + 1
        PROVE  SumFunctionOnSet(f, s) <= SumFunctionOnSet(f, I)
    <3>1. I \ s # {}
      BY <2>1, FS_EmptySet
    <3>2. PICK x \in I : x \notin s
      BY <3>1
    <3>3. PICK t : t = s \cup {x}
      BY Zenon
    <3>4. t \in SUBSET I /\ I \ t = (I \ s) \ {x} /\ x \in I \ s
      BY <3>2, <3>3
    <3>5. Cardinality(I \ t) = Cardinality(I \ s) - 1
      <4>1. Cardinality((I \ s) \ {x}) = Cardinality(I \ s) - 1
        BY <1>0, <3>4, FS_RemoveElement, Zenon
      <4>2. QED
        BY <3>4, <4>1
    <3>6. Cardinality(I \ t) = n
      BY <2>1, <3>5
    <3>7. SumFunctionOnSet(f, t) <= SumFunctionOnSet(f, I)
      BY <3>4, <3>6
    <3>8. SumFunctionOnSet(f, t) = SumFunctionOnSet(f, s) + f[x]
      BY <3>2, <3>3, SumOnSet
    <3>9. /\ SumFunctionOnSet(f, s) \in Nat /\ SumFunctionOnSet(f, I) \in Nat
          /\ f[x] \in Nat
      <4>1. I \in SUBSET I
        OBVIOUS
      <4>2. QED
        BY <4>1, SumOnSet
    <3>10. QED
      BY <3>7, <3>8, <3>9
  <2>2. QED
    BY <2>1
<1> HIDE DEF N
<1>3. N = Nat
  BY <1>1, <1>2, NatInd, Zenon DEF N
<1>4. Cardinality(I \ J) \in N
  BY <1>0, <1>3, Zenon
<1>5. SumFunctionOnSet(f, J) <= SumFunctionOnSet(f, I)
  BY <1>4 DEF N
<1>6. QED
  BY <1>5 DEF SumFunction
=============================================================================
