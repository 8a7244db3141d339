---------------------------- MODULE FiniteProofs ----------------------------
(***************************************************************************)
(* Facts about finite sets that the proofs of several components use:      *)
(* induction, ranks in a set of positions, and sums.                       *)
(*                                                                         *)
(* The induction principles are stated with a set of numbers, or of sets,  *)
(* in place of a predicate.                                                *)
(***************************************************************************)
EXTENDS FiniteMaps, CompactMap, FiniteSetTheorems, TLAPS

(***************************************************************************)
(* A set of naturals with 0 and all successors is Nat: were n missing, the *)
(* successor would map its elements below n one to one into themselves,    *)
(* and reach all of them but 0.                                            *)
(***************************************************************************)
LEMMA Induction ==
  ASSUME NEW S \in SUBSET Nat, 0 \in S, \A n \in S : n + 1 \in S
  PROVE  S = Nat
<1> SUFFICES ASSUME NEW n \in Nat, n \notin S PROVE FALSE
  OBVIOUS
<1> DEFINE T == S \cap (0 .. n)
           f == [k \in T |-> k + 1]
<1>1. IsFiniteSet(T)
  <2>1. IsFiniteSet(0 .. n) /\ T \in SUBSET (0 .. n)
    BY FS_Interval
  <2> HIDE DEF T
  <2> QED
    BY <2>1, FS_Subset
<1>2. \A k \in T : k \in Nat /\ k + 1 \in T
  OBVIOUS
<1>3. f \in [T -> T]
  BY <1>2
<1>4. \A j, k \in T : f[j] = f[k] => j = k
  BY <1>2
<1>5. f \in Injection(T, T)
  BY <1>3, <1>4 DEF Injection, IsInjective
<1>6. f \in Surjection(T, T)
  BY <1>1, <1>5, FS_Injection
<1>7. 0 \in T
  OBVIOUS
<1>8. PICK k \in T : f[k] = 0
  BY <1>6, <1>7 DEF Surjection
<1> QED
  BY <1>2, <1>8

LEMMA LeastElement ==
  ASSUME NEW S \in SUBSET Nat, S # {}
  PROVE  \E m \in S : \A y \in S : m <= y
<1> SUFFICES ASSUME \A m \in S : \E y \in S : ~(m <= y) PROVE FALSE
  OBVIOUS
<1> DEFINE P == {n \in Nat : \A y \in S : n <= y}
<1>1. 0 \in P
  OBVIOUS
<1>2. ASSUME NEW n \in P PROVE n + 1 \in P
  <2>1. n \in Nat /\ n \notin S
    BY <1>2
  <2>2. \A y \in S : n <= y /\ y # n /\ y \in Nat
    BY <1>2, <2>1
  <2> QED
    BY <2>1, <2>2
<1>3. P = Nat
  <2> HIDE DEF P
  <2>1. P \in SUBSET Nat
    BY DEF P
  <2> QED
    BY <1>1, <1>2, <2>1, Induction
<1>4. PICK y \in S : TRUE
  OBVIOUS
<1>5. y + 1 \in P /\ y \in Nat
  BY <1>3
<1>6. y + 1 <= y
  BY <1>5
<1> QED
  BY <1>5, <1>6

LEMMA SubsetInduction ==
  ASSUME NEW D, IsFiniteSet(D), NEW F,
         \A s \in SUBSET D : (\A x \in s : s \ {x} \in F) => s \in F
  PROVE  \A s \in SUBSET D : s \in F
<1> DEFINE P == {n \in Nat : \A s \in SUBSET D : Cardinality(s) = n => s \in F}
<1>1. \A s \in SUBSET D : IsFiniteSet(s) /\ Cardinality(s) \in Nat
  BY FS_Subset, FS_CardinalityType
<1>2. 0 \in P
  <2>1. {} \in F
    OBVIOUS
  <2> QED
    BY <1>1, <2>1, FS_EmptySet
<1>3. ASSUME NEW n \in P PROVE n + 1 \in P
  <2> SUFFICES ASSUME NEW s \in SUBSET D, Cardinality(s) = n + 1 PROVE s \in F
    BY <1>3
  <2>1. n \in Nat /\ IsFiniteSet(s)
    BY <1>1, <1>3
  <2>2. ASSUME NEW x \in s PROVE s \ {x} \in F
    <3>1. Cardinality(s \ {x}) = Cardinality(s) - 1
      BY <2>1, FS_RemoveElement
    <3>2. Cardinality(s \ {x}) = n
      BY <2>1, <3>1
    <3> QED
      BY <1>3, <3>2
  <2> QED
    BY <2>2
<1>4. P = Nat
  <2> HIDE DEF P
  <2>1. P \in SUBSET Nat
    BY DEF P
  <2> QED
    BY <1>2, <1>3, <2>1, Induction
<1> QED
  BY <1>1, <1>4

(***************************************************************************)
(* Sums.  The sum of f over S takes the elements of S one by one, Pick(S)  *)
(* first; IsSumTable says so of the table of the sums over subsets of S.   *)
(***************************************************************************)
Pick(S) == CHOOSE x \in S : TRUE

IsSumTable(f, SS, table) ==
  table = [s \in SS |-> IF s = {} THEN 0 ELSE f[Pick(s)] + table[s \ {Pick(s)}]]

LEMMA SumUnfolded ==
  ASSUME NEW f, NEW S
  PROVE  SumFunctionOnSet(f, S) = (CHOOSE table : IsSumTable(f, SUBSET S, table))[S]
BY DEF SumFunctionOnSet, FoldFunctionOnSet, MapThenFoldSet, IsSumTable, Pick

\* A table exists for the subsets of up to n elements, for every n.
LEMMA SumTableExists ==
  ASSUME NEW f, NEW D, IsFiniteSet(D)
  PROVE  \E table : IsSumTable(f, SUBSET D, table)
<1> DEFINE Upto(n) == {s \in SUBSET D : Cardinality(s) <= n}
           P == {n \in Nat : \E table : IsSumTable(f, Upto(n), table)}
<1>1. \A s \in SUBSET D : IsFiniteSet(s) /\ Cardinality(s) \in Nat
  BY FS_Subset, FS_CardinalityType
<1>2. \A s \in SUBSET D : s # {} => /\ s \ {Pick(s)} \in SUBSET D
                                    /\ Cardinality(s \ {Pick(s)}) = Cardinality(s) - 1
  <2> SUFFICES ASSUME NEW s \in SUBSET D, s # {}
               PROVE  Cardinality(s \ {Pick(s)}) = Cardinality(s) - 1
    OBVIOUS
  <2>1. Pick(s) \in s
    BY DEF Pick
  <2> QED
    BY <1>1, <2>1, FS_RemoveElement
<1>3. 0 \in P
  <2>1. Upto(0) = {{}}
    <3>1. \A s \in SUBSET D : Cardinality(s) <= 0 <=> Cardinality(s) = 0
      BY <1>1
    <3> QED
      BY <1>1, <3>1, FS_EmptySet
  <2>2. IsSumTable(f, {{}}, [s \in {{}} |-> 0])
    BY DEF IsSumTable
  <2> QED
    BY <2>1, <2>2
<1>4. ASSUME NEW n \in P PROVE n + 1 \in P
  <2>1. PICK old : IsSumTable(f, Upto(n), old)
    BY <1>4
  <2> DEFINE Sum(table, s) == IF s = {} THEN 0 ELSE f[Pick(s)] + table[s \ {Pick(s)}]
             new == [s \in Upto(n + 1) |-> Sum(old, s)]
  <2>2. n \in Nat /\ old = [s \in Upto(n) |-> Sum(old, s)]
    BY <2>1 DEF IsSumTable
  <2>3. ASSUME NEW s \in Upto(n + 1), s # {}
        PROVE  s \ {Pick(s)} \in Upto(n) /\ s \ {Pick(s)} \in Upto(n + 1)
    <3>1. s \in SUBSET D /\ Cardinality(s) \in Nat /\ Cardinality(s) <= n + 1
      BY <1>1
    <3>2. /\ s \ {Pick(s)} \in SUBSET D
          /\ Cardinality(s \ {Pick(s)}) = Cardinality(s) - 1
      BY <1>2, <2>3, <3>1
    <3> QED
      BY <2>2, <3>1, <3>2
  <2>4. \A t \in Upto(n) : t \in Upto(n + 1) => old[t] = new[t]
    BY <2>2
  <2> HIDE DEF Upto
  <2>5. \A s \in Upto(n + 1) : Sum(old, s) = Sum(new, s)
    BY <2>3, <2>4
  <2>6. new = [s \in Upto(n + 1) |-> Sum(new, s)]
    <3> HIDE DEF Sum
    <3> QED
      BY <2>5
  <2>7. IsSumTable(f, Upto(n + 1), new)
    <3> HIDE DEF new
    <3> QED
      BY <2>6 DEF IsSumTable
  <2> QED
    BY <2>2, <2>7
<1>5. P = Nat
  <2> HIDE DEF P
  <2>1. P \in SUBSET Nat
    BY DEF P
  <2> QED
    BY <1>3, <1>4, <2>1, Induction
<1>6. Cardinality(D) \in Nat /\ Upto(Cardinality(D)) = SUBSET D
  <2>1. \A s \in SUBSET D : Cardinality(s) <= Cardinality(D)
    BY FS_Subset
  <2> QED
    BY <2>1, FS_CardinalityType
<1>7. Cardinality(D) \in P
  BY <1>5, <1>6
<1> HIDE DEF Upto
<1> QED
  BY <1>6, <1>7

LEMMA SumTableUnique ==
  ASSUME NEW f, NEW D, NEW E, NEW t1, NEW t2,
         IsFiniteSet(D), E \in SUBSET D,
         IsSumTable(f, SUBSET D, t1), IsSumTable(f, SUBSET E, t2)
  PROVE  t1[E] = t2[E]
<1> DEFINE F == {s \in SUBSET E : t1[s] = t2[s]}
           Sum(table, s) == IF s = {} THEN 0 ELSE f[Pick(s)] + table[s \ {Pick(s)}]
<1>1. \A s \in SUBSET E : t1[s] = Sum(t1, s) /\ t2[s] = Sum(t2, s)
  <2>1. \A s \in SUBSET E : s \in SUBSET D
    OBVIOUS
  <2> QED
    BY <2>1 DEF IsSumTable
<1>2. ASSUME NEW s \in SUBSET E, \A x \in s : s \ {x} \in F
      PROVE  s \in F
  <2>1. CASE s = {}
    BY <1>1, <2>1
  <2>2. CASE s # {}
    <3>1. Pick(s) \in s
      BY <2>2 DEF Pick
    <3>2. t1[s \ {Pick(s)}] = t2[s \ {Pick(s)}]
      BY <1>2, <3>1
    <3> QED
      BY <1>1, <2>2, <3>2
  <2> QED
    BY <2>1, <2>2
<1>3. IsFiniteSet(E)
  BY FS_Subset
<1> HIDE DEF F
<1>4. \A s \in SUBSET E : s \in F
  BY <1>2, <1>3, SubsetInduction
<1>5. E \in F
  BY <1>4
<1> QED
  BY <1>5 DEF F

(***************************************************************************)
(* What is added to a sum: the element picked first, then any element.     *)
(***************************************************************************)
LEMMA SumIsTable ==
  ASSUME NEW f, NEW D, IsFiniteSet(D), NEW table, IsSumTable(f, SUBSET D, table)
  PROVE  \A S \in SUBSET D : SumFunctionOnSet(f, S) = table[S]
<1> SUFFICES ASSUME NEW S \in SUBSET D PROVE SumFunctionOnSet(f, S) = table[S]
  OBVIOUS
<1> DEFINE own == CHOOSE t : IsSumTable(f, SUBSET S, t)
<1>1. IsFiniteSet(S)
  BY FS_Subset
<1>2. IsSumTable(f, SUBSET S, own)
  BY <1>1, SumTableExists
<1>3. SumFunctionOnSet(f, S) = own[S]
  BY SumUnfolded
<1> HIDE DEF own
<1>4. ASSUME NEW t2, IsSumTable(f, SUBSET S, t2) PROVE table[S] = t2[S]
  BY <1>4, SumTableUnique
<1> QED
  BY <1>2, <1>3, <1>4

LEMMA SumPicked ==
  ASSUME NEW f, NEW S, IsFiniteSet(S)
  PROVE  /\ S = {} => SumFunctionOnSet(f, S) = 0
         /\ S # {} => /\ Pick(S) \in S
                      /\ SumFunctionOnSet(f, S)
                           = f[Pick(S)] + SumFunctionOnSet(f, S \ {Pick(S)})
<1>1. PICK table : IsSumTable(f, SUBSET S, table)
  BY SumTableExists
<1>2. \A s \in SUBSET S : SumFunctionOnSet(f, s) = table[s]
  BY <1>1, SumIsTable
<1>3. table[S] = IF S = {} THEN 0 ELSE f[Pick(S)] + table[S \ {Pick(S)}]
  BY <1>1 DEF IsSumTable
<1>4. S \in SUBSET S /\ S \ {Pick(S)} \in SUBSET S
  OBVIOUS
<1>5. S # {} => Pick(S) \in S
  BY DEF Pick
<1> QED
  BY <1>2, <1>3, <1>4, <1>5

LEMMA SumIsInt ==
  ASSUME NEW f, NEW S, IsFiniteSet(S), \A x \in S : f[x] \in Int
  PROVE  SumFunctionOnSet(f, S) \in Int
<1> DEFINE F == {s \in SUBSET S : SumFunctionOnSet(f, s) \in Int}
<1>1. ASSUME NEW s \in SUBSET S, \A x \in s : s \ {x} \in F
      PROVE  s \in F
  <2>1. IsFiniteSet(s)
    BY FS_Subset
  <2>2. CASE s = {}
    <3>1. SumFunctionOnSet(f, s) = 0
      BY <2>1, <2>2, SumPicked
    <3> QED
      BY <3>1
  <2>3. CASE s # {}
    <3>1. /\ Pick(s) \in s
          /\ SumFunctionOnSet(f, s) = f[Pick(s)] + SumFunctionOnSet(f, s \ {Pick(s)})
      BY <2>1, <2>3, SumPicked
    <3>2. f[Pick(s)] \in Int /\ SumFunctionOnSet(f, s \ {Pick(s)}) \in Int
      BY <1>1, <3>1
    <3> QED
      BY <3>1, <3>2
  <2> QED
    BY <2>2, <2>3
<1> HIDE DEF F
<1>2. \A s \in SUBSET S : s \in F
  BY <1>1, SubsetInduction
<1>3. S \in F
  BY <1>2
<1> QED
  BY <1>3 DEF F

LEMMA SumRemove ==
  ASSUME NEW f, NEW S, IsFiniteSet(S), \A x \in S : f[x] \in Int
  PROVE  \A x \in S : SumFunctionOnSet(f, S) = f[x] + SumFunctionOnSet(f, S \ {x})
<1> DEFINE Sum(s) == SumFunctionOnSet(f, s)
           F == {s \in SUBSET S : \A x \in s : Sum(s) = f[x] + Sum(s \ {x})}
<1>1. \A s \in SUBSET S : IsFiniteSet(s) /\ Sum(s) \in Int
  <2>1. \A s \in SUBSET S : IsFiniteSet(s)
    BY FS_Subset
  <2> QED
    BY <2>1, SumIsInt
<1>2. ASSUME NEW s \in SUBSET S, \A x \in s : s \ {x} \in F
      PROVE  s \in F
  <2> SUFFICES ASSUME NEW x \in s PROVE Sum(s) = f[x] + Sum(s \ {x})
    OBVIOUS
  <2> DEFINE p == Pick(s)
  <2>1. p \in s /\ Sum(s) = f[p] + Sum(s \ {p})
    BY <1>1, SumPicked
  <2> HIDE DEF p, Sum
  <2>2. CASE x = p
    BY <2>1, <2>2
  <2>3. CASE x # p
    <3>1. /\ x \in s \ {p} /\ p \in s \ {x}
          /\ s \ {p} \in F /\ s \ {x} \in F
      BY <1>2, <2>1, <2>3
    <3>2. /\ Sum(s \ {p}) = f[x] + Sum((s \ {p}) \ {x})
          /\ Sum(s \ {x}) = f[p] + Sum((s \ {x}) \ {p})
      BY <3>1
    <3>3. (s \ {p}) \ {x} = (s \ {x}) \ {p}
      OBVIOUS
    <3>4. Sum((s \ {p}) \ {x}) \in Int /\ f[x] \in Int /\ f[p] \in Int
      BY <1>1, <2>1
    <3>5. Sum(s) = f[p] + (f[x] + Sum((s \ {p}) \ {x}))
      BY <2>1, <3>2
    <3>6. f[x] + Sum(s \ {x}) = f[x] + (f[p] + Sum((s \ {p}) \ {x}))
      BY <3>2, <3>3
    <3> QED
      BY <3>4, <3>5, <3>6
  <2> QED
    BY <2>2, <2>3
<1> HIDE DEF F
<1>3. \A s \in SUBSET S : s \in F
  BY <1>2, SubsetInduction
<1>4. S \in F
  BY <1>3
<1> QED
  BY <1>4 DEF F

(***************************************************************************)
(* Sums compared: functions that agree, summands that are 0, naturals, a   *)
(* common factor, and a sum taken class by class.                          *)
(***************************************************************************)
LEMMA SumOfNone == ASSUME NEW f PROVE SumFunctionOnSet(f, {}) = 0
BY SumPicked, FS_EmptySet

LEMMA SumSame ==
  ASSUME NEW f, NEW g, NEW S, IsFiniteSet(S), \A x \in S : f[x] = g[x]
  PROVE  SumFunctionOnSet(f, S) = SumFunctionOnSet(g, S)
<1> DEFINE F == {s \in SUBSET S : SumFunctionOnSet(f, s) = SumFunctionOnSet(g, s)}
<1>1. ASSUME NEW s \in SUBSET S, \A x \in s : s \ {x} \in F
      PROVE  s \in F
  <2>1. IsFiniteSet(s)
    BY FS_Subset
  <2>2. CASE s = {}
    BY <2>2, SumOfNone
  <2>3. CASE s # {}
    <3>1. Pick(s) \in s
      BY <2>1, <2>3, SumPicked
    <3>2. SumFunctionOnSet(f, s) = f[Pick(s)] + SumFunctionOnSet(f, s \ {Pick(s)})
      BY <2>1, <2>3, SumPicked
    <3>3. SumFunctionOnSet(g, s) = g[Pick(s)] + SumFunctionOnSet(g, s \ {Pick(s)})
      BY <2>1, <2>3, SumPicked
    <3>4. SumFunctionOnSet(f, s \ {Pick(s)}) = SumFunctionOnSet(g, s \ {Pick(s)})
      BY <1>1, <3>1
    <3> QED
      BY <3>1, <3>2, <3>3, <3>4
  <2> QED
    BY <2>2, <2>3
<1> HIDE DEF F
<1>2. \A s \in SUBSET S : s \in F
  BY <1>1, SubsetInduction
<1>3. S \in F
  BY <1>2
<1> QED
  BY <1>3 DEF F

LEMMA SumOfZeros ==
  ASSUME NEW f, NEW S, IsFiniteSet(S), \A x \in S : f[x] = 0
  PROVE  SumFunctionOnSet(f, S) = 0
<1> DEFINE F == {s \in SUBSET S : SumFunctionOnSet(f, s) = 0}
<1>1. ASSUME NEW s \in SUBSET S, \A x \in s : s \ {x} \in F
      PROVE  s \in F
  <2>1. IsFiniteSet(s)
    BY FS_Subset
  <2>2. CASE s = {}
    BY <2>2, SumOfNone
  <2>3. CASE s # {}
    <3>1. /\ Pick(s) \in s
          /\ SumFunctionOnSet(f, s) = f[Pick(s)] + SumFunctionOnSet(f, s \ {Pick(s)})
      BY <2>1, <2>3, SumPicked
    <3>2. f[Pick(s)] = 0 /\ SumFunctionOnSet(f, s \ {Pick(s)}) = 0
      BY <1>1, <3>1
    <3> QED
      BY <3>1, <3>2
  <2> QED
    BY <2>2, <2>3
<1> HIDE DEF F
<1>2. \A s \in SUBSET S : s \in F
  BY <1>1, SubsetInduction
<1>3. S \in F
  BY <1>2
<1> QED
  BY <1>3 DEF F

LEMMA SumIsNat ==
  ASSUME NEW f, NEW S, IsFiniteSet(S), \A x \in S : f[x] \in Nat
  PROVE  SumFunctionOnSet(f, S) \in Nat
<1> DEFINE F == {s \in SUBSET S : SumFunctionOnSet(f, s) \in Nat}
<1>1. ASSUME NEW s \in SUBSET S, \A x \in s : s \ {x} \in F
      PROVE  s \in F
  <2>1. IsFiniteSet(s)
    BY FS_Subset
  <2>2. CASE s = {}
    <3>1. SumFunctionOnSet(f, s) = 0
      BY <2>2, SumOfNone
    <3> QED
      BY <3>1
  <2>3. CASE s # {}
    <3>1. /\ Pick(s) \in s
          /\ SumFunctionOnSet(f, s) = f[Pick(s)] + SumFunctionOnSet(f, s \ {Pick(s)})
      BY <2>1, <2>3, SumPicked
    <3>2. f[Pick(s)] \in Nat /\ SumFunctionOnSet(f, s \ {Pick(s)}) \in Nat
      BY <1>1, <3>1
    <3> QED
      BY <3>1, <3>2
  <2> QED
    BY <2>2, <2>3
<1> HIDE DEF F
<1>2. \A s \in SUBSET S : s \in F
  BY <1>1, SubsetInduction
<1>3. S \in F
  BY <1>2
<1> QED
  BY <1>3 DEF F

LEMMA SumScaled ==
  ASSUME NEW f, NEW g, NEW S, NEW c \in Int,
         IsFiniteSet(S), \A x \in S : f[x] \in Int /\ g[x] = f[x] * c
  PROVE  SumFunctionOnSet(g, S) = SumFunctionOnSet(f, S) * c
<1> DEFINE F == {s \in SUBSET S : SumFunctionOnSet(g, s) = SumFunctionOnSet(f, s) * c}
<1>1. ASSUME NEW s \in SUBSET S, \A x \in s : s \ {x} \in F
      PROVE  s \in F
  <2>1. IsFiniteSet(s)
    BY FS_Subset
  <2>2. CASE s = {}
    <3>1. SumFunctionOnSet(f, s) = 0 /\ SumFunctionOnSet(g, s) = 0
      BY <2>2, SumOfNone
    <3>2. 0 * c = 0
      OBVIOUS
    <3> QED
      BY <3>1, <3>2
  <2>3. CASE s # {}
    <3> DEFINE rest == s \ {Pick(s)}
               a == SumFunctionOnSet(f, rest)
    <3>1. Pick(s) \in s /\ SumFunctionOnSet(f, s) = f[Pick(s)] + a
      BY <2>1, <2>3, SumPicked
    <3>2. SumFunctionOnSet(g, s) = g[Pick(s)] + SumFunctionOnSet(g, rest)
      BY <2>1, <2>3, SumPicked
    <3>3. SumFunctionOnSet(g, rest) = a * c
      BY <1>1, <3>1
    <3>4. IsFiniteSet(rest) /\ \A x \in rest : f[x] \in Int
      BY <2>1, FS_Subset
    <3>5. a \in Int
      BY <3>4, SumIsInt
    <3>6. f[Pick(s)] \in Int /\ g[Pick(s)] = f[Pick(s)] * c
      BY <3>1
    <3> HIDE DEF a, rest
    <3>7. f[Pick(s)] * c + a * c = (f[Pick(s)] + a) * c
      BY <3>5, <3>6
    <3>8. SumFunctionOnSet(g, s) = SumFunctionOnSet(f, s) * c
      BY <3>1, <3>2, <3>3, <3>6, <3>7
    <3> QED
      BY <3>8
  <2> QED
    BY <2>2, <2>3
<1> HIDE DEF F
<1>2. \A s \in SUBSET S : s \in F
  BY <1>1, SubsetInduction
<1>3. S \in F
  BY <1>2
<1> QED
  BY <1>3 DEF F

\* p sorts the elements of K into the classes J.
LEMMA SumByClass ==
  ASSUME NEW K, NEW J, NEW p \in [K -> J], NEW f,
         IsFiniteSet(K), IsFiniteSet(J), \A k \in K : f[k] \in Int
  PROVE  SumFunctionOnSet([j \in J |-> SumFunctionOnSet(f, {k \in K : p[k] = j})], J)
           = SumFunctionOnSet(f, K)
<1> DEFINE Fibre(s, j) == {k \in s : p[k] = j}
           Part(s) == [j \in J |-> SumFunctionOnSet(f, Fibre(s, j))]
           F == {s \in SUBSET K : SumFunctionOnSet(Part(s), J) = SumFunctionOnSet(f, s)}
<1>1. ASSUME NEW s \in SUBSET K, NEW j \in J
      PROVE  Part(s)[j] \in Int /\ IsFiniteSet(Fibre(s, j))
  <2>1. IsFiniteSet(Fibre(s, j)) /\ \A k \in Fibre(s, j) : f[k] \in Int
    BY FS_Subset
  <2>2. SumFunctionOnSet(f, Fibre(s, j)) \in Int
    BY <2>1, SumIsInt
  <2> QED
    BY <2>1, <2>2
<1>2. ASSUME NEW s \in SUBSET K, \A x \in s : s \ {x} \in F
      PROVE  s \in F
  <2>1. IsFiniteSet(s)
    BY FS_Subset
  <2>2. CASE s = {}
    <3>1. \A j \in J : Fibre(s, j) = {}
      BY <2>2
    <3>2. \A j \in J : Part(s)[j] = 0
      BY <3>1, SumOfNone
    <3> HIDE DEF Part
    <3>3. SumFunctionOnSet(Part(s), J) = 0
      BY <3>2, SumOfZeros
    <3>4. SumFunctionOnSet(f, s) = 0
      BY <2>2, SumOfNone
    <3> QED
      BY <3>3, <3>4
  <2>3. CASE s # {}
    <3> DEFINE x == Pick(s)
               t == s \ {x}
               j == p[x]
    <3>1. x \in s /\ SumFunctionOnSet(f, s) = f[x] + SumFunctionOnSet(f, t)
      BY <2>1, <2>3, SumPicked
    <3> HIDE DEF x
    <3>2. x \in K /\ j \in J /\ t \in SUBSET K /\ t \in F /\ f[x] \in Int
      BY <1>2, <3>1
    <3>3. \A i \in J \ {j} : Part(s)[i] = Part(t)[i]
      <4>1. \A i \in J \ {j} : Fibre(s, i) = Fibre(t, i)
        OBVIOUS
      <4> HIDE DEF Fibre, t, j
      <4> QED
        BY <4>1
    <3>4. Part(s)[j] = f[x] + Part(t)[j]
      <4>1. x \in Fibre(s, j) /\ Fibre(s, j) \ {x} = Fibre(t, j)
        BY <3>1
      <4>2. IsFiniteSet(Fibre(s, j)) /\ \A k \in Fibre(s, j) : f[k] \in Int
        BY <1>1, <3>2
      <4> HIDE DEF Fibre, t, j
      <4>3. SumFunctionOnSet(f, Fibre(s, j)) = f[x] + SumFunctionOnSet(f, Fibre(t, j))
        BY <4>1, <4>2, SumRemove
      <4> QED
        BY <3>2, <4>3
    <3> HIDE DEF Part, t, j
    <3>5. \A i \in J : Part(s)[i] \in Int /\ Part(t)[i] \in Int
      BY <1>1, <3>2
    <3>6. SumFunctionOnSet(Part(s), J)
            = Part(s)[j] + SumFunctionOnSet(Part(s), J \ {j})
      BY <3>2, <3>5, SumRemove
    <3>7. SumFunctionOnSet(Part(t), J)
            = Part(t)[j] + SumFunctionOnSet(Part(t), J \ {j})
      BY <3>2, <3>5, SumRemove
    <3>8. IsFiniteSet(J \ {j})
      BY FS_Subset
    <3>9. SumFunctionOnSet(Part(s), J \ {j}) = SumFunctionOnSet(Part(t), J \ {j})
      BY <3>3, <3>8, SumSame
    <3>10. SumFunctionOnSet(Part(t), J \ {j}) \in Int
      BY <3>5, <3>8, SumIsInt
    <3>11. SumFunctionOnSet(Part(t), J) = SumFunctionOnSet(f, t)
      BY <3>2 DEF Part
    <3>12. SumFunctionOnSet(Part(s), J) = f[x] + SumFunctionOnSet(Part(t), J)
      BY <3>2, <3>4, <3>5, <3>6, <3>7, <3>9, <3>10
    <3>13. SumFunctionOnSet(Part(s), J) = SumFunctionOnSet(f, s)
      BY <3>1, <3>11, <3>12
    <3> QED
      BY <3>13 DEF Part
  <2> QED
    BY <2>2, <2>3
<1> HIDE DEF F
<1>3. \A s \in SUBSET K : s \in F
  BY <1>2, SubsetInduction
<1>4. K \in F
  BY <1>3
<1> QED
  BY <1>4 DEF F

(***************************************************************************)
(* Enumerations: each element of L is listed at its rank in L.             *)
(***************************************************************************)
LEMMA KeptRank ==
  ASSUME NEW N \in Nat, NEW L \in SUBSET (1 .. N), NEW kept \in Enumerations(L, N)
  PROVE  \E m \in 0 .. N :
           /\ kept \in [1 .. m -> L]
           /\ \A i \in L : \E n \in 1 .. m :
                kept[n] = i /\ Cardinality({j \in L : j <= i}) = n
<1>1. PICK m \in 0 .. N : /\ kept \in [1 .. m -> L]
                          /\ Range(kept) = L
                          /\ \A p, q \in 1 .. m : p < q => kept[p] < kept[q]
  BY DEF Enumerations, IsEnumeration
<1>2. ASSUME NEW i \in L
      PROVE  \E n \in 1 .. m : kept[n] = i /\ Cardinality({j \in L : j <= i}) = n
  <2>1. PICK n \in 1 .. m : kept[n] = i
    BY <1>1 DEF Range
  <2> DEFINE B == {j \in L : j <= i}
             g == [p \in 1 .. n |-> kept[p]]
  <2>2. n \in Nat /\ m \in Nat /\ \A p \in 1 .. m : kept[p] \in L /\ kept[p] \in Nat
    <3>1. \A p \in 1 .. m : kept[p] \in L
      BY <1>1
    <3>2. \A j \in L : j \in Nat
      OBVIOUS
    <3>3. m \in Nat
      OBVIOUS
    <3>4. n \in Nat
      BY <3>3
    <3> QED
      BY <3>1, <3>2, <3>3, <3>4
  <2>3. \A p, q \in 1 .. m : kept[p] <= kept[q] => p <= q
    BY <1>1, <2>2
  <2>4. \A p \in 1 .. n : p \in 1 .. m /\ kept[p] <= i
    BY <1>1, <2>1, <2>2
  <2>5. g \in [1 .. n -> B]
    BY <2>2, <2>4
  <2>6. \A p, q \in 1 .. n : g[p] = g[q] => p = q
    BY <2>2, <2>3, <2>4
  <2>7. ASSUME NEW j \in B PROVE \E p \in 1 .. n : g[p] = j
    <3>1. PICK p \in 1 .. m : kept[p] = j
      BY <1>1 DEF Range
    <3>2. p \in 1 .. n
      BY <2>1, <2>2, <2>3, <3>1
    <3> QED
      BY <3>1, <3>2
  <2>8. ExistsBijection(1 .. n, B)
    <3> HIDE DEF g, B
    <3>1. g \in Bijection(1 .. n, B)
      BY <2>5, <2>6, <2>7 DEF Bijection, Injection, Surjection, IsInjective
    <3> QED
      BY <3>1 DEF ExistsBijection
  <2>9. Cardinality(B) = n
    BY <2>2, <2>8, FS_CountingElements
  <2> QED
    BY <2>1, <2>9
<1> QED
  BY <1>1, <1>2

(***************************************************************************)
(* There is exactly one list, so where the model picks an enumeration it   *)
(* neither blocks nor branches.                                            *)
(***************************************************************************)
LEMMA EnumerationExists ==
  ASSUME NEW N \in Nat, NEW L \in SUBSET (1 .. N)
  PROVE  Enumerations(L, N) # {}
<1> DEFINE P == {n \in Nat : \A S \in SUBSET (1 .. n) : Enumerations(S, n) # {}}
<1>1. 0 \in P
  <2>1. \A S \in SUBSET (1 .. 0) : S = {}
    OBVIOUS
  <2> DEFINE e == [i \in 1 .. 0 |-> 0]
  <2>2. e \in Enumerations({}, 0)
    <3>1. e \in [1 .. 0 -> {}] /\ 0 \in 0 .. 0 /\ DOMAIN e = {}
      OBVIOUS
    <3>2. Range(e) = {}
      BY <3>1 DEF Range
    <3> HIDE DEF e
    <3> QED
      BY <3>1, <3>2 DEF Enumerations, IsEnumeration
  <2> QED
    BY <2>1, <2>2
<1>2. ASSUME NEW n \in P PROVE n + 1 \in P
  <2> SUFFICES ASSUME NEW S \in SUBSET (1 .. n + 1) PROVE Enumerations(S, n + 1) # {}
    BY <1>2
  <2> DEFINE T == S \ {n + 1}
  <2>1. n \in Nat /\ T \in SUBSET (1 .. n)
    BY <1>2
  <2>2. PICK old : old \in Enumerations(T, n)
    BY <1>2, <2>1
  <2>3. PICK m \in 0 .. n : /\ old \in [1 .. m -> T]
                            /\ Range(old) = T
                            /\ \A p, q \in 1 .. m : p < q => old[p] < old[q]
    BY <2>2 DEF Enumerations, IsEnumeration
  <2>4. CASE n + 1 \notin S
    <3>1. T = S /\ m \in 0 .. n + 1
      BY <2>1, <2>3, <2>4
    <3> HIDE DEF T
    <3>2. old \in Enumerations(S, n + 1)
      BY <2>3, <3>1 DEF Enumerations, IsEnumeration
    <3> QED
      BY <3>2
  <2>5. CASE n + 1 \in S
    <3> DEFINE e == [i \in 1 .. m + 1 |-> IF i = m + 1 THEN n + 1 ELSE old[i]]
    <3>1. m \in Nat /\ m + 1 \in 0 .. n + 1 /\ m + 1 \in 1 .. m + 1
      BY <2>1
    <3>2. \A i \in 1 .. m : /\ i \in 1 .. m + 1 /\ i # m + 1 /\ e[i] = old[i]
                            /\ old[i] \in T
      BY <2>3, <3>1
    <3>3. \A i \in 1 .. m + 1 : i = m + 1 \/ i \in 1 .. m
      BY <3>1
    <3>4. e[m + 1] = n + 1
      BY <3>1
    <3>5. DOMAIN e = 1 .. m + 1
      OBVIOUS
    <3> HIDE DEF e
    <3>6. e \in [1 .. m + 1 -> S]
      <4>1. \A i \in 1 .. m + 1 : e[i] \in S
        BY <2>5, <3>2, <3>3, <3>4
      <4>2. e = [i \in 1 .. m + 1 |-> e[i]]
        BY <3>5 DEF e
      <4> QED
        BY <4>1, <4>2
    <3>7. \A p, q \in 1 .. m + 1 : p < q => e[p] < e[q]
      <4> SUFFICES ASSUME NEW p \in 1 .. m + 1, NEW q \in 1 .. m + 1, p < q
                   PROVE  e[p] < e[q]
        OBVIOUS
      <4>1. p \in 1 .. m
        BY <3>1
      <4>2. CASE q = m + 1
        <5>1. e[p] \in 1 .. n /\ e[q] = n + 1
          BY <2>1, <3>2, <3>4, <4>1, <4>2
        <5> QED
          BY <2>1, <5>1
      <4>3. CASE q \in 1 .. m
        BY <2>3, <3>2, <4>1, <4>3
      <4> QED
        BY <3>3, <4>2, <4>3
    <3>8. Range(e) = S
      <4>1. \A x \in S : \E i \in 1 .. m + 1 : e[i] = x
        <5> SUFFICES ASSUME NEW x \in S PROVE \E i \in 1 .. m + 1 : e[i] = x
          OBVIOUS
        <5>1. CASE x = n + 1
          BY <3>1, <3>4, <5>1
        <5>2. CASE x # n + 1
          <6>1. PICK i \in 1 .. m : old[i] = x
            BY <2>3, <5>2 DEF Range
          <6> QED
            BY <3>2, <6>1
        <5> QED
          BY <5>1, <5>2
      <4> QED
        BY <3>5, <3>6, <4>1 DEF Range
    <3>9. e \in Enumerations(S, n + 1)
      BY <3>1, <3>5, <3>6, <3>7, <3>8 DEF Enumerations, IsEnumeration
    <3> QED
      BY <3>9
  <2> QED
    BY <2>4, <2>5
<1>3. P = Nat
  <2> HIDE DEF P
  <2>1. P \in SUBSET Nat
    BY DEF P
  <2> QED
    BY <1>1, <1>2, <2>1, Induction
<1> QED
  BY <1>3

LEMMA RankInjective ==
  ASSUME NEW N \in Nat, NEW L \in SUBSET (1 .. N)
  PROVE  \A a, b \in L :
           Cardinality({j \in L : j <= a}) = Cardinality({j \in L : j <= b}) => a = b
<1>1. ASSUME NEW x \in L, NEW y \in L, x < y
      PROVE  Cardinality({j \in L : j <= x}) # Cardinality({j \in L : j <= y})
  <2> DEFINE A == {j \in L : j <= x}
             B == {j \in L : j <= y}
  <2>1. IsFiniteSet(B)
    <3>1. IsFiniteSet(1 .. N)
      BY FS_Interval
    <3>2. B \in SUBSET (1 .. N)
      OBVIOUS
    <3> QED
      BY <3>1, <3>2, FS_Subset
  <2>2. A \subseteq B /\ y \in B /\ y \notin A
    <3>1. \A j \in L : j \in Int
      OBVIOUS
    <3>2. \A j \in L : j <= x => j <= y
      BY <1>1, <3>1
    <3>3. y <= y /\ ~(y <= x)
      BY <1>1, <3>1
    <3> QED
      BY <3>2, <3>3
  <2> HIDE DEF A, B
  <2>3. A # B
    BY <2>2
  <2>4. Cardinality(A) # Cardinality(B)
    BY <2>1, <2>2, <2>3, FS_Subset
  <2> QED
    BY <2>4 DEF A, B
<1>2. \A a, b \in L : a < b \/ b < a \/ a = b
  <2>1. \A j \in L : j \in Int
    OBVIOUS
  <2> QED
    BY <2>1
<1> QED
  BY <1>1, <1>2

LEMMA EnumeratedAtRank ==
  ASSUME NEW N \in Nat, NEW L \in SUBSET (1 .. N), NEW kept \in Enumerations(L, N)
  PROVE  \E m \in 0 .. N :
           /\ kept \in [1 .. m -> L]
           /\ \A n \in 1 .. m : kept[n] \in L /\ Cardinality({j \in L : j <= kept[n]}) = n
           /\ \A i \in L : Cardinality({j \in L : j <= i}) \in 1 .. m
<1>1. PICK m \in 0 .. N :
        /\ kept \in [1 .. m -> L]
        /\ \A i \in L : \E n \in 1 .. m :
             kept[n] = i /\ Cardinality({j \in L : j <= i}) = n
  <2>1. N \in Nat /\ L \in SUBSET (1 .. N) /\ kept \in Enumerations(L, N)
    OBVIOUS
  <2> QED
    BY <2>1, KeptRank
<1>2. \A p, q \in 1 .. m : p < q => kept[p] < kept[q]
  BY <1>1 DEF Enumerations, IsEnumeration
<1>3. \A p, q \in 1 .. m : kept[p] = kept[q] => p = q
  <2>1. \A j \in L : j \in Int
    OBVIOUS
  <2>2. \A p \in 1 .. m : p \in Int /\ kept[p] \in Int
    <3>1. \A p \in 1 .. m : kept[p] \in L
      BY <1>1
    <3>2. \A p \in 1 .. m : kept[p] \in Int
      BY ONLY <2>1, <3>1
    <3>3. \A p \in 1 .. m : p \in Int
      OBVIOUS
    <3> QED
      BY <3>2, <3>3
  <2> QED
    BY <1>2, <2>2
<1>4. ASSUME NEW n \in 1 .. m
      PROVE  kept[n] \in L /\ Cardinality({j \in L : j <= kept[n]}) = n
  <2>1. kept[n] \in L
    BY <1>1
  <2> QED
    BY <1>1, <1>3, <2>1
<1>5. \A i \in L : Cardinality({j \in L : j <= i}) \in 1 .. m
  BY <1>1
<1> QED
  BY <1>1, <1>4, <1>5

LEMMA EnumerationUnique ==
  ASSUME NEW N \in Nat, NEW L \in SUBSET (1 .. N),
         NEW e \in Enumerations(L, N), NEW f \in Enumerations(L, N)
  PROVE  e = f
<1>1. PICK m \in 0 .. N :
        /\ e \in [1 .. m -> L]
        /\ \A n \in 1 .. m : e[n] \in L /\ Cardinality({j \in L : j <= e[n]}) = n
        /\ \A i \in L : Cardinality({j \in L : j <= i}) \in 1 .. m
  BY EnumeratedAtRank
<1>2. PICK k \in 0 .. N :
        /\ f \in [1 .. k -> L]
        /\ \A n \in 1 .. k : f[n] \in L /\ Cardinality({j \in L : j <= f[n]}) = n
        /\ \A i \in L : Cardinality({j \in L : j <= i}) \in 1 .. k
  <2>1. f \in Enumerations(L, N)
    OBVIOUS
  <2> HIDE DEF Enumerations
  <2> QED
    BY <2>1, EnumeratedAtRank
<1>3. \A n \in 1 .. m : n \in 1 .. k
  BY <1>1, <1>2
<1>4. \A n \in 1 .. k : n \in 1 .. m
  BY <1>1, <1>2
<1>5. \A n \in 1 .. m : e[n] = f[n]
  <2> SUFFICES ASSUME NEW n \in 1 .. m PROVE e[n] = f[n]
    OBVIOUS
  <2>1. e[n] \in L /\ f[n] \in L
    BY <1>1, <1>2, <1>3
  <2>2. /\ Cardinality({j \in L : j <= e[n]}) = n
        /\ Cardinality({j \in L : j <= f[n]}) = n
    BY <1>1, <1>2, <1>3
  <2>3. \A a, b \in L :
          Cardinality({j \in L : j <= a}) = Cardinality({j \in L : j <= b}) => a = b
    BY RankInjective
  <2> QED
    BY <2>1, <2>2, <2>3
<1>6. 1 .. m = 1 .. k
  BY <1>3, <1>4
<1> QED
  BY <1>1, <1>2, <1>5, <1>6

LEMMA EnumerationDetermined ==
  ASSUME NEW N \in Nat, NEW L \in SUBSET (1 .. N)
  PROVE  \E e : Enumerations(L, N) = {e}
<1>1. PICK e : e \in Enumerations(L, N)
  BY EnumerationExists
<1>2. ASSUME NEW f \in Enumerations(L, N) PROVE f = e
  BY <1>1, EnumerationUnique
<1> HIDE DEF Enumerations
<1> QED
  BY <1>1, <1>2
=============================================================================
