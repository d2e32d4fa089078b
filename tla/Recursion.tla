----------------------------- MODULE Recursion ------------------------------
(***************************************************************************)
(* Facts that stand for induction in the proofs: a set of natural numbers  *)
(* has a least member, and a function defined by recursion on the natural  *)
(* numbers exists.  On them rest the facts about sums over finite sets,    *)
(* and about the order of a finite set.                                    *)
(***************************************************************************)
EXTENDS Integers, Functions, FiniteSetTheorems, TLAPS

Less == {pair \in Nat \X Nat : pair[1] < pair[2]}

(* A nonempty set of natural numbers has a least member. *)
LEMMA LeastNat ==
    ASSUME NEW T, T \subseteq Nat, T # {}
    PROVE  \E m \in T : \A k \in T : m <= k
<1>1. IsWellFoundedOn(Less, Nat)
  BY NatLessThanWellFounded, Zenon DEF OpToRel, Less
<1>2. \E m \in T : \A k \in T : ~(<<k, m>> \in Less)
  BY <1>1, WFMin
<1>3. PICK m \in T : \A k \in T : ~(<<k, m>> \in Less)
  BY <1>2
<1>4. ASSUME NEW k \in T PROVE m <= k
  <2>1. k \in Nat /\ m \in Nat
    OBVIOUS
  <2>2. ~(k < m)
    BY <1>3, <2>1 DEF Less
  <2> QED
    BY <2>1, <2>2
<1> QED
  BY <1>4

(* F is a step on S that may look at the number of the step. *)
IsStep(F, S, n) == F \in [S \X (1 .. n) -> S]

(* g holds what n steps of F make of base. *)
Iterates(g, F, S, n, base) ==
    /\ g \in [0 .. n -> S]
    /\ g[0] = base
    /\ \A i \in 1 .. n : g[i] = F[<<g[i - 1], i>>]

(* A step on S can be iterated n times from any base in S. *)
LEMMA RecursionExists ==
    ASSUME NEW S, NEW n \in Nat, NEW base \in S, NEW F, IsStep(F, S, n)
    PROVE  \E g : Iterates(g, F, S, n, base)
<1> USE DEF IsStep
<1> DEFINE Sol(g, k) == /\ g \in [0 .. k -> S]
                        /\ g[0] = base
                        /\ \A i \in 1 .. k : g[i] = F[<<g[i - 1], i>>]
           Bad == {k \in 0 .. n : ~\E g : Sol(g, k)}
<1>1. Bad = {}
  <2> SUFFICES ASSUME Bad # {} PROVE FALSE
    OBVIOUS
  <2>1. Bad \subseteq Nat
    OBVIOUS
  <2>2. PICK k \in Bad : \A j \in Bad : k <= j
    BY <2>1, LeastNat
  <2>3. k \in 0 .. n /\ ~\E g : Sol(g, k)
    BY <2>2
  <2>4. CASE k = 0
    <3>1. Sol([i \in 0 .. 0 |-> base], 0)
      OBVIOUS
    <3> QED
      BY <2>3, <2>4, <3>1
  <2>5. CASE k # 0
    <3>1. k - 1 \in 0 .. n
      BY <2>3, <2>5
    <3>2. ~(k <= k - 1)
      BY <2>3
    <3>3. k - 1 \notin Bad
      BY <2>2, <3>2
    <3>4. PICK g : Sol(g, k - 1)
      BY <3>1, <3>3
    <3> DEFINE h == [i \in 0 .. k |-> IF i = k THEN F[<<g[k - 1], k>>] ELSE g[i]]
    <3>5. g[k - 1] \in S /\ k \in 1 .. n
      BY <2>3, <2>5, <3>1, <3>4
    <3>6. F[<<g[k - 1], k>>] \in S
      BY <3>5
    <3>7. h \in [0 .. k -> S]
      BY <2>3, <2>5, <3>4, <3>6
    <3>8. h[0] = base
      BY <2>3, <2>5, <3>1, <3>4
    <3>9. ASSUME NEW i \in 1 .. k PROVE h[i] = F[<<h[i - 1], i>>]
      <4>1. i \in 1 .. k /\ k \in Nat /\ i - 1 \in 0 .. k /\ i - 1 # k
        BY <2>3
      <4>2. h[i - 1] = g[i - 1]
        BY <4>1
      <4>3. CASE i = k
        BY <4>1, <4>2, <4>3
      <4>4. CASE i # k
        <5>1. i \in 1 .. k - 1 /\ i \in 0 .. k
          BY <4>1, <4>4
        <5>2. h[i] = g[i]
          BY <4>4, <5>1
        <5> QED
          BY <3>4, <4>2, <5>1, <5>2
      <4> QED
        BY <4>3, <4>4
    <3>10. Sol(h, k)
      BY <3>7, <3>8, <3>9
    <3> QED
      BY <2>3, <3>10
  <2> QED
    BY <2>4, <2>5
<1> QED
  BY <1>1 DEF Iterates

-----------------------------------------------------------------------------
(* Among the subsets of a finite set that are in T one has no proper       *)
(* subset in T.                                                            *)
LEMMA MinimalSet ==
    ASSUME NEW A, IsFiniteSet(A), NEW T, T \subseteq SUBSET A, T # {}
    PROVE  \E s \in T : \A t \in SUBSET s : t # s => t \notin T
<1> DEFINE sizes == {Cardinality(s) : s \in T}
<1>1. \A s \in SUBSET A : IsFiniteSet(s) /\ Cardinality(s) \in Nat
  BY FS_Subset, FS_CardinalityType
<1>2. sizes \subseteq Nat /\ sizes # {}
  BY <1>1
<1> HIDE DEF sizes
<1>3. PICK m \in sizes : \A k \in sizes : m <= k
  BY <1>2, LeastNat
<1> USE DEF sizes
<1>4. PICK s \in T : m = Cardinality(s)
  BY <1>3
<1>5. ASSUME NEW t \in SUBSET s, t # s, t \in T PROVE FALSE
  <2>1. s \in SUBSET A /\ IsFiniteSet(s) /\ Cardinality(s) \in Nat
    BY <1>1, <1>4
  <2>2. Cardinality(t) <= Cardinality(s) /\ Cardinality(t) # Cardinality(s)
    BY <1>5, <2>1, FS_Subset
  <2>3. Cardinality(s) <= Cardinality(t)
    BY <1>3, <1>4, <1>5
  <2>4. Cardinality(t) \in Nat
    BY <1>1, <1>5
  <2> QED
    BY <2>1, <2>2, <2>3, <2>4
<1> QED
  BY <1>4, <1>5

-----------------------------------------------------------------------------
(* Sums over finite sets: SumFunctionOnSet adds the values up in the order *)
(* that CHOOSE picks the members of the set in, and that order does not    *)
(* matter.                                                                 *)

FirstOf(s) == CHOOSE x \in s : TRUE

(* h holds the sum of fun over every subset of A. *)
IsTable(h, fun, A) ==
    h = [s \in SUBSET A |-> IF s = {} THEN 0 ELSE fun[FirstOf(s)] + h[s \ {FirstOf(s)}]]

LEMMA TableExists ==
    ASSUME NEW A, IsFiniteSet(A), NEW fun, \A x \in A : fun[x] \in Int
    PROVE  \E h \in [SUBSET A -> Int] : IsTable(h, fun, A)
<1> DEFINE Entry(h, s) == IF s = {} THEN 0 ELSE fun[FirstOf(s)] + h[s \ {FirstOf(s)}]
           n == Cardinality(A)
           Bad == {k \in 0 .. n : ~\E h \in [SUBSET A -> Int] :
                      \A s \in SUBSET A : Cardinality(s) <= k => h[s] = Entry(h, s)}
<1>1. \A s \in SUBSET A : /\ IsFiniteSet(s) /\ Cardinality(s) \in Nat /\ Cardinality(s) <= n
                          /\ Cardinality(s) = 0 <=> s = {}
  BY FS_Subset, FS_CardinalityType, FS_EmptySet
<1>2. n \in Nat
  BY FS_CardinalityType
<1>3. \A s \in SUBSET A : s # {} =>
          /\ FirstOf(s) \in A
          /\ s \ {FirstOf(s)} \in SUBSET A
          /\ Cardinality(s \ {FirstOf(s)}) = Cardinality(s) - 1
  <2> TAKE s \in SUBSET A
  <2> HAVE s # {}
  <2>1. FirstOf(s) \in s
    BY DEF FirstOf
  <2> QED
    BY <1>1, <2>1, FS_RemoveElement
<1> HIDE DEF n
<1>4. Bad = {}
  <2> SUFFICES ASSUME Bad # {} PROVE FALSE
    OBVIOUS
  <2>1. Bad \subseteq Nat
    BY <1>2
  <2> HIDE DEF Bad
  <2>2. PICK k \in Bad : \A j \in Bad : k <= j
    BY <2>1, LeastNat
  <2> USE DEF Bad
  <2>3. CASE k = 0
    <3>1. [s \in SUBSET A |-> 0] \in [SUBSET A -> Int]
      OBVIOUS
    <3>2. \A s \in SUBSET A : Cardinality(s) <= 0 => s = {}
      BY <1>1
    <3>3. \A s \in SUBSET A : Cardinality(s) <= k =>
              [t \in SUBSET A |-> 0][s] = Entry([t \in SUBSET A |-> 0], s)
      BY <2>3, <3>2
    <3> QED
      BY <2>2, <3>1, <3>3
  <2>4. CASE k # 0
    <3>1. k - 1 \in 0 .. n /\ ~(k <= k - 1) /\ k \in Nat
      BY <1>2, <2>2, <2>4
    <3>2. PICK h \in [SUBSET A -> Int] :
              \A s \in SUBSET A : Cardinality(s) <= k - 1 => h[s] = Entry(h, s)
      BY <2>2, <3>1
    <3> DEFINE new == [s \in SUBSET A |-> IF Cardinality(s) <= k - 1 THEN h[s] ELSE Entry(h, s)]
    <3>3. \A s \in SUBSET A : Entry(h, s) \in Int
      BY <1>3
    <3>4. new \in [SUBSET A -> Int]
      BY <3>3
    <3>5. ASSUME NEW s \in SUBSET A, Cardinality(s) <= k PROVE new[s] = Entry(new, s)
      <4>1. CASE s = {}
        <5>1. Cardinality(s) <= k - 1
          BY <1>1, <3>1, <4>1, <2>4
        <5> QED
          BY <3>2, <4>1, <5>1
      <4>2. CASE s # {}
        <5>1. /\ s \ {FirstOf(s)} \in SUBSET A
              /\ Cardinality(s \ {FirstOf(s)}) <= k - 1
          BY <1>1, <1>3, <3>1, <3>5, <4>2
        <5>2. new[s \ {FirstOf(s)}] = h[s \ {FirstOf(s)}]
          BY <5>1
        <5>3. Entry(new, s) = Entry(h, s)
          BY <4>2, <5>2
        <5>4. new[s] = Entry(h, s)
          BY <3>2
        <5> QED
          BY <5>3, <5>4
      <4> QED
        BY <4>1, <4>2
    <3> HIDE DEF new, Entry
    <3> QED
      BY <2>2, <3>4, <3>5
  <2> QED
    BY <2>3, <2>4
<1> HIDE DEF Bad
<1>5. n \in 0 .. n /\ n \notin Bad
  BY <1>2, <1>4
<1> USE DEF Bad
<1>6. PICK h \in [SUBSET A -> Int] :
          \A s \in SUBSET A : Cardinality(s) <= n => h[s] = Entry(h, s)
  BY <1>5
<1>7. \A s \in SUBSET A : h[s] = Entry(h, s)
  BY <1>1, <1>6
<1> HIDE DEF Entry
<1>8. h = [s \in SUBSET A |-> Entry(h, s)]
  BY <1>6, <1>7
<1> USE DEF Entry
<1> QED
  BY <1>8 DEF IsTable

(* Two tables agree where their functions do. *)
LEMMA TablesAgree ==
    ASSUME NEW A, IsFiniteSet(A), NEW B, NEW f, NEW g, NEW h, NEW k,
           IsTable(h, f, A), IsTable(k, g, B),
           NEW s, s \subseteq A, s \subseteq B, \A x \in s : f[x] = g[x]
    PROVE  h[s] = k[s]
<1> DEFINE Bad == {t \in SUBSET s : h[t] # k[t]}
<1>1. IsFiniteSet(s)
  BY FS_Subset
<1>2. Bad = {}
  <2> SUFFICES ASSUME Bad # {} PROVE FALSE
    OBVIOUS
  <2>1. Bad \subseteq SUBSET s
    OBVIOUS
  <2> HIDE DEF Bad
  <2>2. PICK t \in Bad : \A u \in SUBSET t : u # t => u \notin Bad
    BY <1>1, <2>1, MinimalSet
  <2> USE DEF Bad
  <2>3. t \in SUBSET A /\ t \in SUBSET B /\ t \subseteq s
    BY <2>2
  <2>4. /\ h[t] = IF t = {} THEN 0 ELSE f[FirstOf(t)] + h[t \ {FirstOf(t)}]
        /\ k[t] = IF t = {} THEN 0 ELSE g[FirstOf(t)] + k[t \ {FirstOf(t)}]
    BY <2>3 DEF IsTable
  <2>5. t # {}
    BY <2>2, <2>4
  <2>6. FirstOf(t) \in t
    BY <2>5 DEF FirstOf
  <2>7. t \ {FirstOf(t)} \in SUBSET t /\ t \ {FirstOf(t)} # t
    BY <2>6
  <2>8. h[t \ {FirstOf(t)}] = k[t \ {FirstOf(t)}]
    BY <2>2, <2>3, <2>7
  <2> QED
    BY <2>2, <2>3, <2>4, <2>5, <2>6, <2>8
<1> QED
  BY <1>2

(* SumFunctionOnSet reads the last entry of a table. *)
LEMMA SumIsEntry ==
    ASSUME NEW A, IsFiniteSet(A), NEW fun, \A x \in A : fun[x] \in Int
    PROVE  \E h \in [SUBSET A -> Int] :
              /\ IsTable(h, fun, A)
              /\ SumFunctionOnSet(fun, A) = h[A]
<1> DEFINE h == CHOOSE h : IsTable(h, fun, A)
<1>1. PICK t \in [SUBSET A -> Int] : IsTable(t, fun, A)
  BY TableExists
<1>2. IsTable(h, fun, A)
  BY <1>1
<1>3. SumFunctionOnSet(fun, A) = h[A]
  BY DEF SumFunctionOnSet, FoldFunctionOnSet, MapThenFoldSet, FirstOf, IsTable
<1> HIDE DEF h
<1>4. \A s \in SUBSET A : h[s] = t[s]
  <2> TAKE s \in SUBSET A
  <2> QED
    BY <1>1, <1>2, TablesAgree
<1>5. h = [s \in SUBSET A |-> h[s]]
  BY <1>2 DEF IsTable
<1>6. h \in [SUBSET A -> Int]
  BY <1>1, <1>4, <1>5
<1> QED
  BY <1>2, <1>3, <1>6

LEMMA SumOfNothing ==
    ASSUME NEW fun
    PROVE  SumFunctionOnSet(fun, {}) = 0
<1>1. PICK h \in [SUBSET {} -> Int] : IsTable(h, fun, {}) /\ SumFunctionOnSet(fun, {}) = h[{}]
  BY SumIsEntry, FS_EmptySet
<1> QED
  BY <1>1 DEF IsTable

(* The order of a sum does not matter: any member may be taken out. *)
LEMMA SumRemove ==
    ASSUME NEW A, IsFiniteSet(A), NEW fun, \A x \in A : fun[x] \in Int, NEW a \in A
    PROVE  SumFunctionOnSet(fun, A) = fun[a] + SumFunctionOnSet(fun, A \ {a})
<1>1. PICK h \in [SUBSET A -> Int] : IsTable(h, fun, A) /\ SumFunctionOnSet(fun, A) = h[A]
  BY SumIsEntry
<1> DEFINE Bad == {s \in SUBSET A : \E x \in s : h[s] # fun[x] + h[s \ {x}]}
<1>2. Bad = {}
  <2> SUFFICES ASSUME Bad # {} PROVE FALSE
    OBVIOUS
  <2>1. Bad \subseteq SUBSET A
    OBVIOUS
  <2> HIDE DEF Bad
  <2>2. PICK s \in Bad : \A u \in SUBSET s : u # s => u \notin Bad
    BY <2>1, MinimalSet
  <2> USE DEF Bad
  <2>3. PICK x \in s : h[s] # fun[x] + h[s \ {x}]
    BY <2>2
  <2> DEFINE c == FirstOf(s)
  <2>4. c \in s /\ s \in SUBSET A
    BY <2>2, <2>3 DEF FirstOf
  <2> HIDE DEF c
  <2>5. h[s] = fun[c] + h[s \ {c}]
    BY <1>1, <2>3, <2>4 DEF IsTable, c
  <2>6. c # x
    BY <2>3, <2>5
  <2>7. s \ {c} \notin Bad /\ s \ {x} \notin Bad
    BY <2>2, <2>3, <2>4
  <2>8. h[s \ {c}] = fun[x] + h[(s \ {c}) \ {x}]
    BY <2>3, <2>4, <2>6, <2>7
  <2>9. h[s \ {x}] = fun[c] + h[(s \ {x}) \ {c}]
    BY <2>3, <2>4, <2>6, <2>7
  <2>10. h[(s \ {c}) \ {x}] = h[(s \ {x}) \ {c}]
    <3>1. (s \ {c}) \ {x} = (s \ {x}) \ {c}
      OBVIOUS
    <3> QED
      BY <3>1
  <2>11. fun[x] \in Int /\ fun[c] \in Int /\ h[(s \ {x}) \ {c}] \in Int
    BY <1>1, <2>3, <2>4
  <2> QED
    BY <2>3, <2>5, <2>8, <2>9, <2>10, <2>11
<1>3. h[A] = fun[a] + h[A \ {a}]
  BY <1>2
<1>4. IsFiniteSet(A \ {a}) /\ \A x \in A \ {a} : fun[x] \in Int
  BY FS_RemoveElement
<1>5. PICK k \in [SUBSET (A \ {a}) -> Int] :
          IsTable(k, fun, A \ {a}) /\ SumFunctionOnSet(fun, A \ {a}) = k[A \ {a}]
  BY <1>4, SumIsEntry
<1>6. h[A \ {a}] = k[A \ {a}]
  BY <1>1, <1>5, TablesAgree
<1> QED
  BY <1>1, <1>3, <1>5, <1>6

LEMMA SumType ==
    ASSUME NEW A, IsFiniteSet(A), NEW fun, \A x \in A : fun[x] \in Int
    PROVE  SumFunctionOnSet(fun, A) \in Int
<1>1. PICK h \in [SUBSET A -> Int] : SumFunctionOnSet(fun, A) = h[A]
  BY SumIsEntry
<1> QED
  BY <1>1

LEMMA SumSame ==
    ASSUME NEW A, IsFiniteSet(A), NEW f, NEW g, \A x \in A : f[x] \in Int /\ f[x] = g[x]
    PROVE  SumFunctionOnSet(f, A) = SumFunctionOnSet(g, A)
<1>1. PICK h \in [SUBSET A -> Int] : IsTable(h, f, A) /\ SumFunctionOnSet(f, A) = h[A]
  BY SumIsEntry
<1>2. \A x \in A : g[x] \in Int
  OBVIOUS
<1>3. PICK k \in [SUBSET A -> Int] : IsTable(k, g, A) /\ SumFunctionOnSet(g, A) = k[A]
  BY <1>2, SumIsEntry
<1>4. h[A] = k[A]
  BY <1>1, <1>3, TablesAgree
<1> QED
  BY <1>1, <1>3, <1>4

(* A sum of natural numbers is one. *)
LEMMA SumNat ==
    ASSUME NEW A, IsFiniteSet(A), NEW fun, \A x \in A : fun[x] \in Nat
    PROVE  SumFunctionOnSet(fun, A) \in Nat
<1> DEFINE Bad == {s \in SUBSET A : SumFunctionOnSet(fun, s) \notin Nat}
<1>1. Bad = {}
  <2> SUFFICES ASSUME Bad # {} PROVE FALSE
    OBVIOUS
  <2>1. Bad \subseteq SUBSET A
    OBVIOUS
  <2> HIDE DEF Bad
  <2>2. PICK s \in Bad : \A u \in SUBSET s : u # s => u \notin Bad
    BY <2>1, MinimalSet
  <2> USE DEF Bad
  <2>3. s \in SUBSET A /\ IsFiniteSet(s) /\ \A x \in s : fun[x] \in Int
    BY <2>2, FS_Subset
  <2>4. CASE s = {}
    BY <2>2, <2>4, SumOfNothing
  <2>5. CASE s # {}
    <3>1. PICK x \in s : TRUE
      BY <2>5
    <3>2. SumFunctionOnSet(fun, s) = fun[x] + SumFunctionOnSet(fun, s \ {x})
      BY <2>3, <3>1, SumRemove
    <3>3. SumFunctionOnSet(fun, s \ {x}) \in Nat
      <4>1. s \ {x} \in SUBSET s /\ s \ {x} # s /\ s \ {x} \in SUBSET A
        BY <2>3, <3>1
      <4> QED
        BY <2>2, <4>1
    <3>4. fun[x] \in Nat
      BY <2>3, <3>1
    <3> QED
      BY <2>2, <3>2, <3>3, <3>4
  <2> QED
    BY <2>4, <2>5
<1>2. A \in SUBSET A
  OBVIOUS
<1> QED
  BY <1>1, <1>2

(* The sum over two disjoint sets. *)
LEMMA SumDisjoint ==
    ASSUME NEW A, IsFiniteSet(A), NEW B, IsFiniteSet(B), A \cap B = {},
           NEW fun, \A x \in A \cup B : fun[x] \in Int
    PROVE  SumFunctionOnSet(fun, A \cup B)
               = SumFunctionOnSet(fun, A) + SumFunctionOnSet(fun, B)
<1> DEFINE Total(s) == SumFunctionOnSet(fun, s)
           Bad == {s \in SUBSET B : Total(A \cup s) # Total(A) + Total(s)}
<1>1. \A s \in SUBSET B : /\ IsFiniteSet(s) /\ IsFiniteSet(A \cup s)
                          /\ \A x \in A \cup s : fun[x] \in Int
  BY FS_Subset, FS_Union
<1>2. \A s \in SUBSET B : \A x \in s :
          /\ Total(s) = fun[x] + Total(s \ {x})
          /\ Total(A \cup s) = fun[x] + Total(A \cup (s \ {x}))
  <2> TAKE s \in SUBSET B
  <2> TAKE x \in s
  <2>1. (A \cup s) \ {x} = A \cup (s \ {x}) /\ x \in A \cup s
    OBVIOUS
  <2>2. Total(A \cup s) = fun[x] + Total((A \cup s) \ {x})
    BY <1>1, <2>1, SumRemove
  <2>3. Total(s) = fun[x] + Total(s \ {x})
    BY <1>1, SumRemove
  <2> QED
    BY <2>1, <2>2, <2>3
<1>3. Total(A) \in Int /\ \A s \in SUBSET B : Total(s) \in Int
  BY <1>1, SumType
<1>4. Total({}) = 0
  BY SumOfNothing
<1> HIDE DEF Total
<1>5. Bad = {}
  <2> SUFFICES ASSUME Bad # {} PROVE FALSE
    OBVIOUS
  <2>1. Bad \subseteq SUBSET B
    OBVIOUS
  <2> HIDE DEF Bad
  <2>2. PICK s \in Bad : \A u \in SUBSET s : u # s => u \notin Bad
    BY <2>1, MinimalSet
  <2> USE DEF Bad
  <2>3. s # {}
    <3> SUFFICES ASSUME s = {} PROVE FALSE
      OBVIOUS
    <3>1. Total(A \cup s) # Total(A) + Total(s)
      BY <2>2
    <3>2. A \cup s = A
      OBVIOUS
    <3>3. Total(A \cup s) = Total(A) /\ Total(s) = 0
      BY <1>4, <3>2
    <3> QED
      BY <1>3, <3>1, <3>3
  <2>4. PICK x \in s : TRUE
    BY <2>3
  <2>5. s \ {x} \in SUBSET B /\ s \ {x} \notin Bad
    BY <2>2, <2>4
  <2>6. Total(A \cup (s \ {x})) = Total(A) + Total(s \ {x})
    BY <2>5
  <2>7. /\ Total(s) = fun[x] + Total(s \ {x})
        /\ Total(A \cup s) = fun[x] + Total(A \cup (s \ {x}))
    BY <1>2, <2>2, <2>4
  <2>8. fun[x] \in Int /\ Total(s \ {x}) \in Int /\ Total(A) \in Int
    BY <1>3, <2>2, <2>4, <2>5
  <2>9. Total(A \cup s) = Total(A) + Total(s)
    BY <2>6, <2>7, <2>8
  <2> QED
    BY <2>2, <2>9
<1>6. B \in SUBSET B
  OBVIOUS
<1>7. Total(A \cup B) = Total(A) + Total(B)
  BY <1>5, <1>6
<1> QED
  BY <1>7 DEF Total

(* A sum of zeros. *)
LEMMA SumOfZeros ==
    ASSUME NEW A, IsFiniteSet(A), NEW fun, \A x \in A : fun[x] = 0
    PROVE  SumFunctionOnSet(fun, A) = 0
<1> DEFINE Bad == {s \in SUBSET A : SumFunctionOnSet(fun, s) # 0}
<1>1. Bad = {}
  <2> SUFFICES ASSUME Bad # {} PROVE FALSE
    OBVIOUS
  <2>1. Bad \subseteq SUBSET A
    OBVIOUS
  <2> HIDE DEF Bad
  <2>2. PICK s \in Bad : \A u \in SUBSET s : u # s => u \notin Bad
    BY <2>1, MinimalSet
  <2> USE DEF Bad
  <2>3. s \in SUBSET A /\ IsFiniteSet(s) /\ \A x \in s : fun[x] \in Int
    BY <2>2, FS_Subset
  <2>4. PICK x \in s : TRUE
    BY <2>2, SumOfNothing
  <2>5. SumFunctionOnSet(fun, s) = fun[x] + SumFunctionOnSet(fun, s \ {x})
    BY <2>3, <2>4, SumRemove
  <2>6. s \ {x} \in SUBSET s /\ s \ {x} # s /\ s \ {x} \in SUBSET A
    BY <2>3, <2>4
  <2>7. SumFunctionOnSet(fun, s \ {x}) = 0
    BY <2>2, <2>6
  <2>8. fun[x] = 0
    BY <2>3, <2>4
  <2>9. SumFunctionOnSet(fun, s) = 0
    BY <2>5, <2>7, <2>8
  <2> QED
    BY <2>2, <2>9
<1>2. A \in SUBSET A
  OBVIOUS
<1> QED
  BY <1>1, <1>2

(* The sum of one value. *)
LEMMA SumOfOne ==
    ASSUME NEW fun, NEW a, fun[a] \in Int
    PROVE  SumFunctionOnSet(fun, {a}) = fun[a]
<1>1. SumFunctionOnSet(fun, {a}) = fun[a] + SumFunctionOnSet(fun, {a} \ {a})
  BY FS_Singleton, SumRemove
<1>2. {a} \ {a} = {}
  OBVIOUS
<1> QED
  BY <1>1, <1>2, SumOfNothing

(* The sum over the members of a set renamed one to one. *)
LEMMA SumRenamed ==
    ASSUME NEW A, IsFiniteSet(A), NEW f, \A x \in A : f[x] \in Int,
           NEW name, \A x, y \in A : name[x] = name[y] => x = y,
           NEW g, \A x \in A : g[name[x]] = f[x]
    PROVE  SumFunctionOnSet(g, {name[x] : x \in A}) = SumFunctionOnSet(f, A)
<1> DEFINE Names(s) == {name[x] : x \in s}
           Bad == {s \in SUBSET A : SumFunctionOnSet(g, Names(s)) # SumFunctionOnSet(f, s)}
<1>1. \A s \in SUBSET A : IsFiniteSet(s) /\ IsFiniteSet(Names(s))
  <2> TAKE s \in SUBSET A
  <2>1. IsFiniteSet(s)
    BY FS_Subset
  <2> DEFINE map == [x \in s |-> name[x]]
  <2>2. map \in Surjection(s, Names(s))
    BY DEF Surjection
  <2> QED
    BY <2>1, <2>2, FS_Surjection
<1>2. Bad = {}
  <2> SUFFICES ASSUME Bad # {} PROVE FALSE
    OBVIOUS
  <2>1. Bad \subseteq SUBSET A
    OBVIOUS
  <2> HIDE DEF Bad
  <2>2. PICK s \in Bad : \A u \in SUBSET s : u # s => u \notin Bad
    BY <2>1, MinimalSet
  <2> USE DEF Bad
  <2>3. s # {}
    <3> SUFFICES ASSUME s = {} PROVE FALSE
      OBVIOUS
    <3>0. SumFunctionOnSet(g, Names(s)) # SumFunctionOnSet(f, s)
      BY <2>2
    <3>1. Names(s) = {}
      OBVIOUS
    <3> HIDE DEF Names, Bad
    <3>2. SumFunctionOnSet(g, Names(s)) = 0 /\ SumFunctionOnSet(f, s) = 0
      BY <3>1, SumOfNothing
    <3> QED
      BY <3>0, <3>2
  <2>4. PICK x \in s : TRUE
    BY <2>3
  <2>5. s \in SUBSET A /\ s \ {x} \in SUBSET s /\ s \ {x} # s
    BY <2>2, <2>4
  <2>6. SumFunctionOnSet(g, Names(s \ {x})) = SumFunctionOnSet(f, s \ {x})
    BY <2>2, <2>5
  <2>7. SumFunctionOnSet(f, s) = f[x] + SumFunctionOnSet(f, s \ {x})
    BY <1>1, <2>4, <2>5, SumRemove
  <2>8. Names(s) \ {name[x]} = Names(s \ {x}) /\ name[x] \in Names(s)
    BY <2>4, <2>5
  <2>9. \A y \in Names(s) : g[y] \in Int
    BY <2>5
  <2>10. SumFunctionOnSet(g, Names(s)) = g[name[x]] + SumFunctionOnSet(g, Names(s) \ {name[x]})
    <3> HIDE DEF Names
    <3> QED
      BY <1>1, <2>5, <2>8, <2>9, SumRemove
  <2>11. g[name[x]] = f[x]
    BY <2>4, <2>5
  <2> HIDE DEF Names
  <2>12. SumFunctionOnSet(g, Names(s)) = SumFunctionOnSet(f, s)
    BY <2>6, <2>7, <2>8, <2>10, <2>11
  <2> QED
    BY <2>2, <2>12
<1>3. A \in SUBSET A
  OBVIOUS
<1>4. SumFunctionOnSet(g, Names(A)) = SumFunctionOnSet(f, A)
  BY <1>2, <1>3
<1> QED
  BY <1>4

(* A part of a sum of natural numbers is no more than the whole. *)
LEMMA SumMonotone ==
    ASSUME NEW A, IsFiniteSet(A), NEW fun, \A x \in A : fun[x] \in Nat, NEW B \in SUBSET A
    PROVE  /\ SumFunctionOnSet(fun, B) \in Nat
           /\ SumFunctionOnSet(fun, A) \in Nat
           /\ SumFunctionOnSet(fun, B) <= SumFunctionOnSet(fun, A)
<1>1. IsFiniteSet(B) /\ IsFiniteSet(A \ B) /\ B \cap (A \ B) = {} /\ B \cup (A \ B) = A
  BY FS_Subset
<1>2. SumFunctionOnSet(fun, B) \in Nat /\ SumFunctionOnSet(fun, A \ B) \in Nat
  BY <1>1, SumNat
<1>3. SumFunctionOnSet(fun, B \cup (A \ B))
          = SumFunctionOnSet(fun, B) + SumFunctionOnSet(fun, A \ B)
  BY <1>1, SumDisjoint
<1> DEFINE whole == SumFunctionOnSet(fun, A)
           part  == SumFunctionOnSet(fun, B)
           rest  == SumFunctionOnSet(fun, A \ B)
<1>4. part \in Nat /\ rest \in Nat /\ whole = part + rest
  BY <1>1, <1>2, <1>3
<1> HIDE DEF whole, part, rest
<1>5. part \in Nat /\ whole \in Nat /\ part <= whole
  BY <1>4
<1> QED
  BY <1>5 DEF whole, part

-----------------------------------------------------------------------------
(* p holds the powers of b. *)
Powers(p, b) ==
    /\ p \in [Nat -> Nat \ {0}]
    /\ p[0] = 1
    /\ \A k \in Nat : p[k + 1] = b * p[k]

(* The equation that a recursive definition of the powers of b chooses by. *)
PowerTable(p, b) == p = [k \in Nat |-> IF k = 0 THEN 1 ELSE b * p[k - 1]]

LEMMA PowersExist ==
    ASSUME NEW b \in Nat \ {0}
    PROVE  \E p \in [Nat -> Nat \ {0}] : PowerTable(p, b)
<1> DEFINE N1 == Nat \ {0}
           Sol(g, n) == g \in [0 .. n -> N1] /\ g[0] = 1 /\ \A i \in 1 .. n : g[i] = b * g[i - 1]
           G(n) == CHOOSE g : Sol(g, n)
           p == [k \in Nat |-> G(k)[k]]
<1>1. ASSUME NEW n \in Nat PROVE Sol(G(n), n)
  <2> DEFINE F == [q \in N1 \X (1 .. n) |-> b * q[1]]
  <2>1. \A x \in N1 : b * x \in N1
    OBVIOUS
  <2>2. IsStep(F, N1, n) /\ 1 \in N1
    BY <2>1 DEF IsStep
  <2>3. \A x \in N1 : \A i \in 1 .. n : F[<<x, i>>] = b * x
    OBVIOUS
  <2> HIDE DEF F, N1
  <2>4. PICK g : Iterates(g, F, N1, n, 1)
    BY <2>2, RecursionExists
  <2>5. /\ g \in [0 .. n -> N1]
        /\ g[0] = 1
        /\ \A i \in 1 .. n : g[i] = F[<<g[i - 1], i>>]
    BY <2>4 DEF Iterates
  <2>6. ASSUME NEW i \in 1 .. n PROVE g[i] = b * g[i - 1]
    <3>1. i - 1 \in 0 .. n
      OBVIOUS
    <3> QED
      BY <2>3, <2>5, <3>1
  <2>7. Sol(g, n)
    BY <2>5, <2>6
  <2> QED
    BY <2>7
<1>2. ASSUME NEW n \in Nat, NEW g, NEW h, NEW m \in Nat, Sol(g, n), Sol(h, m), n <= m
      PROVE  \A k \in 0 .. n : g[k] = h[k]
  <2> DEFINE Bad == {k \in 0 .. n : g[k] # h[k]}
  <2> SUFFICES ASSUME Bad # {} PROVE FALSE
    OBVIOUS
  <2>1. Bad \subseteq Nat
    OBVIOUS
  <2> HIDE DEF Bad
  <2>2. PICK k \in Bad : \A j \in Bad : k <= j
    BY <2>1, LeastNat
  <2>3. k \in 0 .. n /\ g[k] # h[k]
    BY <2>2 DEF Bad
  <2>4. k # 0
    BY <1>2, <2>3
  <2>5. k \in 1 .. n /\ k \in 1 .. m /\ k - 1 \in 0 .. n /\ ~(k <= k - 1)
    BY <1>2, <2>3, <2>4
  <2>6. g[k - 1] = h[k - 1]
    BY <2>2, <2>5 DEF Bad
  <2>7. g[k] = b * g[k - 1] /\ h[k] = b * h[k - 1]
    BY <1>2, <2>5
  <2> QED
    BY <2>3, <2>6, <2>7
<1>3. p \in [Nat -> N1]
  <2>1. ASSUME NEW k \in Nat PROVE G(k)[k] \in N1
    <3>1. Sol(G(k), k)
      BY <1>1
    <3> HIDE DEF G
    <3>2. k \in 0 .. k
      OBVIOUS
    <3> QED
      BY <3>1, <3>2
  <2> HIDE DEF G, N1
  <2> QED
    BY <2>1
<1>4. ASSUME NEW k \in Nat PROVE p[k] = IF k = 0 THEN 1 ELSE b * p[k - 1]
  <2>1. Sol(G(k), k)
    BY <1>1
  <2>2. CASE k = 0
    <3> HIDE DEF G
    <3> QED
      BY <2>1, <2>2
  <2>3. CASE k # 0
    <3>1. k - 1 \in Nat /\ k \in 1 .. k /\ k - 1 \in 0 .. k - 1 /\ k - 1 <= k
      BY <2>3
    <3>2. Sol(G(k - 1), k - 1)
      BY <1>1, <3>1
    <3> HIDE DEF G
    <3>3. \A i \in 0 .. k - 1 : G(k - 1)[i] = G(k)[i]
      <4> HIDE DEF Sol
      <4> QED
        BY <1>2, <2>1, <3>1, <3>2
    <3>4. G(k)[k] = b * G(k)[k - 1]
      BY <2>1, <3>1
    <3> QED
      BY <2>3, <3>1, <3>3, <3>4
  <2> QED
    BY <2>2, <2>3
<1>5. p = [k \in Nat |-> IF k = 0 THEN 1 ELSE b * p[k - 1]]
  <2>1. \A k \in Nat : p[k] = G(k)[k]
    OBVIOUS
  <2>2. p = [k \in Nat |-> p[k]]
    <3> HIDE DEF G
    <3> QED
      OBVIOUS
  <2> HIDE DEF p
  <2> QED
    BY <1>4, <2>2
<1> HIDE DEF p
<1> QED
  BY <1>3, <1>5 DEF PowerTable

(* What such a definition has defined. *)
LEMMA PowersAre ==
    ASSUME NEW b \in Nat \ {0}, NEW p, p = CHOOSE q : PowerTable(q, b)
    PROVE  Powers(p, b)
<1>1. PowerTable(p, b)
  BY PowersExist
<1>2. p = [k \in Nat |-> IF k = 0 THEN 1 ELSE b * p[k - 1]]
  BY <1>1 DEF PowerTable
<1>3. p[0] = 1 /\ \A k \in Nat : p[k + 1] = b * p[k]
  <2>1. 0 \in Nat /\ \A k \in Nat : k + 1 \in Nat /\ k + 1 # 0 /\ (k + 1) - 1 = k
    OBVIOUS
  <2> QED
    BY <1>2, <2>1
<1> DEFINE Bad == {k \in Nat : p[k] \notin Nat \ {0}}
<1>4. Bad = {}
  <2> SUFFICES ASSUME Bad # {} PROVE FALSE
    OBVIOUS
  <2>1. Bad \subseteq Nat
    OBVIOUS
  <2> HIDE DEF Bad
  <2>2. PICK k \in Bad : \A j \in Bad : k <= j
    BY <2>1, LeastNat
  <2> USE DEF Bad
  <2>3. k - 1 \in Nat /\ ~(k <= k - 1) /\ (k - 1) + 1 = k
    BY <1>3, <2>2
  <2>4. p[k - 1] \in Nat \ {0}
    BY <2>2, <2>3
  <2>5. p[k] = b * p[k - 1]
    BY <1>3, <2>3
  <2> QED
    BY <2>4, <2>5
<1>5. p \in [Nat -> Nat \ {0}]
  BY <1>2, <1>4
<1> QED
  BY <1>3, <1>5 DEF Powers

LEMMA PowerOfSum ==
    ASSUME NEW b \in Nat \ {0}, NEW p, Powers(p, b), NEW i \in Nat, NEW j \in Nat
    PROVE  p[i + j] = p[i] * p[j]
<1> DEFINE Bad == {k \in Nat : p[i + k] # p[i] * p[k]}
<1> SUFFICES ASSUME Bad # {} PROVE FALSE
  OBVIOUS
<1>1. Bad \subseteq Nat
  OBVIOUS
<1> HIDE DEF Bad
<1>2. PICK k \in Bad : \A n \in Bad : k <= n
  BY <1>1, LeastNat
<1> USE DEF Bad, Powers
<1>3. k # 0
  <2>1. p[i + 0] = p[i] * p[0]
    OBVIOUS
  <2> QED
    BY <1>2, <2>1
<1>4. k - 1 \in Nat /\ ~(k <= k - 1) /\ (k - 1) + 1 = k /\ (i + (k - 1)) + 1 = i + k /\ i + (k - 1) \in Nat
  BY <1>2, <1>3
<1>5. p[i + (k - 1)] = p[i] * p[k - 1]
  BY <1>2, <1>4
<1>6. p[i + k] = b * p[i + (k - 1)] /\ p[k] = b * p[k - 1]
  BY <1>4
<1>7. \A x, y \in Nat : b * (x * y) = x * (b * y)
  OBVIOUS
<1>8. p[i] \in Nat /\ p[k - 1] \in Nat
  BY <1>4
<1>9. p[i + k] = p[i] * p[k]
  BY <1>5, <1>6, <1>7, <1>8
<1> QED
  BY <1>2, <1>9

LEMMA PowersRise ==
    ASSUME NEW b \in Nat \ {0}, NEW p, Powers(p, b), NEW i \in Nat, NEW j \in Nat, i <= j
    PROVE  p[i] <= p[j]
<1>1. j - i \in Nat /\ i + (j - i) = j
  OBVIOUS
<1>2. p[j] = p[i] * p[j - i]
  BY <1>1, PowerOfSum
<1>3. p[i] \in Nat \ {0} /\ p[j - i] \in Nat \ {0}
  BY <1>1 DEF Powers
<1>4. \A x, y \in Nat \ {0} : x <= x * y
  OBVIOUS
<1> QED
  BY <1>2, <1>3, <1>4
=============================================================================
