---------------------------- MODULE SumTheorems ----------------------------
(***************************************************************************)
(* Sums over finite sets, for the theorems about money: SumFunctionOnSet   *)
(* is a fold in an unspecified order, and these are the facts about it     *)
(* that do not depend on the order.  Induction is over sets: a set of      *)
(* numbers with 0 and every successor is the set of all of them.           *)
(***************************************************************************)
EXTENDS Functions, FiniteSetTheorems, TLAPS

\* A set of numbers with 0 and every successor holds them all.
LEMMA SetInduction ==
    ASSUME NEW P, 0 \in P, \A n \in Nat : n \in P => n + 1 \in P
    PROVE  Nat \subseteq P
  <1> DEFINE Missing == Nat \ P
  <1> SUFFICES ASSUME Missing # {} PROVE FALSE
    OBVIOUS
  <1>1. PICK n \in Missing : \A m \in Missing : <<m, n>> \notin OpToRel(<, Nat)
    BY NatLessThanWellFounded, WFMin
  <1>2. \A m \in Missing : ~(m < n)
    BY <1>1 DEF OpToRel
  <1>3. n # 0 /\ n - 1 \in Nat /\ n - 1 \in P
    BY <1>2
  <1> QED
    BY <1>3

\* A set of subsets of S with the empty one and, with a subset, every larger
\* one by an element, holds them all.
LEMMA SubsetInduction ==
    ASSUME NEW S, IsFiniteSet(S), NEW Q, {} \in Q,
           \A T \in SUBSET S : T \in Q => \A x \in S \ T : T \cup {x} \in Q
    PROVE  SUBSET S \subseteq Q
  <1> DEFINE P == {n \in Nat : \A T \in SUBSET S : Cardinality(T) = n => T \in Q}
  <1>1. \A T \in SUBSET S : IsFiniteSet(T) /\ Cardinality(T) \in Nat
    BY FS_Subset, FS_CardinalityType
  <1>2. 0 \in P
    BY <1>1, FS_EmptySet
  <1>3. ASSUME NEW n \in Nat, n \in P PROVE n + 1 \in P
    <2> SUFFICES ASSUME NEW T \in SUBSET S, Cardinality(T) = n + 1 PROVE T \in Q
      OBVIOUS
    <2>1. PICK x \in T : TRUE
      BY <1>1, FS_EmptySet
    <2>2. Cardinality(T \ {x}) = n /\ T \ {x} \in SUBSET S
      BY <1>1, FS_RemoveElement
    <2>3. T \ {x} \in Q
      BY <1>3, <2>2
    <2>4. T = (T \ {x}) \cup {x} /\ x \in S \ (T \ {x})
      OBVIOUS
    <2> QED
      BY <2>2, <2>3, <2>4
  <1> HIDE DEF P
  <1>4. Nat \subseteq P
    BY <1>2, <1>3, SetInduction
  <1> QED
    BY <1>1, <1>4 DEF P

-----------------------------------------------------------------------------
\* A table of the sums of f over the subsets of S.
IsSumTable(g, f, S) ==
    /\ g \in [SUBSET S -> Int]
    /\ g[{}] = 0
    /\ \A T \in SUBSET S : \A x \in T : g[T] = f[x] + g[T \ {x}]

\* What the fold computes if it takes the elements in the order of pick.
IsFold(g, f, pick, S) ==
    /\ g \in [SUBSET S -> Int]
    /\ \A T \in SUBSET S :
        g[T] = IF T = {} THEN 0 ELSE f[pick[T]] + g[T \ {pick[T]}]

\* The fold is defined: by the size of the subsets.
LEMMA FoldExists ==
    ASSUME NEW S, IsFiniteSet(S), NEW f, \A x \in S : f[x] \in Int,
           NEW pick, \A T \in SUBSET S : T # {} => pick[T] \in T
    PROVE  \E g : IsFold(g, f, pick, S)
  <1> DEFINE Upto(n) == {T \in SUBSET S : Cardinality(T) <= n}
             Good(g, n) ==
                /\ g \in [Upto(n) -> Int]
                /\ \A T \in Upto(n) :
                    g[T] = IF T = {} THEN 0 ELSE f[pick[T]] + g[T \ {pick[T]}]
             P == {n \in Nat : \E g : Good(g, n)}
  <1>1. \A T \in SUBSET S : IsFiniteSet(T) /\ Cardinality(T) \in Nat
    BY FS_Subset, FS_CardinalityType
  <1>2. \A T \in SUBSET S : T # {} =>
            /\ T \ {pick[T]} \in SUBSET S
            /\ Cardinality(T \ {pick[T]}) = Cardinality(T) - 1
            /\ f[pick[T]] \in Int
    BY <1>1, FS_RemoveElement
  <1>3. 0 \in P
    <2>1. \A T \in Upto(0) : T = {}
      BY <1>1, FS_EmptySet
    <2>2. Good([T \in Upto(0) |-> 0], 0)
      BY <2>1
    <2> QED
      BY <2>2
  <1>4. ASSUME NEW n \in Nat, n \in P PROVE n + 1 \in P
    <2>1. PICK g : Good(g, n)
      BY <1>4
    <2> DEFINE h == [T \in Upto(n + 1) |->
                        IF T = {} THEN 0 ELSE f[pick[T]] + g[T \ {pick[T]}]]
    <2>2. \A T \in Upto(n + 1) : T # {} => T \ {pick[T]} \in Upto(n)
      BY <1>1, <1>2
    <2>3. h \in [Upto(n + 1) -> Int]
      BY <1>2, <2>1, <2>2
    <2>4. \A T \in Upto(n) : T \in Upto(n + 1)
      BY <1>1
    <2>5. \A T \in Upto(n) : h[T] = g[T]
      BY <2>1, <2>4
    <2>6. Good(h, n + 1)
      BY <2>2, <2>3, <2>5
    <2> HIDE DEF h, Good
    <2> QED
      BY <2>6
  <1> HIDE DEF P
  <1>5. Cardinality(S) \in P
    BY <1>1, <1>3, <1>4, SetInduction
  <1>6. PICK g : Good(g, Cardinality(S))
    BY <1>5 DEF P
  <1>7. Upto(Cardinality(S)) = SUBSET S
    BY <1>1, FS_Subset
  <1> QED
    BY <1>6, <1>7 DEF IsFold

\* The order does not matter: any element may be taken first.
LEMMA FoldIsSumTable ==
    ASSUME NEW S, IsFiniteSet(S), NEW f, \A x \in S : f[x] \in Int,
           NEW pick, \A T \in SUBSET S : T # {} => pick[T] \in T,
           NEW g, IsFold(g, f, pick, S)
    PROVE  IsSumTable(g, f, S)
  <1> DEFINE Free(T) == \A x \in T : g[T] = f[x] + g[T \ {x}]
             P == {n \in Nat : \A T \in SUBSET S : Cardinality(T) = n => Free(T)}
  <1>0. \A T \in SUBSET S : IsFiniteSet(T) /\ Cardinality(T) \in Nat
    BY FS_Subset, FS_CardinalityType
  <1>1. 0 \in P
    BY <1>0, FS_EmptySet
  <1>2. ASSUME NEW n \in Nat, n \in P PROVE n + 1 \in P
    <2> SUFFICES ASSUME NEW T \in SUBSET S, Cardinality(T) = n + 1, NEW x \in T
                 PROVE  g[T] = f[x] + g[T \ {x}]
      OBVIOUS
    <2> DEFINE y == pick[T]
    <2>1. y \in T /\ g[T] = f[y] + g[T \ {y}]
      BY DEF IsFold
    <2> HIDE DEF y
    <2>2. \A z \in T : Cardinality(T \ {z}) = n /\ T \ {z} \in SUBSET S
      BY <1>0, FS_RemoveElement
    <2>3. Free(T \ {y}) /\ Free(T \ {x})
      BY <1>2, <2>1, <2>2
    <2>4. CASE x = y
      BY <2>1, <2>4
    <2>5. CASE x # y
      <3>1. g[T \ {y}] = f[x] + g[(T \ {y}) \ {x}]
        BY <2>3, <2>5
      <3>2. g[T \ {x}] = f[y] + g[(T \ {x}) \ {y}]
        BY <2>1, <2>3, <2>5
      <3>3. (T \ {y}) \ {x} = (T \ {x}) \ {y} /\ (T \ {x}) \ {y} \in SUBSET S
        OBVIOUS
      <3>4. g[(T \ {x}) \ {y}] \in Int /\ f[x] \in Int /\ f[y] \in Int
        BY <2>1, <3>3 DEF IsFold
      <3>5. \A a, b, c \in Int : a + (b + c) = b + (a + c)
        OBVIOUS
      <3>6. g[T] = f[y] + (f[x] + g[(T \ {x}) \ {y}])
        BY <2>1, <3>1, <3>3
      <3>7. f[x] + g[T \ {x}] = f[x] + (f[y] + g[(T \ {x}) \ {y}])
        BY <3>2
      <3> QED
        BY <3>4, <3>5, <3>6, <3>7
    <2> QED
      BY <2>4, <2>5
  <1> HIDE DEF P
  <1>3. Nat \subseteq P
    BY <1>1, <1>2, SetInduction
  <1>4. \A T \in SUBSET S : Free(T)
    BY <1>0, <1>3 DEF P
  <1> QED
    BY <1>4 DEF IsFold, IsSumTable

\* Tables agree where both are defined.
LEMMA SumTableUnique ==
    ASSUME NEW S, NEW U, IsFiniteSet(U), S \subseteq U,
           NEW f, NEW e, \A x \in S : f[x] = e[x],
           NEW g, IsSumTable(g, f, S), NEW h, IsSumTable(h, e, U)
    PROVE  g[S] = h[S]
  <1> DEFINE Q == {T \in SUBSET S : g[T] = h[T]}
  <1>1. {} \in Q
    BY DEF IsSumTable
  <1>2. ASSUME NEW T \in SUBSET S, T \in Q, NEW x \in S \ T
        PROVE  T \cup {x} \in Q
    <2>1. (T \cup {x}) \ {x} = T /\ T \cup {x} \in SUBSET S
      OBVIOUS
    <2>2. g[T \cup {x}] = f[x] + g[T]
      BY <2>1 DEF IsSumTable
    <2>3. h[T \cup {x}] = e[x] + h[T]
      BY <2>1 DEF IsSumTable
    <2> QED
      BY <1>2, <2>1, <2>2, <2>3
  <1> HIDE DEF Q
  <1>3. SUBSET S \subseteq Q
    BY <1>1, <1>2, SubsetInduction, FS_Subset
  <1> QED
    BY <1>3 DEF Q

\* SumFunctionOnSet reads the sum off such a table.
LEMMA SumByTable ==
    ASSUME NEW S, IsFiniteSet(S), NEW f, \A x \in S : f[x] \in Int
    PROVE  \E g : IsSumTable(g, f, S) /\ SumFunctionOnSet(f, S) = g[S]
  <1> DEFINE Step(g) == [T \in SUBSET S |->
                            IF T = {} THEN 0
                            ELSE f[CHOOSE x \in T : TRUE]
                                    + g[T \ {CHOOSE x \in T : TRUE}]]
             iter == CHOOSE g : g = Step(g)
             pick == [T \in SUBSET S |-> CHOOSE x \in T : TRUE]
  <1>1. SumFunctionOnSet(f, S) = iter[S]
    BY DEF SumFunctionOnSet, FoldFunctionOnSet, MapThenFoldSet
  <1>2. \A T \in SUBSET S : T # {} => pick[T] \in T
    OBVIOUS
  <1>3. PICK g : IsFold(g, f, pick, S)
    <2> HIDE DEF pick
    <2> QED
      BY <1>2, FoldExists
  <1>4. g = Step(g)
    BY <1>3 DEF IsFold
  <1>5. iter = Step(iter)
    <2> HIDE DEF Step
    <2> QED
      BY <1>4
  <1> HIDE DEF iter
  <1>6. \A T \in SUBSET S : iter[T] =
            IF T = {} THEN 0 ELSE f[pick[T]] + iter[T \ {pick[T]}]
    BY <1>5
  <1> HIDE DEF pick, Step
  <1> DEFINE P == {n \in Nat : \A T \in SUBSET S : Cardinality(T) = n => iter[T] = g[T]}
  <1>7. \A T \in SUBSET S : IsFiniteSet(T) /\ Cardinality(T) \in Nat
    BY FS_Subset, FS_CardinalityType
  <1>8. 0 \in P
    BY <1>3, <1>6, <1>7, FS_EmptySet DEF IsFold
  <1>9. ASSUME NEW n \in Nat, n \in P PROVE n + 1 \in P
    <2> SUFFICES ASSUME NEW T \in SUBSET S, Cardinality(T) = n + 1
                 PROVE  iter[T] = g[T]
      OBVIOUS
    <2>1. T # {} /\ pick[T] \in T
      <3>1. T # {}
        BY FS_EmptySet
      <3> QED
        BY <1>2, <3>1
    <2>2. Cardinality(T \ {pick[T]}) = n /\ T \ {pick[T]} \in SUBSET S
      <3>1. \A z \in T : Cardinality(T \ {z}) = n /\ T \ {z} \in SUBSET S
        BY <1>7, FS_RemoveElement
      <3> QED
        BY <2>1, <3>1
    <2>3. iter[T \ {pick[T]}] = g[T \ {pick[T]}]
      BY <1>9, <2>2
    <2> QED
      BY <1>3, <1>6, <2>1, <2>3 DEF IsFold
  <1> HIDE DEF P
  <1>10. iter[S] = g[S]
    <2>1. Nat \subseteq P
      BY <1>8, <1>9, SetInduction
    <2> QED
      BY <1>7, <2>1 DEF P
  <1> QED
    BY <1>1, <1>2, <1>3, <1>10, FoldIsSumTable
-----------------------------------------------------------------------------
(* What the theorems about money use.                                      *)

\* Nothing adds up to 0.
LEMMA SumEmpty == ASSUME NEW f PROVE SumFunctionOnSet(f, {}) = 0
  <1>1. PICK g : IsSumTable(g, f, {}) /\ SumFunctionOnSet(f, {}) = g[{}]
    BY SumByTable, FS_EmptySet
  <1> QED
    BY <1>1 DEF IsSumTable

\* A sum of numbers is a number.
LEMMA SumInt ==
    ASSUME NEW S, IsFiniteSet(S), NEW f, \A x \in S : f[x] \in Int
    PROVE  SumFunctionOnSet(f, S) \in Int
  <1>1. PICK g : IsSumTable(g, f, S) /\ SumFunctionOnSet(f, S) = g[S]
    BY SumByTable
  <1> QED
    BY <1>1 DEF IsSumTable

\* The sum depends on the values at the elements only.
LEMMA SumEqual ==
    ASSUME NEW S, IsFiniteSet(S), NEW f, NEW e,
           \A x \in S : f[x] \in Int /\ e[x] = f[x]
    PROVE  SumFunctionOnSet(e, S) = SumFunctionOnSet(f, S)
  <1>1. PICK g : IsSumTable(g, f, S) /\ SumFunctionOnSet(f, S) = g[S]
    BY SumByTable
  <1>2. PICK h : IsSumTable(h, e, S) /\ SumFunctionOnSet(e, S) = h[S]
    BY SumByTable
  <1> QED
    BY <1>1, <1>2, SumTableUnique

\* One more element adds its value.
LEMMA SumAdd ==
    ASSUME NEW S, IsFiniteSet(S), NEW x, x \notin S,
           NEW f, \A y \in S \cup {x} : f[y] \in Int
    PROVE  SumFunctionOnSet(f, S \cup {x}) = f[x] + SumFunctionOnSet(f, S)
  <1> DEFINE U == S \cup {x}
  <1>0. IsFiniteSet(U) /\ S \subseteq U /\ U \ {x} = S /\ x \in U
    BY FS_AddElement
  <1> HIDE DEF U
  <1>1. PICK g : IsSumTable(g, f, S) /\ SumFunctionOnSet(f, S) = g[S]
    BY SumByTable
  <1>2. PICK h : IsSumTable(h, f, U) /\ SumFunctionOnSet(f, U) = h[U]
    BY <1>0, SumByTable DEF U
  <1>3. g[S] = h[S]
    BY <1>0, <1>1, <1>2, SumTableUnique
  <1>4. h[U] = f[x] + h[S]
    BY <1>0, <1>2 DEF IsSumTable
  <1> QED
    BY <1>1, <1>2, <1>3, <1>4 DEF U

\* A new value at one element changes the sum by the difference.
LEMMA SumChange ==
    ASSUME NEW S, IsFiniteSet(S), NEW x \in S,
           NEW f, \A y \in S : f[y] \in Int,
           NEW e, \A y \in S : y # x => e[y] = f[y], e[x] \in Int
    PROVE  SumFunctionOnSet(e, S) = SumFunctionOnSet(f, S) + (e[x] - f[x])
  <1> DEFINE R == S \ {x}
  <1>1. IsFiniteSet(R) /\ x \notin R /\ S = R \cup {x}
    BY FS_RemoveElement
  <1>2. \A y \in S : e[y] \in Int
    OBVIOUS
  <1>3. \A y \in R : f[y] \in Int /\ e[y] = f[y]
    OBVIOUS
  <1> HIDE DEF R
  <1>4. SumFunctionOnSet(f, S) = f[x] + SumFunctionOnSet(f, R)
    BY <1>1, SumAdd
  <1>5. SumFunctionOnSet(e, S) = e[x] + SumFunctionOnSet(e, R)
    BY <1>1, <1>2, SumAdd
  <1>6. SumFunctionOnSet(e, R) = SumFunctionOnSet(f, R)
    BY <1>1, <1>3, SumEqual
  <1>7. SumFunctionOnSet(f, R) \in Int
    BY <1>1, <1>3, SumInt
  <1> QED
    BY <1>4, <1>5, <1>6, <1>7

\* Zeros add up to 0.
LEMMA SumZeros ==
    ASSUME NEW S, IsFiniteSet(S), NEW f, \A x \in S : f[x] = 0
    PROVE  SumFunctionOnSet(f, S) = 0
  <1>1. PICK g : IsSumTable(g, f, S) /\ SumFunctionOnSet(f, S) = g[S]
    BY SumByTable
  <1> DEFINE h == [T \in SUBSET S |-> 0]
  <1>2. IsSumTable(h, f, S)
    BY DEF IsSumTable
  <1>3. h[S] = 0
    OBVIOUS
  <1> HIDE DEF h
  <1> QED
    BY <1>1, <1>2, <1>3, SumTableUnique
=============================================================================
