----------------------------- MODULE SumLemmas -----------------------------
(***************************************************************************)
(* Sums of a function over a finite set, as SumFunctionOnSet of the        *)
(* community modules computes them: by a recursion over the subsets that   *)
(* takes out one chosen element at a time.  The choice does not matter,    *)
(* which is what makes a running total comparable to a sum.                *)
(*                                                                         *)
(* Each lemma proved by induction looks at the least counterexample.       *)
(***************************************************************************)
EXTENDS Functions, FiniteSets, FiniteSetTheorems, WellFoundedInduction, TLAPS

(* Every non-empty set of naturals has a least element.                    *)
LEMMA LeastNat ==
    ASSUME NEW T \in SUBSET Nat, T # {}
    PROVE  \E n \in T : \A m \in T : n <= m
<1> DEFINE R == OpToRel(<, Nat)
<1>1. PICK n \in T : \A m \in T : ~(<<m, n>> \in R)
  <2> HIDE DEF R
  <2>1. IsWellFoundedOn(R, Nat)
    BY NatLessThanWellFounded DEF R
  <2> QED
    BY <2>1, WFMin
<1>2. \A m \in T : ~(m < n)
  BY <1>1 DEF OpToRel
<1> QED
  BY <1>2

Pick(s) == CHOOSE x \in s : TRUE

(* g satisfies the recursion on the sets in D.                             *)
SumsOn(g, f, D) ==
    g = [s \in D |-> IF s = {} THEN 0 ELSE f[Pick(s)] + g[s \ {Pick(s)}]]

(* SumFunctionOnSet is the chosen solution of the recursion.               *)
LEMMA SumIsChosen ==
    ASSUME NEW f, NEW S
    PROVE  SumFunctionOnSet(f, S) = (CHOOSE g : SumsOn(g, f, SUBSET S))[S]
  BY DEF SumFunctionOnSet, FoldFunctionOnSet, MapThenFoldSet, SumsOn, Pick

(* What is taken out of a set was in it.                                   *)
LEMMA PickProperties ==
    ASSUME NEW s, s # {}, IsFiniteSet(s)
    PROVE  /\ Pick(s) \in s
           /\ IsFiniteSet(s \ {Pick(s)})
           /\ Cardinality(s) \in Nat \ {0}
           /\ Cardinality(s \ {Pick(s)}) = Cardinality(s) - 1
<1>1. Pick(s) \in s
  BY DEF Pick
<1>2. Cardinality(s) \in Nat /\ Cardinality(s) # 0
  BY FS_CardinalityType, FS_EmptySet
<1> QED
  BY <1>1, <1>2, FS_RemoveElement

(* The recursion has a solution over the subsets of a finite set.          *)
LEMMA SumsExist ==
    ASSUME NEW f, NEW S, IsFiniteSet(S)
    PROVE  \E g : SumsOn(g, f, SUBSET S)
<1> DEFINE Low(n) == {s \in SUBSET S : Cardinality(s) <= n}
           Bad == {n \in Nat : ~\E g : SumsOn(g, f, Low(n))}
<1>0. \A s \in SUBSET S : IsFiniteSet(s) /\ Cardinality(s) \in Nat
  BY FS_Subset, FS_CardinalityType
<1>1. Bad = {}
  <2> SUFFICES ASSUME Bad # {} PROVE FALSE
    OBVIOUS
  <2>1. PICK n \in Bad : \A m \in Bad : n <= m
    BY LeastNat
  <2>2. CASE n = 0
    <3>1. \A s \in Low(n) : s = {}
      BY <1>0, <2>2, FS_EmptySet
    <3>2. SumsOn([s \in Low(n) |-> 0], f, Low(n))
      BY <3>1 DEF SumsOn
    <3> QED
      BY <2>1, <3>2
  <2>3. CASE n # 0
    <3>1. n - 1 \in Nat /\ n - 1 \notin Bad
      <4>1. n \in Nat
        OBVIOUS
      <4> HIDE DEF Bad
      <4> QED
        BY <2>1, <2>3, <4>1
    <3>2. PICK g : SumsOn(g, f, Low(n - 1))
      BY <3>1
    <3> DEFINE h == [s \in Low(n) |->
                        IF Cardinality(s) <= n - 1 THEN g[s]
                        ELSE f[Pick(s)] + g[s \ {Pick(s)}]]
    <3>3. ASSUME NEW s \in Low(n)
          PROVE  h[s] = IF s = {} THEN 0 ELSE f[Pick(s)] + h[s \ {Pick(s)}]
      <4>1. CASE s = {}
        <5>1. s \in Low(n - 1)
          BY <1>0, <3>1, <4>1, FS_EmptySet
        <5>2. g[s] = 0
          BY <3>2, <4>1, <5>1 DEF SumsOn
        <5> QED
          BY <4>1, <5>1, <5>2
      <4>2. CASE s # {}
        <5>1. /\ Pick(s) \in s /\ Cardinality(s) \in Nat
              /\ Cardinality(s \ {Pick(s)}) = Cardinality(s) - 1
          BY <1>0, <4>2, PickProperties
        <5> DEFINE t == s \ {Pick(s)}
        <5>2. t \in Low(n) /\ t \in Low(n - 1) /\ n \in Nat
          BY <2>1, <5>1
        <5>3. h[t] = g[t]
          BY <5>2
        <5>4. s \in Low(n - 1) => g[s] = f[Pick(s)] + g[t]
          <6> SUFFICES ASSUME s \in Low(n - 1) PROVE g[s] = f[Pick(s)] + g[t]
            OBVIOUS
          <6> QED BY <3>2, <4>2 DEF SumsOn
        <5> QED
          BY <4>2, <5>3, <5>4
      <4> QED BY <4>1, <4>2
    <3>4. SumsOn(h, f, Low(n))
      <4> HIDE DEF Low
      <4>1. h = [s \in Low(n) |-> h[s]]
        OBVIOUS
      <4> HIDE DEF h
      <4> QED
        BY <3>3, <4>1 DEF SumsOn
    <3> QED
      BY <2>1, <3>4
  <2> QED BY <2>2, <2>3
<1>2. SUBSET S = Low(Cardinality(S)) /\ Cardinality(S) \in Nat
  BY <1>0, FS_Subset
<1>3. Cardinality(S) \notin Bad
  BY <1>1
<1> QED
  BY <1>2, <1>3

(* Two solutions, one over a larger set, agree on a set where the functions *)
(* they sum do.                                                            *)
LEMMA SumsAgree ==
    ASSUME NEW f, NEW U, NEW g, SumsOn(g, f, SUBSET U),
           NEW S \in SUBSET U, IsFiniteSet(S),
           NEW e, NEW h, SumsOn(h, e, SUBSET S),
           \A x \in S : e[x] = f[x]
    PROVE  g[S] = h[S]
<1> DEFINE Bad == {n \in Nat : \E s \in SUBSET S :
                                 Cardinality(s) = n /\ g[s] # h[s]}
<1>0. \A s \in SUBSET S : IsFiniteSet(s) /\ Cardinality(s) \in Nat
  BY FS_Subset, FS_CardinalityType
<1>1. Bad = {}
  <2> SUFFICES ASSUME Bad # {} PROVE FALSE
    OBVIOUS
  <2>1. PICK n \in Bad : \A m \in Bad : n <= m
    BY LeastNat
  <2>2. PICK s \in SUBSET S : Cardinality(s) = n /\ g[s] # h[s]
    BY <2>1
  <2>3. s \in SUBSET U
    OBVIOUS
  <2>4. s # {}
    BY <2>2, <2>3 DEF SumsOn
  <2> DEFINE t == s \ {Pick(s)}
  <2>5. /\ Pick(s) \in s /\ t \in SUBSET S
        /\ Cardinality(t) = n - 1 /\ n - 1 \in Nat
    BY <1>0, <2>2, <2>4, PickProperties
  <2>6. n - 1 \notin Bad
    <3>1. n \in Nat
      OBVIOUS
    <3> HIDE DEF Bad
    <3> QED BY <2>1, <2>5, <3>1
  <2>7. g[t] = h[t]
    BY <2>5, <2>6
  <2>8. g[s] = f[Pick(s)] + g[t] /\ h[s] = e[Pick(s)] + h[t]
    BY <2>3, <2>4 DEF SumsOn
  <2> QED
    BY <2>2, <2>5, <2>7, <2>8
<1> QED
  BY <1>0, <1>1

(* A solution of the recursion is additive: whichever element is taken out *)
(* first, the rest of the sum is the same.                                 *)
LEMMA SumsAdd ==
    ASSUME NEW f, NEW U, IsFiniteSet(U), \A x \in U : f[x] \in Int,
           NEW g, SumsOn(g, f, SUBSET U)
    PROVE  \A s \in SUBSET U :
              /\ g[s] \in Int
              /\ \A x \in s : g[s] = f[x] + g[s \ {x}]
<1> DEFINE Good(s) == /\ g[s] \in Int
                      /\ \A x \in s : g[s] = f[x] + g[s \ {x}]
           Bad == {n \in Nat : \E s \in SUBSET U : Cardinality(s) = n /\ ~Good(s)}
<1>0. \A s \in SUBSET U : IsFiniteSet(s) /\ Cardinality(s) \in Nat
  BY FS_Subset, FS_CardinalityType
<1>1. Bad = {}
  <2> SUFFICES ASSUME Bad # {} PROVE FALSE
    OBVIOUS
  <2>1. PICK n \in Bad : \A m \in Bad : n <= m
    BY LeastNat
  <2>2. PICK s \in SUBSET U : Cardinality(s) = n /\ ~Good(s)
    BY <2>1
  <2>3. s # {}
    BY <2>2 DEF SumsOn
  <2>4. \A t \in SUBSET U : Cardinality(t) = n - 1 /\ n - 1 \in Nat => Good(t)
    <3> SUFFICES ASSUME NEW t \in SUBSET U, Cardinality(t) = n - 1,
                        n - 1 \in Nat
                 PROVE  Good(t)
      OBVIOUS
    <3>1. n \in Nat
      OBVIOUS
    <3>2. n - 1 \notin Bad
      <4> HIDE DEF Bad
      <4> QED BY <2>1, <3>1
    <3> QED
      BY <3>2
  <2> DEFINE c == Pick(s)
  <2>5. /\ c \in s /\ s \ {c} \in SUBSET U /\ n - 1 \in Nat
        /\ Cardinality(s \ {c}) = n - 1
    BY <1>0, <2>2, <2>3, PickProperties
  <2>6. g[s] = f[c] + g[s \ {c}] /\ Good(s \ {c})
    BY <2>3, <2>4, <2>5 DEF SumsOn
  <2> HIDE DEF c
  <2>7. ASSUME NEW x \in s PROVE g[s] = f[x] + g[s \ {x}]
    <3>1. CASE x = c
      BY <2>6, <3>1
    <3>2. CASE x # c
      <4>1. x \in s \ {c} /\ c \in s \ {x} /\ s \ {x} \in SUBSET U
        BY <2>5, <3>2
      <4>2. g[s \ {c}] = f[x] + g[(s \ {c}) \ {x}]
        BY <2>6, <4>1
      <4>3. Cardinality(s \ {x}) = n - 1
        BY <1>0, <2>2, FS_RemoveElement
      <4>4. g[s \ {x}] = f[c] + g[(s \ {x}) \ {c}]
        BY <2>4, <2>5, <4>1, <4>3
      <4>5. (s \ {x}) \ {c} = (s \ {c}) \ {x}
        OBVIOUS
      <4>6. f[x] \in Int /\ f[c] \in Int /\ g[(s \ {c}) \ {x}] \in Int
        <5>1. f[x] \in Int /\ f[c] \in Int
          BY <2>5
        <5>2. (s \ {c}) \ {x} \in SUBSET (s \ {c})
          OBVIOUS
        <5> DEFINE t == (s \ {c}) \ {x}
        <5>3. t \in SUBSET U
          BY <2>5
        <5>4. Cardinality(t) = Cardinality(s \ {c}) - 1
          BY <1>0, <2>5, <4>1, FS_RemoveElement
        <5>5. Cardinality(t) = n - 2 /\ n - 2 \in Nat /\ n \in Nat
          <6>1. Cardinality(t) \in Nat /\ n \in Nat
            BY <1>0, <5>3
          <6> HIDE DEF t
          <6> QED
            BY <2>5, <5>4, <6>1
        <5>6. n - 2 \notin Bad
          <6> HIDE DEF Bad
          <6> QED BY <2>1, <5>5
        <5>7. Good(t)
          BY <5>3, <5>5, <5>6
        <5> QED
          BY <5>1, <5>7
      <4> DEFINE rest == g[(s \ {c}) \ {x}]
      <4>7. g[s] = f[c] + (f[x] + rest) /\ g[s \ {x}] = f[c] + rest
        BY <2>6, <4>2, <4>4, <4>5
      <4>8. rest \in Int
        BY <4>6
      <4> HIDE DEF rest
      <4> QED
        BY <4>6, <4>7, <4>8
    <3> QED BY <3>1, <3>2
  <2>8. g[s] \in Int
    BY <2>5, <2>6
  <2> QED
    BY <2>2, <2>7, <2>8
<1> QED
  BY <1>0, <1>1

(* The sum of a set is what any solution over a larger set says.           *)
LEMMA SumIsSolution ==
    ASSUME NEW f, NEW U, IsFiniteSet(U), NEW g, SumsOn(g, f, SUBSET U),
           NEW e, NEW S \in SUBSET U, \A x \in S : e[x] = f[x]
    PROVE  SumFunctionOnSet(e, S) = g[S]
<1>1. IsFiniteSet(S)
  BY FS_Subset
<1>2. PICK h : SumsOn(h, e, SUBSET S)
  BY <1>1, SumsExist
<1> DEFINE k == CHOOSE h_1 : SumsOn(h_1, e, SUBSET S)
<1>3. SumsOn(k, e, SUBSET S)
  BY <1>2
<1>4. SumFunctionOnSet(e, S) = k[S]
  BY SumIsChosen
<1> HIDE DEF k
<1>6. ASSUME NEW q, SumsOn(q, e, SUBSET S) PROVE g[S] = q[S]
  BY <1>1, <1>6, SumsAgree
<1> QED
  BY <1>3, <1>4, <1>6

-----------------------------------------------------------------------------
(* Nothing sums to zero.                                                   *)
LEMMA SumEmpty == ASSUME NEW f PROVE SumFunctionOnSet(f, {}) = 0
<1>1. IsFiniteSet({})
  BY FS_EmptySet
<1>2. PICK g : SumsOn(g, f, SUBSET {})
  BY <1>1, SumsExist
<1>3. SumFunctionOnSet(f, {}) = g[{}]
  BY <1>1, <1>2, SumIsSolution
<1> QED
  BY <1>2, <1>3 DEF SumsOn

(* One element more adds its value, whatever became of the function        *)
(* elsewhere.                                                              *)
LEMMA SumAdd ==
    ASSUME NEW f, NEW S, IsFiniteSet(S), NEW x, x \notin S,
           \A y \in S \cup {x} : f[y] \in Int,
           NEW e, \A y \in S : e[y] = f[y]
    PROVE  /\ SumFunctionOnSet(f, S \cup {x}) = f[x] + SumFunctionOnSet(e, S)
           /\ SumFunctionOnSet(e, S) \in Int
<1> DEFINE U == S \cup {x}
<1>1. IsFiniteSet(U)
  BY FS_AddElement
<1>2. PICK g : SumsOn(g, f, SUBSET U)
  BY <1>1, SumsExist
<1>4. S \in SUBSET U /\ U \in SUBSET U /\ x \in U /\ U \ {x} = S
  OBVIOUS
<1>0. \A y \in U : f[y] \in Int
  OBVIOUS
<1> HIDE DEF U
<1>6. SumFunctionOnSet(f, U) = g[U]
  BY <1>1, <1>2, <1>4, SumIsSolution
<1>3. SumFunctionOnSet(e, S) = g[S]
  BY <1>1, <1>2, <1>4, SumIsSolution
<1>5. \A s \in SUBSET U : /\ g[s] \in Int
                         /\ \A y \in s : g[s] = f[y] + g[s \ {y}]
  BY <1>0, <1>1, <1>2, SumsAdd
<1>7. g[U] = f[x] + g[S] /\ g[S] \in Int
  BY <1>4, <1>5
<1> QED
  BY <1>3, <1>6, <1>7 DEF U

(* Functions that agree on a set have the same sum over it.                *)
LEMMA SumSame ==
    ASSUME NEW f, NEW S, IsFiniteSet(S), NEW e, \A y \in S : e[y] = f[y]
    PROVE  SumFunctionOnSet(e, S) = SumFunctionOnSet(f, S)
<1>2. PICK g : SumsOn(g, f, SUBSET S)
  BY SumsExist
<1>3. SumFunctionOnSet(f, S) = g[S] /\ SumFunctionOnSet(e, S) = g[S]
  BY <1>2, SumIsSolution
<1> QED
  BY <1>3
=============================================================================
