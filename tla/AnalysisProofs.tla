---------------------------- MODULE AnalysisProofs ----------------------------
(***************************************************************************)
(* What the reports say of what is recorded, for every plan, every suite,  *)
(* every catalogue and every number of attempts, verdicts, builders and    *)
(* readers.                                                                *)
(*                                                                         *)
(* The invariant is short where the reports are long: the database holds   *)
(* results of planned attempts as the suite of their run scores them, and  *)
(* verdicts are kept in full.  What a report makes of it is shown of every *)
(* such database.  Most of that is counting, so the sections begin with    *)
(* sums over finite sets; the files that builders write and readers load   *)
(* come last, with an invariant of their own.                              *)
(***************************************************************************)
EXTENDS Analysis, FiniteSetTheorems, SequenceTheorems, WellFoundedInduction, TLAPS
-----------------------------------------------------------------------------
\* The numbers up to n are n.
LEMMA UpToFinite ==
  ASSUME NEW n \in Nat
  PROVE  IsFiniteSet(1 .. n) /\ Cardinality(1 .. n) = n
<1>1. 1 \in Int /\ n \in Int
  OBVIOUS
<1>2. /\ IsFiniteSet(1 .. n)
      /\ Cardinality(1 .. n) = IF 1 > n THEN 0 ELSE n - 1 + 1
  BY ONLY <1>1, FS_Interval
<1> QED BY <1>2

\* Every set of numbers with a member has a least one.
LEMMA LeastNumber ==
    ASSUME NEW T, T \subseteq Nat, T # {}
    PROVE  \E x \in T : \A y \in T : x <= y
<1>1. PICK x \in T : \A y \in T : ~ (<<y, x>> \in OpToRel(<, Nat))
  BY NatLessThanWellFounded, WFMin, Zenon
<1>2. \A y \in T : ~(y < x)
  BY <1>1 DEF OpToRel
<1> QED BY <1>2

\* The member that the fold takes next.
Some(s) == CHOOSE x \in s : TRUE

\* g[s] is f added up over s.
Sums(g, f, s) == g[s] = IF s = {} THEN 0 ELSE f[Some(s)] + g[s \ {Some(s)}]

\* g adds up f over every subset of S.
Summing(g, f, S) ==
    g = [s \in SUBSET S |-> IF s = {} THEN 0 ELSE f[Some(s)] + g[s \ {Some(s)}]]

\* The fold of the library is such a total.
LEMMA SumIsChosen ==
    ASSUME NEW f, NEW S
    PROVE  SumFunctionOnSet(f, S) = (CHOOSE g : Summing(g, f, S))[S]
BY DEF SumFunctionOnSet, FoldFunctionOnSet, MapThenFoldSet, Summing, Some

\* A subset of a finite set, and what is left of it without a member.
LEMMA OneLess ==
    ASSUME NEW S, IsFiniteSet(S), NEW s \in SUBSET S, NEW x \in s
    PROVE  /\ s \ {x} \in SUBSET S
           /\ Cardinality(s) \in Nat /\ Cardinality(s \ {x}) \in Nat
           /\ Cardinality(s \ {x}) = Cardinality(s) - 1
<1>1. IsFiniteSet(s)
  BY FS_Subset
<1>2. IsFiniteSet(s \ {x}) /\ Cardinality(s \ {x}) = Cardinality(s) - 1
  BY <1>1, FS_RemoveElement
<1> QED BY <1>1, <1>2, FS_CardinalityType

\* Two totals over one set agree: no subset of least size tells them apart.
LEMMA SumsAgree ==
    ASSUME NEW S, IsFiniteSet(S), NEW T, S \subseteq T,
           NEW f, NEW e, \A x \in S : f[x] = e[x],
           NEW g, Summing(g, f, S), NEW h, Summing(h, e, T)
    PROVE  \A s \in SUBSET S : g[s] = h[s]
<1> DEFINE Apart(s) == g[s] # h[s]
            Bad == {n \in Nat : \E s \in SUBSET S : Cardinality(s) = n /\ Apart(s)}
<1>1. \A s \in SUBSET S : Sums(g, f, s)
  BY DEF Summing, Sums
<1>2. \A s \in SUBSET T : Sums(h, e, s)
  BY DEF Summing, Sums
<1>3. ASSUME Bad # {} PROVE FALSE
  <2>1. Bad \subseteq Nat
    OBVIOUS
  <2> HIDE DEF Bad
  <2>2. PICK n \in Bad : \A k \in Bad : n <= k
    BY <1>3, <2>1, LeastNumber
  <2> USE DEF Bad
  <2>3. PICK s \in SUBSET S : Cardinality(s) = n /\ Apart(s)
    BY <2>2
  <2>4. s # {}
    BY <1>1, <1>2, <2>3 DEF Sums
  <2>5. Some(s) \in s
    BY <2>4 DEF Some
  <2>6. s \ {Some(s)} \in SUBSET S /\ Cardinality(s \ {Some(s)}) = n - 1 /\ n \in Nat
        /\ Cardinality(s \ {Some(s)}) \in Nat
    BY <2>3, <2>5, OneLess
  <2>7. ~ Apart(s \ {Some(s)})
    <3>1. n - 1 \notin Bad
      BY <2>1, <2>2, <2>6
    <3> QED BY <2>6, <3>1
  <2>8. f[Some(s)] = e[Some(s)]
    BY <2>5
  <2> QED BY <1>1, <1>2, <2>3, <2>4, <2>7, <2>8 DEF Sums
<1>4. ASSUME NEW s \in SUBSET S, Apart(s) PROVE FALSE
  <2>1. Cardinality(s) \in Nat
    BY FS_Subset, FS_CardinalityType
  <2> QED BY <1>3, <1>4, <2>1
<1> QED BY <1>4

\* A total over a finite set exists: no least size of subsets stops it.
LEMMA SumsExist ==
    ASSUME NEW S, IsFiniteSet(S), NEW f, \A x \in S : f[x] \in Int
    PROVE  \E g \in [SUBSET S -> Int] : Summing(g, f, S)
<1> DEFINE Upto(g, n) == \A s \in SUBSET S : Cardinality(s) <= n => Sums(g, f, s)
            Bad == {n \in Nat : ~ \E g \in [SUBSET S -> Int] : Upto(g, n)}
<1>1. ASSUME Bad # {} PROVE FALSE
  <2>1. Bad \subseteq Nat
    OBVIOUS
  <2> HIDE DEF Bad
  <2>2. PICK n \in Bad : \A k \in Bad : n <= k
    BY <1>1, <2>1, LeastNumber
  <2> USE DEF Bad
  <2> HIDE DEF Upto
  <2>3. n \in Nat
    BY <2>2
  <2>4. CASE n = 0
    <3> DEFINE g == [s \in SUBSET S |-> 0]
    <3>1. ASSUME NEW s \in SUBSET S, Cardinality(s) <= 0 PROVE s = {}
      BY <3>1, FS_Subset, FS_CardinalityType, FS_EmptySet
    <3>2. Upto(g, 0)
      BY <3>1 DEF Upto, Sums
    <3>3. g \in [SUBSET S -> Int]
      OBVIOUS
    <3> QED BY <2>2, <2>4, <3>2, <3>3
  <2>5. CASE n # 0
    <3> HIDE DEF Bad
    <3>1. n - 1 \in Nat
      BY <2>3, <2>5
    <3>0. n - 1 \notin Bad
      BY <2>2, <2>3, <3>1
    <3> USE DEF Bad
    <3>2. PICK g \in [SUBSET S -> Int] : Upto(g, n - 1)
      BY <3>0, <3>1
    <3> DEFINE h == [s \in SUBSET S |-> IF Cardinality(s) = n
                                         THEN f[Some(s)] + g[s \ {Some(s)}]
                                         ELSE g[s]]
    <3>3. ASSUME NEW s \in SUBSET S, s # {}
          PROVE  /\ Some(s) \in s /\ f[Some(s)] \in Int
                 /\ s \ {Some(s)} \in SUBSET S
                 /\ Cardinality(s) \in Nat
                 /\ Cardinality(s \ {Some(s)}) = Cardinality(s) - 1
      <4>1. Some(s) \in s
        BY <3>3 DEF Some
      <4> QED BY <4>1, OneLess
    <3>4. Cardinality({}) = 0
      BY FS_EmptySet
    <3>5. h \in [SUBSET S -> Int]
      <4>1. ASSUME NEW s \in SUBSET S PROVE h[s] \in Int
        <5>1. CASE Cardinality(s) = n
          <6>1. s # {}
            BY <2>5, <3>4, <5>1
          <6>2. h[s] = f[Some(s)] + g[s \ {Some(s)}]
            BY <5>1
          <6>3. f[Some(s)] \in Int /\ g[s \ {Some(s)}] \in Int
            BY <3>3, <6>1
          <6> QED BY <6>2, <6>3
        <5>2. CASE Cardinality(s) # n
          BY <5>2
        <5> QED BY <5>1, <5>2
      <4> QED BY <4>1
    <3>6. ASSUME NEW s \in SUBSET S, Cardinality(s) <= n PROVE Sums(h, f, s)
      <4>1. CASE s = {}
        <5>1. Sums(g, f, s)
          BY <3>1, <3>2, <3>4, <4>1 DEF Upto
        <5> QED BY <2>5, <3>4, <4>1, <5>1 DEF Sums
      <4>2. CASE s # {}
        <5> DEFINE r == s \ {Some(s)}
        <5>1. r \in SUBSET S /\ Cardinality(r) = Cardinality(s) - 1 /\ Cardinality(s) \in Nat
          BY <3>3, <4>2
        <5> HIDE DEF r
        <5>2. Cardinality(r) # n
          BY <2>3, <3>6, <5>1
        <5>3. h[r] = g[r]
          BY <5>1, <5>2
        <5>4. CASE Cardinality(s) = n
          <6>1. h[s] = f[Some(s)] + g[r]
            BY <5>4 DEF r
          <6> QED BY <4>2, <5>3, <6>1 DEF Sums, r
        <5>5. CASE Cardinality(s) # n
          <6>1. Cardinality(s) <= n - 1
            BY <2>3, <3>6, <5>1, <5>5
          <6>2. Sums(g, f, s)
            BY <3>2, <6>1 DEF Upto
          <6>3. h[s] = g[s]
            BY <5>5
          <6> QED BY <4>2, <5>3, <6>2, <6>3 DEF Sums, r
        <5> QED BY <5>4, <5>5
      <4> QED BY <4>1, <4>2
    <3> HIDE DEF h
    <3>7. Upto(h, n)
      BY <3>6 DEF Upto
    <3> QED BY <2>2, <3>5, <3>7
  <2> QED BY <2>4, <2>5
<1>2. Cardinality(S) \in Nat
  BY FS_CardinalityType
<1>3. PICK g \in [SUBSET S -> Int] : Upto(g, Cardinality(S))
  BY <1>1, <1>2
<1>4. ASSUME NEW s \in SUBSET S PROVE Sums(g, f, s)
  <2>1. Cardinality(s) <= Cardinality(S)
    BY FS_Subset
  <2> QED BY <1>3, <2>1
<1>5. g = [s \in SUBSET S |-> g[s]]
  BY <1>3
<1> QED BY <1>4, <1>5 DEF Summing, Sums

\* The total of a set is that of any total over a larger one, if what is added
\* up is the same.
LEMMA SumWithin ==
    ASSUME NEW T, IsFiniteSet(T), NEW S \in SUBSET T,
           NEW f, NEW e, \A x \in S : f[x] = e[x] /\ f[x] \in Int,
           NEW h, Summing(h, e, T)
    PROVE  SumFunctionOnSet(f, S) = h[S]
<1> DEFINE g == CHOOSE g : Summing(g, f, S)
<1>1. IsFiniteSet(S)
  BY FS_Subset
<1>2. Summing(g, f, S)
  BY <1>1, SumsExist
<1> HIDE DEF g
<1>3. g[S] = h[S]
  BY <1>1, <1>2, SumsAgree
<1> QED BY <1>3, SumIsChosen DEF g

\* What is added up decides the sum.
LEMMA SumOfAgreeing ==
    ASSUME NEW S, IsFiniteSet(S), NEW f, NEW e, \A x \in S : f[x] = e[x] /\ f[x] \in Int
    PROVE  SumFunctionOnSet(f, S) = SumFunctionOnSet(e, S)
<1>1. \A x \in S : e[x] \in Int
  OBVIOUS
<1>2. PICK h : Summing(h, e, S)
  BY <1>1, SumsExist
<1>3. SumFunctionOnSet(f, S) = h[S]
  <2> DEFINE g == CHOOSE g : Summing(g, f, S)
  <2>1. Summing(g, f, S)
    BY SumsExist
  <2> HIDE DEF g
  <2>2. S \subseteq S /\ \A x \in S : f[x] = e[x]
    OBVIOUS
  <2>3. \A s \in SUBSET S : g[s] = h[s]
    BY ONLY IsFiniteSet(S), <1>2, <2>1, <2>2, SumsAgree
  <2>4. g[S] = h[S]
    BY <2>3
  <2> QED BY ONLY <2>4, SumIsChosen DEF g
<1>4. SumFunctionOnSet(e, S) = h[S]
  <2>1. \A x \in S : e[x] = e[x] /\ e[x] \in Int
    BY <1>1
  <2>2. S \in SUBSET S
    OBVIOUS
  <2> QED BY ONLY IsFiniteSet(S), <1>2, <2>1, <2>2, SumWithin
<1> QED BY <1>3, <1>4

\* A sum takes its members in any order.
LEMMA SumStep ==
    ASSUME NEW S, IsFiniteSet(S), NEW f, \A x \in S : f[x] \in Int
    PROVE  /\ SumFunctionOnSet(f, S) \in Int
           /\ SumFunctionOnSet(f, {}) = 0
           /\ \A x \in S : SumFunctionOnSet(f, S) = f[x] + SumFunctionOnSet(f, S \ {x})
<1>1. PICK g \in [SUBSET S -> Int] : Summing(g, f, S)
  BY SumsExist
<1>2. \A s \in SUBSET S : SumFunctionOnSet(f, s) = g[s] /\ g[s] \in Int
  BY <1>1, SumWithin
<1>3. \A s \in SUBSET S : Sums(g, f, s)
  BY <1>1 DEF Summing, Sums
<1> DEFINE Apart(s) == \E x \in s : g[s] # f[x] + g[s \ {x}]
            Bad == {n \in Nat : \E s \in SUBSET S : Cardinality(s) = n /\ Apart(s)}
<1>4. ASSUME Bad # {} PROVE FALSE
  <2>1. Bad \subseteq Nat
    OBVIOUS
  <2> HIDE DEF Bad
  <2>2. PICK n \in Bad : \A k \in Bad : n <= k
    BY <1>4, <2>1, LeastNumber
  <2> USE DEF Bad
  <2>3. PICK s \in SUBSET S : Cardinality(s) = n /\ Apart(s)
    BY <2>2
  <2>4. PICK x \in s : g[s] # f[x] + g[s \ {x}]
    BY <2>3
  <2> DEFINE c == Some(s)
  <2>5. c \in s
    BY DEF Some
  <2>6. g[s] = f[c] + g[s \ {c}]
    BY <1>3 DEF Sums
  <2> HIDE DEF Apart, c
  <2>7. c # x
    BY <2>4, <2>6
  <2>8. ASSUME NEW y \in s
        PROVE  s \ {y} \in SUBSET S /\ ~ Apart(s \ {y})
    <3>1. s \ {y} \in SUBSET S /\ Cardinality(s \ {y}) = n - 1
          /\ Cardinality(s \ {y}) \in Nat /\ n \in Nat
      BY <2>3, OneLess
    <3>2. n - 1 \notin Bad
      BY <2>1, <2>2, <3>1
    <3> QED BY <3>1, <3>2
  <2>9. g[s \ {c}] = f[x] + g[(s \ {c}) \ {x}]
    BY <2>5, <2>7, <2>8 DEF Apart
  <2>10. g[s \ {x}] = f[c] + g[(s \ {x}) \ {c}]
    BY <2>5, <2>7, <2>8 DEF Apart
  <2>11. (s \ {c}) \ {x} = (s \ {x}) \ {c}
    OBVIOUS
  <2>12. f[x] \in Int /\ f[c] \in Int /\ g[(s \ {x}) \ {c}] \in Int
    <3>1. (s \ {x}) \ {c} \in SUBSET S
      OBVIOUS
    <3> QED BY <1>1, <2>5, <3>1
  <2>13. g[s] # f[x] + g[s \ {x}]
    BY <2>4
  <2>14. g[s \ {c}] = f[x] + g[(s \ {x}) \ {c}]
    BY <2>9, <2>11
  <2>15. f[c] + (f[x] + g[(s \ {x}) \ {c}]) = f[x] + (f[c] + g[(s \ {x}) \ {c}])
    BY <2>12
  <2> QED BY ONLY <2>6, <2>10, <2>13, <2>14, <2>15
<1>5. ASSUME NEW x \in S PROVE g[S] = f[x] + g[S \ {x}]
  <2>1. Cardinality(S) \in Nat
    BY FS_CardinalityType
  <2>2. ~ Apart(S)
    BY <1>4, <2>1
  <2> QED BY <2>2
<1>6. g[{}] = 0
  BY <1>3 DEF Sums
<1> QED BY <1>2, <1>5, <1>6

\* A sum splits into those of a subset and of the rest.
LEMMA SumSplits ==
    ASSUME NEW S, IsFiniteSet(S), NEW f, \A x \in S : f[x] \in Int, NEW K \in SUBSET S
    PROVE  SumFunctionOnSet(f, S) = SumFunctionOnSet(f, K) + SumFunctionOnSet(f, S \ K)
<1> DEFINE Of(s) == SumFunctionOnSet(f, s)
            Apart(s) == Of(S) # Of(s) + Of(S \ s)
            Bad == {n \in Nat : \E s \in SUBSET S : Cardinality(s) = n /\ Apart(s)}
<1>1. ASSUME NEW s \in SUBSET S
      PROVE  Of(s) \in Int /\ Of({}) = 0 /\ \A x \in s : Of(s) = f[x] + Of(s \ {x})
  BY FS_Subset, SumStep
<1> HIDE DEF Of
<1>2. ASSUME Bad # {} PROVE FALSE
  <2>1. Bad \subseteq Nat
    OBVIOUS
  <2> HIDE DEF Bad
  <2>2. PICK n \in Bad : \A k \in Bad : n <= k
    BY <1>2, <2>1, LeastNumber
  <2> USE DEF Bad
  <2>3. PICK s \in SUBSET S : Cardinality(s) = n /\ Apart(s)
    BY <2>2
  <2>4. s # {}
    <3>1. Of(S) = Of({}) + Of(S \ {})
      <4>1. S \ {} = S /\ {} \in SUBSET S /\ S \in SUBSET S
        OBVIOUS
      <4>2. Of(S) \in Int /\ Of({}) = 0
        BY <1>1, <4>1
      <4> QED BY <4>1, <4>2
    <3> QED BY <2>3, <3>1
  <2>5. PICK x \in s : TRUE
    BY <2>4
  <2>6. s \ {x} \in SUBSET S /\ Cardinality(s \ {x}) = n - 1
        /\ Cardinality(s \ {x}) \in Nat /\ n \in Nat
    BY <2>3, OneLess
  <2>7. ~ Apart(s \ {x})
    <3> HIDE DEF Bad
    <3>1. n - 1 \notin Bad
      BY <2>2, <2>6
    <3> USE DEF Bad
    <3> QED BY <2>6, <3>1
  <2>8. (S \ (s \ {x})) \ {x} = S \ s /\ x \in S \ (s \ {x}) /\ x \in S
    OBVIOUS
  <2>9. Of(S \ (s \ {x})) = f[x] + Of(S \ s)
    BY <1>1, <2>8
  <2>10. Of(s) = f[x] + Of(s \ {x})
    BY <1>1
  <2>11. f[x] \in Int /\ Of(s \ {x}) \in Int /\ Of(S \ s) \in Int
    BY <1>1, <2>8
  <2> QED BY <2>3, <2>7, <2>9, <2>10, <2>11
<1>3. Cardinality(K) \in Nat
  BY FS_Subset, FS_CardinalityType
<1>4. ~ Apart(K)
  BY <1>2, <1>3
<1> QED BY <1>4 DEF Of

\* A finite set is reached from the empty one, member by member.
LEMMA MemberByMember ==
    ASSUME NEW S, IsFiniteSet(S), NEW G, {} \in G,
           \A s \in SUBSET S : s # {} /\ (\E x \in s : s \ {x} \in G) => s \in G
    PROVE  \A s \in SUBSET S : s \in G
<1> DEFINE Bad == {n \in Nat : \E s \in SUBSET S : Cardinality(s) = n /\ s \notin G}
<1>1. ASSUME Bad # {} PROVE FALSE
  <2>1. Bad \subseteq Nat
    OBVIOUS
  <2> HIDE DEF Bad
  <2>2. PICK n \in Bad : \A k \in Bad : n <= k
    BY <1>1, <2>1, LeastNumber
  <2> USE DEF Bad
  <2>3. PICK s \in SUBSET S : Cardinality(s) = n /\ s \notin G
    BY <2>2
  <2>4. PICK x \in s : TRUE
    <3>1. s # {}
      BY <2>3
    <3> QED BY <3>1
  <2>5. s \ {x} \in SUBSET S /\ Cardinality(s \ {x}) \in Nat /\ Cardinality(s \ {x}) = n - 1 /\ n \in Nat
    BY <2>3, <2>4, OneLess
  <2>6. s \ {x} \notin G
    BY <2>3, <2>4
  <2>7. n - 1 \in Bad
    BY <2>5, <2>6
  <2> HIDE DEF Bad
  <2>8. n <= n - 1
    BY <2>2, <2>7
  <2> QED
    BY <2>5, <2>8
<1>2. ASSUME NEW s \in SUBSET S, s \notin G PROVE FALSE
  <2>1. Cardinality(s) \in Nat
    BY FS_Subset, FS_CardinalityType
  <2> QED BY <1>1, <1>2, <2>1
<1> QED BY <1>2

\* The sums over the subsets of a finite set.
LEMMA SumOver ==
    ASSUME NEW S, IsFiniteSet(S), NEW f, \A x \in S : f[x] \in Int
    PROVE  \A s \in SUBSET S :
              /\ SumFunctionOnSet(f, s) \in Int
              /\ s = {} => SumFunctionOnSet(f, s) = 0
              /\ \A x \in s : SumFunctionOnSet(f, s) = f[x] + SumFunctionOnSet(f, s \ {x})
<1> TAKE s \in SUBSET S
<1>1. IsFiniteSet(s) /\ \A x \in s : f[x] \in Int
  BY FS_Subset
<1> QED BY <1>1, SumStep

\* The sum of sums.
LEMMA SumsAdd ==
    ASSUME NEW S, IsFiniteSet(S), NEW f, NEW g, NEW h,
           \A x \in S : f[x] \in Int /\ g[x] \in Int /\ h[x] = f[x] + g[x]
    PROVE  SumFunctionOnSet(h, S) = SumFunctionOnSet(f, S) + SumFunctionOnSet(g, S)
<1> DEFINE F(s) == SumFunctionOnSet(f, s)
            K(s) == SumFunctionOnSet(g, s)
            H(s) == SumFunctionOnSet(h, s)
            G == {s \in SUBSET S : H(s) = F(s) + K(s)}
<1>a. \A x \in S : f[x] \in Int
  OBVIOUS
<1>b. \A x \in S : g[x] \in Int
  OBVIOUS
<1>1. \A s \in SUBSET S : F(s) \in Int /\ (s = {} => F(s) = 0) /\ \A x \in s : F(s) = f[x] + F(s \ {x})
  BY ONLY IsFiniteSet(S), <1>a, SumOver
<1>2. \A s \in SUBSET S : K(s) \in Int /\ (s = {} => K(s) = 0) /\ \A x \in s : K(s) = g[x] + K(s \ {x})
  BY ONLY IsFiniteSet(S), <1>b, SumOver
<1>3. \A s \in SUBSET S : H(s) \in Int /\ (s = {} => H(s) = 0) /\ \A x \in s : H(s) = h[x] + H(s \ {x})
  <2>1. \A x \in S : h[x] \in Int
    OBVIOUS
  <2> QED BY <2>1, SumOver
<1> HIDE DEF F, K, H
<1>4. {} \in G
  BY <1>1, <1>2, <1>3
<1>5. ASSUME NEW s \in SUBSET S, NEW x \in s, s \ {x} \in G PROVE s \in G
  <2>1. s \ {x} \in SUBSET S /\ x \in S
    OBVIOUS
  <2>2. /\ F(s) = f[x] + F(s \ {x}) /\ K(s) = g[x] + K(s \ {x}) /\ H(s) = h[x] + H(s \ {x})
        /\ F(s \ {x}) \in Int /\ K(s \ {x}) \in Int /\ f[x] \in Int /\ g[x] \in Int
        /\ h[x] = f[x] + g[x] /\ H(s \ {x}) = F(s \ {x}) + K(s \ {x})
    BY <1>1, <1>2, <1>3, <1>5, <2>1
  <2>3. H(s) = F(s) + K(s)
    BY ONLY <2>2
  <2> QED BY <2>3
<1> HIDE DEF G
<1>6. \A s \in SUBSET S : s # {} /\ (\E x \in s : s \ {x} \in G) => s \in G
  BY <1>5
<1>7. S \in G
  <2>1. \A s \in SUBSET S : s \in G
    BY ONLY <1>4, <1>6, IsFiniteSet(S), MemberByMember
  <2> QED BY <2>1
<1> QED BY <1>7 DEF G, F, K, H

\* Larger terms have a larger sum.
LEMMA SumsOrdered ==
    ASSUME NEW S, IsFiniteSet(S), NEW f, NEW g,
           \A x \in S : f[x] \in Int /\ g[x] \in Int /\ f[x] <= g[x]
    PROVE  SumFunctionOnSet(f, S) <= SumFunctionOnSet(g, S)
<1> DEFINE F(s) == SumFunctionOnSet(f, s)
            K(s) == SumFunctionOnSet(g, s)
            G == {s \in SUBSET S : F(s) <= K(s)}
<1>a. \A x \in S : f[x] \in Int
  OBVIOUS
<1>b. \A x \in S : g[x] \in Int
  OBVIOUS
<1>1. \A s \in SUBSET S : F(s) \in Int /\ (s = {} => F(s) = 0) /\ \A x \in s : F(s) = f[x] + F(s \ {x})
  BY ONLY IsFiniteSet(S), <1>a, SumOver
<1>2. \A s \in SUBSET S : K(s) \in Int /\ (s = {} => K(s) = 0) /\ \A x \in s : K(s) = g[x] + K(s \ {x})
  BY ONLY IsFiniteSet(S), <1>b, SumOver
<1> HIDE DEF F, K
<1>4. {} \in G
  BY <1>1, <1>2
<1>5. ASSUME NEW s \in SUBSET S, NEW x \in s, s \ {x} \in G PROVE s \in G
  <2>1. s \ {x} \in SUBSET S /\ x \in S
    OBVIOUS
  <2>2. /\ F(s) = f[x] + F(s \ {x}) /\ K(s) = g[x] + K(s \ {x})
        /\ F(s \ {x}) \in Int /\ K(s \ {x}) \in Int /\ f[x] \in Int /\ g[x] \in Int
        /\ f[x] <= g[x] /\ F(s \ {x}) <= K(s \ {x})
    BY <1>1, <1>2, <1>5, <2>1
  <2>3. F(s) <= K(s)
    BY ONLY <2>2
  <2> QED BY <2>3
<1> HIDE DEF G
<1>6. \A s \in SUBSET S : s # {} /\ (\E x \in s : s \ {x} \in G) => s \in G
  BY <1>5
<1>7. S \in G
  <2>1. \A s \in SUBSET S : s \in G
    BY ONLY <1>4, <1>6, IsFiniteSet(S), MemberByMember
  <2> QED BY <2>1
<1> QED BY <1>7 DEF G, F, K

\* So many equal terms.
LEMMA SumOfEqual ==
    ASSUME NEW S, IsFiniteSet(S), NEW c \in Int, NEW f, \A x \in S : f[x] = c
    PROVE  SumFunctionOnSet(f, S) = c * Cardinality(S)
<1> DEFINE F(s) == SumFunctionOnSet(f, s)
            G == {s \in SUBSET S : F(s) = c * Cardinality(s)}
<1>1. \A s \in SUBSET S : F(s) \in Int /\ (s = {} => F(s) = 0) /\ \A x \in s : F(s) = f[x] + F(s \ {x})
  BY SumOver
<1> HIDE DEF F
<1>4. {} \in G
  BY <1>1, FS_EmptySet
<1>5. ASSUME NEW s \in SUBSET S, NEW x \in s, s \ {x} \in G PROVE s \in G
  <2>1. s \ {x} \in SUBSET S /\ x \in S /\ Cardinality(s) \in Nat
        /\ Cardinality(s \ {x}) = Cardinality(s) - 1
    BY OneLess
  <2>2. PICK n \in Nat : n = Cardinality(s)
    BY <2>1
  <2>3. F(s) = c + c * (n - 1)
    BY <1>1, <1>5, <2>1, <2>2
  <2>4. c + c * (n - 1) = c * n
    OBVIOUS
  <2> QED BY <2>2, <2>3, <2>4
<1> HIDE DEF G
<1>6. \A s \in SUBSET S : s # {} /\ (\E x \in s : s \ {x} \in G) => s \in G
  BY <1>5
<1>7. S \in G
  <2>1. \A s \in SUBSET S : s \in G
    BY ONLY <1>4, <1>6, IsFiniteSet(S), MemberByMember
  <2> QED BY <2>1
<1> QED BY <1>7 DEF G, F

\* A common factor.
LEMMA SumTimes ==
    ASSUME NEW S, IsFiniteSet(S), NEW c \in Int, NEW e, NEW f,
           \A x \in S : e[x] \in Int /\ f[x] = c * e[x]
    PROVE  SumFunctionOnSet(f, S) = c * SumFunctionOnSet(e, S)
<1> DEFINE F(s) == SumFunctionOnSet(f, s)
            E(s) == SumFunctionOnSet(e, s)
            G == {s \in SUBSET S : F(s) = c * E(s)}
<1>a. \A x \in S : e[x] \in Int
  OBVIOUS
<1>b. \A x \in S : f[x] \in Int
  BY <1>a
<1>1. \A s \in SUBSET S : F(s) \in Int /\ (s = {} => F(s) = 0) /\ \A x \in s : F(s) = f[x] + F(s \ {x})
  BY ONLY IsFiniteSet(S), <1>b, SumOver
<1>2. \A s \in SUBSET S : E(s) \in Int /\ (s = {} => E(s) = 0) /\ \A x \in s : E(s) = e[x] + E(s \ {x})
  BY ONLY IsFiniteSet(S), <1>a, SumOver
<1> HIDE DEF F, E
<1>4. {} \in G
  BY <1>1, <1>2
<1>5. ASSUME NEW s \in SUBSET S, NEW x \in s, s \ {x} \in G PROVE s \in G
  <2>1. s \ {x} \in SUBSET S /\ x \in S
    OBVIOUS
  <2>2. PICK a \in Int, b \in Int : a = e[x] /\ b = E(s \ {x})
    BY <1>2, <1>a, <2>1
  <2>3. F(s) = c * a + c * b /\ E(s) = a + b
    BY <1>1, <1>2, <1>5, <2>1, <2>2
  <2>4. c * a + c * b = c * (a + b)
    OBVIOUS
  <2> QED BY <2>3, <2>4
<1> HIDE DEF G
<1>6. \A s \in SUBSET S : s # {} /\ (\E x \in s : s \ {x} \in G) => s \in G
  BY <1>5
<1>7. S \in G
  <2>1. \A s \in SUBSET S : s \in G
    BY ONLY <1>4, <1>6, IsFiniteSet(S), MemberByMember
  <2> QED BY <2>1
<1> QED BY <1>7 DEF G, F, E

\* How many members two disjoint sets have together.
LEMMA CountTogether ==
    ASSUME NEW S, IsFiniteSet(S), NEW T, IsFiniteSet(T), S \cap T = {}
    PROVE  /\ IsFiniteSet(S \cup T)
           /\ Cardinality(S \cup T) = Cardinality(S) + Cardinality(T)
<1>1. Cardinality(S \cup T) = Cardinality(S) + Cardinality(T) - Cardinality(S \cap T)
  BY FS_Union
<1>2. Cardinality(S \cap T) = 0
  BY FS_EmptySet
<1> QED BY <1>1, <1>2, FS_Union, FS_CardinalityType

\* The members of A that f maps to l, and those that it maps into L.
Fibre(A, f, l) == {i \in A : f[i] = l}
Within(A, f, L) == {i \in A : f[i] \in L}

\* Members counted by what they are mapped to.
LEMMA FibresCount ==
    ASSUME NEW A, IsFiniteSet(A), NEW f, NEW L, IsFiniteSet(L), NEW count,
           \A l \in L : count[l] = Cardinality(Fibre(A, f, l))
    PROVE  SumFunctionOnSet(count, L) = Cardinality(Within(A, f, L))
<1> DEFINE F(s) == SumFunctionOnSet(count, s)
            In(s) == Within(A, f, s)
            Of(l) == Fibre(A, f, l)
            G == {s \in SUBSET L : F(s) = Cardinality(In(s))}
<1>0. \A l \in L : count[l] \in Int
  <2> TAKE l \in L
  <2>1. Of(l) \subseteq A
    BY DEF Fibre
  <2>2. Cardinality(Of(l)) \in Nat
    BY <2>1, FS_Subset, FS_CardinalityType
  <2> QED BY <2>2
<1>1. \A s \in SUBSET L : F(s) \in Int /\ (s = {} => F(s) = 0) /\ \A x \in s : F(s) = count[x] + F(s \ {x})
  BY <1>0, SumOver
<1> HIDE DEF F
<1>4. {} \in G
  <2>1. In({}) = {}
    BY DEF Within
  <2> QED BY <1>1, <2>1, FS_EmptySet
<1>5. ASSUME NEW s \in SUBSET L, NEW x \in s, s \ {x} \in G PROVE s \in G
  <2>1. /\ In(s) = In(s \ {x}) \cup Of(x) /\ In(s \ {x}) \cap Of(x) = {}
        /\ In(s \ {x}) \subseteq A /\ Of(x) \subseteq A
    BY DEF Within, Fibre
  <2> HIDE DEF In, Of
  <2>2. IsFiniteSet(In(s \ {x})) /\ IsFiniteSet(Of(x))
    BY <2>1, FS_Subset
  <2>3. Cardinality(In(s)) = Cardinality(In(s \ {x})) + Cardinality(Of(x))
    BY <2>1, <2>2, CountTogether
  <2>4. F(s) = count[x] + F(s \ {x}) /\ count[x] = Cardinality(Of(x)) /\ count[x] \in Int
        /\ F(s \ {x}) = Cardinality(In(s \ {x})) /\ F(s \ {x}) \in Int
    <3>1. x \in L /\ s \ {x} \in SUBSET L
      OBVIOUS
    <3> QED BY <1>0, <1>1, <1>5, <3>1 DEF Of
  <2>5. F(s) = Cardinality(In(s))
    BY ONLY <2>3, <2>4
  <2> QED BY <2>5
<1> HIDE DEF G
<1>6. \A s \in SUBSET L : s # {} /\ (\E x \in s : s \ {x} \in G) => s \in G
  BY <1>5
<1>7. L \in G
  <2>1. \A s \in SUBSET L : s \in G
    BY ONLY <1>4, <1>6, IsFiniteSet(L), MemberByMember
  <2> QED BY <2>1
<1> QED BY <1>7 DEF G, F, In

\* A set and a part of it.
LEMMA CountOfPart ==
    ASSUME NEW S, IsFiniteSet(S), NEW T \in SUBSET S
    PROVE  /\ IsFiniteSet(T) /\ Cardinality(T) \in Nat /\ Cardinality(S) \in Nat
           /\ Cardinality(T) <= Cardinality(S)
           /\ Cardinality(S \ T) = Cardinality(S) - Cardinality(T)
           /\ Cardinality(T) = Cardinality(S) => T = S
<1>1. IsFiniteSet(T) /\ IsFiniteSet(S \ T)
  BY FS_Subset
<1>2. Cardinality(T \cup (S \ T)) = Cardinality(T) + Cardinality(S \ T)
  BY <1>1, CountTogether
<1>3. T \cup (S \ T) = S
  OBVIOUS
<1>4. Cardinality(T) \in Nat /\ Cardinality(S) \in Nat /\ Cardinality(S \ T) \in Nat
  BY <1>1, FS_CardinalityType
<1>5. Cardinality(S) = Cardinality(T) + Cardinality(S \ T)
  BY <1>2, <1>3
<1>6. Cardinality(S \ T) = 0 => S \ T = {}
  BY <1>1, FS_EmptySet
<1>7. PICK t \in Nat, r \in Nat : t = Cardinality(T) /\ r = Cardinality(S \ T)
  BY <1>4
<1>8. Cardinality(S) = t + r
  BY <1>5, <1>7
<1>9. r = 0 => T = S
  BY <1>6, <1>7
<1> QED BY <1>1, <1>4, <1>7, <1>8, <1>9

\* The larger and the smaller of two numbers.
LEMMA OfTwo ==
    ASSUME NEW a \in Int, NEW b \in Int
    PROVE  /\ Max({a, b}) = IF a < b THEN b ELSE a
           /\ Min({a, b}) = IF a < b THEN a ELSE b
<1> DEFINE m == IF a < b THEN b ELSE a
           l == IF a < b THEN a ELSE b
<1>1. m \in {a, b} /\ \A y \in {a, b} : m >= y
  OBVIOUS
<1>2. \A x \in {a, b} : (\A y \in {a, b} : x >= y) => x = m
  OBVIOUS
<1>3. l \in {a, b} /\ \A y \in {a, b} : l <= y
  OBVIOUS
<1>4. \A x \in {a, b} : (\A y \in {a, b} : x <= y) => x = l
  OBVIOUS
<1> HIDE DEF m, l
<1>5. Max({a, b}) = m
  BY ONLY <1>1, <1>2 DEF Max
<1>6. Min({a, b}) = l
  BY ONLY <1>3, <1>4 DEF Min
<1> QED BY <1>5, <1>6 DEF m, l

\* A finite set of numbers with a member has a largest and a smallest one.
LEMMA Largest ==
    ASSUME NEW S, IsFiniteSet(S), S \subseteq Int, S # {}
    PROVE  /\ Max(S) \in S /\ \A y \in S : Max(S) >= y
           /\ Min(S) \in S /\ \A y \in S : Min(S) <= y
<1> DEFINE G == {s \in SUBSET S : s # {} => /\ \E x \in s : \A y \in s : x >= y
                                            /\ \E x \in s : \A y \in s : x <= y}
<1>1. {} \in G
  OBVIOUS
<1>2. ASSUME NEW s \in SUBSET S, NEW w \in s, s \ {w} \in G PROVE s \in G
  <2>1. CASE s \ {w} = {}
    <3>1. s = {w} /\ w \in Int
      BY <2>1
    <3> QED BY <3>1
  <2>2. CASE s \ {w} # {}
    <3>1. PICK x \in s \ {w}, z \in s \ {w} : \A y \in s \ {w} : x >= y /\ z <= y
      BY <1>2, <2>2
    <3>2. x \in Int /\ w \in Int /\ z \in Int /\ \A y \in s : y \in Int
      OBVIOUS
    <3>3. \E m \in s : \A y \in s : m >= y
      <4>1. CASE w >= x
        BY <3>1, <3>2, <4>1
      <4>2. CASE ~(w >= x)
        BY <3>1, <3>2, <4>2
      <4> QED BY <4>1, <4>2
    <3>4. \E m \in s : \A y \in s : m <= y
      <4>1. CASE w <= z
        BY <3>1, <3>2, <4>1
      <4>2. CASE ~(w <= z)
        BY <3>1, <3>2, <4>2
      <4> QED BY <4>1, <4>2
    <3> QED BY <3>3, <3>4
  <2> QED BY <2>1, <2>2
<1> HIDE DEF G
<1>3. \A s \in SUBSET S : s # {} /\ (\E x \in s : s \ {x} \in G) => s \in G
  BY <1>2
<1>4. S \in G
  <2>1. \A s \in SUBSET S : s \in G
    BY ONLY <1>1, <1>3, IsFiniteSet(S), MemberByMember
  <2> QED BY <2>1
<1> QED BY <1>4 DEF G, Max, Min

\* A sum of noughts and ones counts the ones.
LEMMA CountOfOnes ==
    ASSUME NEW S, IsFiniteSet(S), NEW f, \A x \in S : f[x] \in {0, 1}
    PROVE  SumFunctionOnSet(f, S) = Cardinality(Fibre(S, f, 1))
<1> DEFINE F(s) == SumFunctionOnSet(f, s)
           C(s) == Fibre(s, f, 1)
           G == {s \in SUBSET S : F(s) = Cardinality(C(s))}
<1>0. \A x \in S : f[x] \in Int
  OBVIOUS
<1>1. \A s \in SUBSET S : F(s) \in Int /\ (s = {} => F(s) = 0) /\ \A x \in s : F(s) = f[x] + F(s \ {x})
  BY ONLY IsFiniteSet(S), <1>0, SumOver
<1> HIDE DEF F
<1>2. {} \in G
  <2>1. C({}) = {}
    BY DEF Fibre
  <2> QED BY <1>1, <2>1, FS_EmptySet
<1>3. ASSUME NEW s \in SUBSET S, NEW x \in s, s \ {x} \in G PROVE s \in G
  <2>1. F(s) = f[x] + F(s \ {x}) /\ F(s \ {x}) = Cardinality(C(s \ {x}))
    BY <1>1, <1>3
  <2>2. IsFiniteSet(C(s \ {x})) /\ Cardinality(C(s \ {x})) \in Nat
    <3>1. C(s \ {x}) \subseteq S
      BY DEF Fibre
    <3> QED BY <3>1, FS_Subset, FS_CardinalityType
  <2>3. CASE f[x] = 0
    <3>1. C(s) = C(s \ {x})
      BY <2>3 DEF Fibre
    <3> QED BY <2>1, <2>2, <2>3, <3>1
  <2>4. CASE f[x] = 1
    <3>1. C(s) = C(s \ {x}) \cup {x} /\ x \notin C(s \ {x})
      BY <2>4 DEF Fibre
    <3>2. Cardinality(C(s)) = Cardinality(C(s \ {x})) + 1
      BY <2>2, <3>1, FS_AddElement
    <3> QED BY <2>1, <2>2, <2>4, <3>2
  <2> QED BY <2>3, <2>4
<1> HIDE DEF G
<1>4. \A s \in SUBSET S : s # {} /\ (\E x \in s : s \ {x} \in G) => s \in G
  BY <1>3
<1>5. S \in G
  <2>1. \A s \in SUBSET S : s \in G
    BY ONLY <1>2, <1>4, IsFiniteSet(S), MemberByMember
  <2> QED BY <2>1
<1> QED BY <1>5 DEF G, F

\* It is nought, or one for each, exactly when all of them are.
LEMMA OnesTell ==
    ASSUME NEW S, IsFiniteSet(S), NEW f, \A x \in S : f[x] \in {0, 1}
    PROVE  /\ Cardinality(S) \in Nat
           /\ SumFunctionOnSet(f, S) \in 0 .. Cardinality(S)
           /\ SumFunctionOnSet(f, S) > 0 <=> \E x \in S : f[x] = 1
           /\ SumFunctionOnSet(f, S) < Cardinality(S) <=> \E x \in S : f[x] = 0
<1> DEFINE T == Fibre(S, f, 1)
<1>1. T \in SUBSET S
  BY DEF Fibre
<1>2. \A x \in S : (x \in T <=> f[x] = 1) /\ (x \notin T <=> f[x] = 0)
  BY DEF Fibre
<1>3. SumFunctionOnSet(f, S) = Cardinality(T)
  BY CountOfOnes
<1> HIDE DEF T
<1>4. /\ IsFiniteSet(T) /\ Cardinality(T) \in Nat /\ Cardinality(S) \in Nat
      /\ Cardinality(T) <= Cardinality(S)
      /\ Cardinality(T) = Cardinality(S) => T = S
  BY <1>1, CountOfPart
<1>5. Cardinality(T) = 0 <=> T = {}
  BY <1>4, FS_EmptySet
<1>6. PICK t \in Nat, n \in Nat : t = Cardinality(T) /\ n = Cardinality(S)
  BY <1>4
<1>7. t > 0 <=> T # {}
  BY <1>5, <1>6
<1>8. t < n <=> T # S
  BY <1>4, <1>6
<1>9. T # {} <=> \E x \in S : f[x] = 1
  BY <1>1, <1>2
<1>10. T # S <=> \E x \in S : f[x] = 0
  BY <1>1, <1>2
<1>11. t \in 0 .. n
  BY <1>4, <1>6
<1> QED BY <1>3, <1>6, <1>7, <1>8, <1>9, <1>10, <1>11

\* g goes step by step from base.
Stepwise(g, n, X, base, step) ==
    /\ g \in [0 .. n -> X] /\ g[0] = base
    /\ \A i \in 1 .. n : g[i] = step[<<g[i - 1], i>>]

\* A recursion over the first numbers has a function.
LEMMA StepsExist ==
    ASSUME NEW n \in Nat, NEW X, NEW base \in X, NEW step \in [X \X (1 .. n) -> X]
    PROVE  \E g : Stepwise(g, n, X, base, step)
<1> DEFINE Steps(g, m) == /\ g \in [0 .. m -> X] /\ g[0] = base
                          /\ \A i \in 1 .. m : g[i] = step[<<g[i - 1], i>>]
           T == {m \in 0 .. n : ~ \E g : Steps(g, m)}
<1>1. ASSUME T # {} PROVE FALSE
  <2>1. T \subseteq Nat
    OBVIOUS
  <2> HIDE DEF T
  <2>2. PICK m \in T : \A k \in T : m <= k
    BY <1>1, <2>1, LeastNumber
  <2> USE DEF T
  <2>3. CASE m = 0
    <3>1. Steps([i \in 0 .. 0 |-> base], 0)
      OBVIOUS
    <3> QED BY <2>2, <2>3, <3>1
  <2>4. CASE m # 0
    <3>1. m \in 1 .. n /\ m - 1 \in 0 .. n
      BY <2>2, <2>4
    <3>2. m - 1 \notin T
      <4> HIDE DEF T
      <4> QED BY <2>2, <3>1
    <3>3. PICK g : Steps(g, m - 1)
      BY <3>1, <3>2
    <3> DEFINE h == [i \in 0 .. m |-> IF i = m THEN step[<<g[m - 1], m>>] ELSE g[i]]
    <3>4. step[<<g[m - 1], m>>] \in X
      <4>1. g[m - 1] \in X
        BY <3>1, <3>3
      <4> QED BY <3>1, <4>1
    <3>5. h \in [0 .. m -> X] /\ h[0] = base
      BY <3>1, <3>3, <3>4
    <3>6. ASSUME NEW i \in 1 .. m PROVE h[i] = step[<<h[i - 1], i>>]
      <4>0. /\ m \in Nat /\ i \in 0 .. m /\ i - 1 \in 0 .. m /\ i - 1 # m
            /\ h[i - 1] = g[i - 1]
        BY <3>1
      <4>1. CASE i = m
        <5>1. h[i] = step[<<g[m - 1], m>>]
          BY <4>0, <4>1
        <5> QED BY ONLY <4>0, <4>1, <5>1
      <4>2. CASE i # m
        <5>1. i \in 1 .. m - 1 /\ h[i] = g[i]
          BY <4>0, <4>2
        <5>2. g[i] = step[<<g[i - 1], i>>]
          BY <3>3, <5>1
        <5> QED BY ONLY <4>0, <5>1, <5>2
      <4> QED BY <4>1, <4>2
    <3>7. Steps(h, m)
      <4> HIDE DEF h
      <4> QED BY <3>5, <3>6
    <3> QED BY <2>2, <3>7
  <2> QED BY <2>3, <2>4
<1>2. n \in 0 .. n
  OBVIOUS
<1>3. \E g : Steps(g, n)
  BY <1>1, <1>2
<1>4. PICK g : Steps(g, n)
  BY <1>3
<1>5. Stepwise(g, n, X, base, step)
  BY <1>4 DEF Stepwise
<1> QED BY <1>5

\* A total of naturals is one.
LEMMA SumOfNaturals ==
    ASSUME NEW S, IsFiniteSet(S), NEW f, \A x \in S : f[x] \in Nat
    PROVE  SumFunctionOnSet(f, S) \in Int /\ SumFunctionOnSet(f, S) >= 0
<1> DEFINE zero == [x \in S |-> 0]
<1>1. \A x \in S : zero[x] = 0 /\ zero[x] \in Int /\ f[x] \in Int /\ zero[x] <= f[x]
  OBVIOUS
<1> HIDE DEF zero
<1>2. SumFunctionOnSet(zero, S) = 0 * Cardinality(S)
  BY <1>1, SumOfEqual
<1>3. SumFunctionOnSet(zero, S) <= SumFunctionOnSet(f, S)
  BY <1>1, SumsOrdered
<1>4. SumFunctionOnSet(f, S) \in Int /\ Cardinality(S) \in Nat
  BY <1>1, SumStep, FS_CardinalityType
<1> QED BY <1>2, <1>3, <1>4
-----------------------------------------------------------------------------
\* What the store holds of a run: results of planned attempts, as the suite of
\* the run scores them.
RunWhole(run) ==
    /\ DOMAIN run = {"config", "results"}
    /\ run.config \in Plan.configs
    /\ DOMAIN run.results \subseteq Planned
    /\ \A k \in DOMAIN run.results :
        \E a \in Plan.attempts : run.results[k] = ResultOf(Suites[run.config.suite], a)

\* Every run in the database is planned, and holds whole results.
RunsWhole ==
    /\ study \in Studies
    /\ db = [r \in Recorded |-> db[r]] /\ Recorded \subseteq Plan.runs
    /\ \A r \in Recorded : RunWhole(db[r])

\* A header without results is a run.
LEMMA StartRunWhole ==
  ASSUME RunsWhole, NEW r \in Plan.runs, NEW config \in Plan.configs, StartRun(r, config)
  PROVE  RunsWhole'
<1> DEFINE started == [config |-> config, results |-> <<>>]
<1>1. DOMAIN started = {"config", "results"} /\ started.config = config /\ DOMAIN started.results = {}
  OBVIOUS
<1>2. RunWhole(started)
  <2> HIDE DEF started
  <2> QED
    BY <1>1 DEF RunWhole
<1>3. /\ db' = [s \in DOMAIN db \cup {r} |-> IF s = r THEN started ELSE db[s]]
      /\ study' = study
  BY DEF StartRun
<1> HIDE DEF started
<1>4. /\ DOMAIN db' = DOMAIN db \cup {r}
      /\ \A s \in DOMAIN db' : (db'[s] = started) \/ (s \in DOMAIN db /\ db'[s] = db[s])
  BY <1>3
<1>5. \A run : RunWhole(run) => RunWhole(run)'
  BY <1>3 DEF RunWhole, Plan, Planned, ResultOf
<1>6. \A s \in DOMAIN db' : RunWhole(db'[s])
  BY <1>2, <1>4 DEF RunsWhole, Recorded
<1>7. ASSUME NEW s \in DOMAIN db' PROVE RunWhole(db[s])'
  <2>1. RunWhole(db'[s])
    BY <1>6
  <2> QED
    BY <2>1, <1>3 DEF RunWhole, Plan, Planned, ResultOf
<1>8. db' = [s \in DOMAIN db' |-> db'[s]]
  BY <1>3
<1>9. (study \in Studies)' /\ (Recorded \subseteq Plan.runs)'
  BY <1>3, <1>4 DEF RunsWhole, Recorded, Plan
<1> QED
  BY <1>7, <1>8, <1>9 DEF RunsWhole, Recorded

\* persist adds one result, and leaves the others of the run and the other runs
\* alone.
LEMMA RecordResultWhole ==
  ASSUME RunsWhole, NEW r \in Plan.runs, NEW k \in Plan.cases \X (1 .. Plan.samples),
         NEW a \in Plan.attempts, RecordResult(r, k, a)
  PROVE  RunsWhole'
<1> DEFINE result == ResultOf(Suites[db[r].config.suite], a)
           new == [db[r] EXCEPT !.results =
                      [j \in DOMAIN @ \cup {k} |-> IF j = k THEN result ELSE @[j]]]
<1>1. r \in DOMAIN db /\ db' = [db EXCEPT ![r] = new] /\ study' = study
  BY DEF RecordResult
<1>2. RunWhole(db[r])
  BY <1>1 DEF RunsWhole, Recorded
<1>3. /\ DOMAIN new = {"config", "results"} /\ new.config = db[r].config
      /\ DOMAIN new.results = DOMAIN db[r].results \cup {k}
      /\ \A j \in DOMAIN new.results : new.results[j] = IF j = k THEN result ELSE db[r].results[j]
  BY <1>2 DEF RunWhole
<1>4. RunWhole(new)
  <2> HIDE DEF new
  <2> QED
    BY <1>2, <1>3 DEF RunWhole, Planned
<1> HIDE DEF new
<1>5. ASSUME NEW s \in DOMAIN db' PROVE RunWhole(db[s])'
  <2>1. RunWhole(db'[s])
    BY <1>1, <1>4 DEF RunsWhole, Recorded
  <2> QED
    BY <2>1, <1>1 DEF RunWhole, Plan, Planned, ResultOf
<1>6. db' = [s \in DOMAIN db' |-> db'[s]]
  BY <1>1
<1>7. (study \in Studies)' /\ (Recorded \subseteq Plan.runs)'
  BY <1>1 DEF RunsWhole, Recorded, Plan
<1> QED
  BY <1>5, <1>6, <1>7 DEF RunsWhole, Recorded

\* What leaves the database alone leaves the runs whole.
LEMMA SameRuns ==
  ASSUME RunsWhole, study' = study, db' = db
  PROVE  RunsWhole'
<1>1. ASSUME NEW s \in DOMAIN db' PROVE RunWhole(db[s])'
  <2>1. RunWhole(db'[s])
    BY DEF RunsWhole, Recorded
  <2> QED
    BY <2>1 DEF RunWhole, Plan, Planned, ResultOf
<1>2. db' = [s \in DOMAIN db' |-> db'[s]]
  BY DEF RunsWhole, Recorded
<1>3. (study \in Studies)' /\ (Recorded \subseteq Plan.runs)'
  BY DEF RunsWhole, Recorded, Plan
<1> QED
  BY <1>1, <1>2, <1>3 DEF RunsWhole, Recorded

\* The database starts empty.
LEMMA InitRuns == Init => RunsWhole
<1>1. Init => study \in Studies /\ db = <<>> /\ DOMAIN <<>> = {}
  BY DEF Init
<1>2. <<>> = [r \in {} |-> <<>>[r]]
  OBVIOUS
<1> QED BY <1>1, <1>2 DEF RunsWhole, Recorded

\* What an attempt may turn out to be is planned.
LEMMA OutcomesPlanned ==
  ASSUME RunsWhole, NEW r \in Plan.runs, NEW k \in Plan.cases \X (1 .. Plan.samples)
  PROVE  Plan.outcomes[<<r, k>>] \in SUBSET Plan.attempts
<1>1. /\ Plan.outcomes \in
            [Plan.runs \X (Plan.cases \X (1 .. Plan.samples)) -> SUBSET Plan.attempts]
  BY OutcomesAssumption DEF RunsWhole, Plan
<1>2. <<r, k>> \in Plan.runs \X (Plan.cases \X (1 .. Plan.samples))
  OBVIOUS
<1> QED BY <1>1, <1>2

\* Every step keeps the runs whole.
LEMMA NextRuns == RunsWhole /\ [Next]_vars => RunsWhole'
<1> SUFFICES ASSUME RunsWhole, [Next]_vars PROVE RunsWhole'
  OBVIOUS
<1>1. CASE \E r \in Plan.runs, config \in Plan.configs : StartRun(r, config)
  BY <1>1, StartRunWhole
<1>2. CASE \E r \in Plan.runs, k \in Plan.cases \X (1 .. Plan.samples) :
            \E a \in Plan.outcomes[<<r, k>>] : RecordResult(r, k, a)
  BY <1>2, OutcomesPlanned, RecordResultWhole
<1>3. CASE \E r \in Plan.runs, k \in Plan.cases \X (1 .. Plan.samples) : RefuseResult(r, k)
  BY <1>3, SameRuns DEF RefuseResult
<1>4. CASE \/ \E es \in EventGroups : RecordEvents(es)
           \/ \E h \in HumanLabels, j \in JudgeLabels : RecordVerdict(h, j)
           \/ \E f, s \in Preferences, own \in BOOLEAN : RecordPair(f, s, own)
           \/ UNCHANGED <<study, records>>
           \/ UNCHANGED vars
  BY <1>4, SameRuns DEF RecordEvents, RecordVerdict, RecordPair, records, vars
<1> QED
  BY <1>1, <1>2, <1>3, <1>4 DEF Next

-----------------------------------------------------------------------------
\* The plan of a behaviour is one that PlansAssumption speaks of.
LEMMA PlanFinite ==
  ASSUME RunsWhole
  PROVE  /\ IsFiniteSet(Plan.runs) /\ IsFiniteSet(Plan.cases)
         /\ Plan.samples \in Nat
         /\ IsFiniteSet(Planned)
<1>1. study \in Studies
  BY DEF RunsWhole
<1>2. IsFiniteSet(Plan.runs) /\ IsFiniteSet(Plan.cases) /\ Plan.samples \in Nat
  BY <1>1, PlansAssumption DEF Plan
<1>3. IsFiniteSet(1 .. Plan.samples)
  <2>1. PICK n \in Nat : n = Plan.samples
    BY <1>2
  <2>2. 1 \in Int /\ n \in Int
    OBVIOUS
  <2>3. IsFiniteSet(1 .. n)
    BY ONLY <2>2, FS_Interval
  <2> QED
    BY <2>1, <2>3
<1> QED
  BY <1>2, <1>3, FS_Product DEF Planned

\* The fields of an EvaluatorResult.
LEMMA ScoredFields ==
  ASSUME NEW score, NEW passed, NEW details
  PROVE  /\ Scored(score, passed, details).score = score
         /\ Scored(score, passed, details).passed = passed
         /\ \A field \in DOMAIN details \ {"score", "passed"} :
                Scored(score, passed, details)[field] = details[field]
  BY DEF Scored

\* What a result says of the attempt that it is of.
LEMMA ResultTells ==
  ASSUME NEW run, RunWhole(run), NEW k \in DOMAIN run.results
  PROVE  LET a == RealOf(run.results[k])
             suite == Suites[run.config.suite]
         IN /\ a \in Plan.attempts
            /\ run.results[k].status = a.status
            /\ run.results[k].tokens = a.tokens /\ run.results[k].duration = a.seconds
            /\ a.status = "completed" =>
                    run.results[k].evaluators = Evaluate(suite, a)
            /\ a.status # "completed" => DOMAIN run.results[k].evaluators = {} /\ ~run.results[k].passed
            /\ run.results[k].passed => a.status = "completed"
<1>1. PICK a \in Plan.attempts : run.results[k] = ResultOf(Suites[run.config.suite], a)
  BY DEF RunWhole
<1>2. RealOf(run.results[k]) = a
  BY <1>1 DEF RealOf, ResultOf
<1>3. CASE a.status = "completed"
  BY <1>1, <1>2, <1>3 DEF ResultOf
<1>4. CASE a.status # "completed"
  <2> DEFINE none == [name \in {} |-> 0]
  <2>1. /\ run.results[k].evaluators = none
    BY <1>1, <1>4 DEF ResultOf
  <2>3. /\ ~run.results[k].passed
        /\ run.results[k].status = a.status
        /\ run.results[k].tokens = a.tokens /\ run.results[k].duration = a.seconds
    <3> DEFINE es == IF a.status = "completed" THEN Evaluate(Suites[run.config.suite], a) ELSE none
               passed == a.status = "completed" /\ Verdict(Suites[run.config.suite], es)
    <3>1. run.results[k] = [status |-> a.status, passed |-> passed, evaluators |-> es,
                            tokens |-> a.tokens, duration |-> a.seconds, attempt |-> a]
      BY <1>1 DEF ResultOf
    <3>2. ~passed
      BY <1>4
    <3> HIDE DEF es, passed
    <3> QED
      BY <3>1, <3>2
  <2>2. DOMAIN none = {}
    OBVIOUS
  <2> QED
    BY <1>1, <1>2, <1>4, <2>1, <2>2, <2>3
<1> QED
  BY <1>3, <1>4

\* Weighing by at least zero keeps the order.
LEMMA AtLeastTimes ==
  ASSUME NEW m \in Nat, NEW a \in Int, NEW b \in Int, a >= b
  PROVE  m * a >= m * b
<1>1. m * (a - b) >= 0
  BY Z3
<1>2. m * a = m * b + m * (a - b)
  OBVIOUS
<1>3. m * a \in Int /\ m * b \in Int /\ m * (a - b) \in Int
  OBVIOUS
<1> QED
  BY <1>1, <1>2, <1>3

\* What `gate` saying ok means for one run: GateCommand counts the completed
\* attempts, their success and their safety results, and the faults are the rest.
LEMMA GateTells ==
  ASSUME RunsWhole, NEW r \in Recorded, Kept(r), GateCommand(db, r) = "ok"
  PROVE  LET Real(k) == RealOf(db[r].results[k])
             good == {k \in Planned : db[r].results[k].passed}
             breached == {k \in Planned : Real(k).status = "completed" /\ Findings(Real(k).trace) # {}}
             judged == Cardinality(Planned) - Limits.max_infra
         IN /\ 100 * Cardinality(good) >= Limits.min_success * judged
            /\ "safety" \in Suites[db[r].config.suite].evaluators =>
                Cardinality(breached) <= Limits.max_unsafe
<1> DEFINE run == db[r]
           done == Completed(run)
           good == {k \in Planned : run.results[k].passed}
           passed == PassedOf(run, done)
           faults == HarnessFaults(run)
           unsafe == Unsafe(run)
           breached == {k \in Planned : RealOf(run.results[k]).status = "completed"
                                        /\ Findings(RealOf(run.results[k]).trace) # {}}
<1>1. RunWhole(run) /\ DOMAIN run.results = Planned /\ IsFiniteSet(Planned)
  BY PlanFinite DEF RunsWhole, Kept
<1>2. r \in DOMAIN db
  BY DEF Recorded
<1>3. /\ 100 * SuccessRate(run)[1] >= Limits.min_success * SuccessRate(run)[2]
      /\ Cardinality(unsafe) <= Limits.max_unsafe
      /\ Cardinality(faults) <= Limits.max_infra
      /\ done # {}
  BY <1>2 DEF GateCommand, WithRun
<1>4. SuccessRate(run) = <<Cardinality(passed), Cardinality(done)>>
  BY <1>3 DEF SuccessRate
<1>5. /\ done \subseteq Planned /\ faults = Planned \ done
      /\ passed \subseteq good /\ good \subseteq Planned /\ unsafe \subseteq Planned
  BY <1>1 DEF Completed, HarnessFaults, PassedOf, Unsafe
<1> HIDE DEF run, done, good, passed, faults, unsafe, breached
<1>6. /\ IsFiniteSet(done) /\ IsFiniteSet(good) /\ IsFiniteSet(passed) /\ IsFiniteSet(unsafe)
      /\ Cardinality(passed) <= Cardinality(good)
      /\ Cardinality(faults) = Cardinality(Planned) - Cardinality(done)
  <2>1. /\ IsFiniteSet(done) /\ IsFiniteSet(good) /\ IsFiniteSet(unsafe)
    BY <1>1, <1>5, FS_Subset
  <2>2. IsFiniteSet(passed) /\ Cardinality(passed) <= Cardinality(good)
    BY <2>1, <1>5, FS_Subset
  <2>3. Cardinality(faults) = Cardinality(Planned) - Cardinality(done)
    <3>1. Cardinality(Planned \ done) = Cardinality(Planned) - Cardinality(Planned \cap done)
      BY <1>1, <2>1, FS_Difference
    <3>2. Planned \cap done = done
      BY <1>5
    <3> QED
      BY <3>1, <3>2, <1>5
  <2> QED
    BY <2>1, <2>2, <2>3
<1>7. /\ Cardinality(passed) \in Nat /\ Cardinality(good) \in Nat /\ Cardinality(done) \in Nat
      /\ Cardinality(Planned) \in Nat
  BY <1>1, <1>6, FS_CardinalityType
<1>8. 100 * Cardinality(good) >= Limits.min_success * (Cardinality(Planned) - Limits.max_infra)
  <2>1. PICK p \in Nat, g \in Nat, d \in Nat, n \in Nat :
            p = Cardinality(passed) /\ g = Cardinality(good) /\ d = Cardinality(done)
            /\ n = Cardinality(Planned)
    BY <1>7
  <2>2. PICK m \in Nat, i \in Int : m = Limits.min_success /\ i = Limits.max_infra
    BY LimitsAssumption
  <2>3. 100 * p >= m * d /\ p <= g /\ n - d <= i
    BY <1>3, <1>4, <1>6, <2>1, <2>2
  <2>4. m * d >= m * (n - i)
    BY <2>3, AtLeastTimes
  <2>5. m * d \in Int /\ m * (n - i) \in Int
    OBVIOUS
  <2>6. 100 * g >= m * (n - i)
    BY <2>3, <2>4, <2>5
  <2> QED
    BY <2>1, <2>2, <2>6
<1>9. "safety" \in Suites[run.config.suite].evaluators => Cardinality(breached) <= Limits.max_unsafe
  <2> SUFFICES ASSUME "safety" \in Suites[run.config.suite].evaluators
               PROVE  Cardinality(breached) <= Limits.max_unsafe
    OBVIOUS
  <2>1. ASSUME NEW k \in breached PROVE k \in unsafe
    <3>1. k \in DOMAIN run.results
      BY <1>1 DEF breached
    <3>2. PICK a : a = RealOf(run.results[k])
      OBVIOUS
    <3>3. /\ a.status = "completed" /\ Findings(a.trace) # {}
          /\ run.results[k].status = a.status
          /\ run.results[k].evaluators = Evaluate(Suites[run.config.suite], a)
      BY <1>1, <3>1, <3>2, ResultTells DEF breached
    <3>4. /\ "safety" \in DOMAIN run.results[k].evaluators
          /\ run.results[k].evaluators["safety"] = Safety(a.trace)
      BY <3>3 DEF Evaluate
    <3>5. ~Safety(a.trace).passed
      <4>1. Safety(a.trace).passed = (Findings(a.trace) = {})
        BY ScoredFields DEF Safety
      <4> QED
        BY <4>1, <3>3
    <3> QED
      BY <3>1, <3>3, <3>4, <3>5 DEF unsafe, Unsafe, Completed
  <2>2. Cardinality(breached) <= Cardinality(unsafe) /\ IsFiniteSet(breached)
    BY <2>1, <1>6, FS_Subset
  <2>3. Cardinality(breached) \in Nat /\ Cardinality(unsafe) \in Nat
    BY <2>2, <1>6, FS_CardinalityType
  <2> QED
    BY <2>2, <2>3, <1>3, LimitsAssumption
<1> QED
  BY <1>8, <1>9 DEF good, run, breached

\* The same of every run.
LEMMA RunsGateMeans == RunsWhole => GateMeans
  BY GateTells DEF GateMeans
-----------------------------------------------------------------------------
\* A finite set of one member less than another still is one: what holds of a
\* set because it holds of the set without a suitable member.
LEMMA LargestLast ==
    ASSUME NEW S, IsFiniteSet(S), NEW G, {} \in G,
           \A s \in SUBSET S : s # {} /\ (\A x \in s : s \ {x} \in G) => s \in G
    PROVE  \A s \in SUBSET S : s \in G
<1> DEFINE Bad == {n \in Nat : \E s \in SUBSET S : Cardinality(s) = n /\ s \notin G}
<1>1. ASSUME Bad # {} PROVE FALSE
  <2>1. Bad \subseteq Nat
    OBVIOUS
  <2> HIDE DEF Bad
  <2>2. PICK n \in Bad : \A k \in Bad : n <= k
    BY <1>1, <2>1, LeastNumber
  <2> USE DEF Bad
  <2>3. PICK s \in SUBSET S : Cardinality(s) = n /\ s \notin G
    BY <2>2
  <2>4. PICK x \in s : s \ {x} \notin G
    <3>1. s # {}
      BY <2>3
    <3> QED BY <2>3, <3>1
  <2>5. s \ {x} \in SUBSET S /\ Cardinality(s \ {x}) \in Nat /\ Cardinality(s \ {x}) = n - 1 /\ n \in Nat
    BY <2>3, <2>4, OneLess
  <2>7. n - 1 \in Bad
    BY <2>4, <2>5
  <2> HIDE DEF Bad
  <2>8. n <= n - 1
    BY <2>2, <2>7
  <2> QED
    BY <2>5, <2>8
<1>2. ASSUME NEW s \in SUBSET S, s \notin G PROVE FALSE
  <2>1. Cardinality(s) \in Nat
    BY FS_Subset, FS_CardinalityType
  <2> QED BY <1>1, <1>2, <2>1
<1> QED BY <1>2

\* A strict order of all members of S, as a set of pairs.
Ordering(S, before) ==
    /\ \A x \in S : <<x, x>> \notin before
    /\ \A x, y \in S : x # y => <<x, y>> \in before \/ <<y, x>> \in before
    /\ \A x, y, z \in S : <<x, y>> \in before /\ <<y, z>> \in before => <<x, z>> \in before

\* It has a last member.
LEMMA LastInOrder ==
    ASSUME NEW S, IsFiniteSet(S), NEW before, Ordering(S, before), S # {}
    PROVE  \E x \in S : \A y \in S : y # x => <<y, x>> \in before
<1> DEFINE G == {s \in SUBSET S : s # {} => \E x \in s : \A y \in s : y # x => <<y, x>> \in before}
<1>1. {} \in G
  OBVIOUS
<1>2. ASSUME NEW s \in SUBSET S, s # {}, NEW w \in s, s \ {w} \in G PROVE s \in G
  <2>1. CASE s \ {w} = {}
    <3>1. s = {w}
      BY <1>2, <2>1
    <3> QED BY <3>1
  <2>2. CASE s \ {w} # {}
    <3>1. PICK x \in s \ {w} : \A y \in s \ {w} : y # x => <<y, x>> \in before
      BY <1>2, <2>2
    <3>2. CASE <<w, x>> \in before
      BY <3>1, <3>2
    <3>3. CASE <<x, w>> \in before
      <4>1. ASSUME NEW y \in s, y # w PROVE <<y, w>> \in before
        <5>1. CASE y = x
          BY <3>3, <5>1
        <5>2. CASE y # x
          <6>1. <<y, x>> \in before
            BY <3>1, <4>1, <5>2
          <6> QED BY <3>3, <6>1 DEF Ordering
        <5> QED BY <5>1, <5>2
      <4> QED BY <4>1
    <3> QED BY <3>1, <3>2, <3>3 DEF Ordering
  <2> QED BY <2>1, <2>2
<1> HIDE DEF G
<1>3. \A s \in SUBSET S : s # {} /\ (\E x \in s : s \ {x} \in G) => s \in G
  BY <1>2
<1>4. S \in G
  <2>1. \A s \in SUBSET S : s \in G
    BY ONLY <1>1, <1>3, IsFiniteSet(S), MemberByMember
  <2> QED BY <2>1
<1> QED BY <1>4 DEF G

\* s lists the members of S one by one, each before those that follow it.
Listed(s, S, before) ==
    /\ s \in [1 .. Cardinality(S) -> S]
    /\ \A x \in S : \E i \in 1 .. Cardinality(S) : s[i] = x
    /\ \A i, j \in 1 .. Cardinality(S) : i # j => s[i] # s[j]
    /\ \A i, j \in 1 .. Cardinality(S) : i < j => <<s[i], s[j]>> \in before

\* Every finite set can be listed in order: its last member goes last.
LEMMA CanBeListed ==
    ASSUME NEW S, IsFiniteSet(S), NEW before, Ordering(S, before)
    PROVE  \E s : Listed(s, S, before)
<1> DEFINE G == {p \in SUBSET S : \E s : Listed(s, p, before)}
<1>1. {} \in G
  <2>1. Cardinality({}) = 0
    BY FS_EmptySet
  <2>2. Listed([i \in 1 .. 0 |-> 0], {}, before)
    BY <2>1 DEF Listed
  <2> QED BY <2>2
<1>2. ASSUME NEW p \in SUBSET S, p # {}, \A x \in p : p \ {x} \in G PROVE p \in G
  <2>1. IsFiniteSet(p) /\ Ordering(p, before)
    BY FS_Subset DEF Ordering
  <2>2. PICK x \in p : \A y \in p : y # x => <<y, x>> \in before
    BY <1>2, <2>1, LastInOrder
  <2>3. PICK s : Listed(s, p \ {x}, before)
    BY <1>2
  <2>4. PICK n \in Nat : n = Cardinality(p) /\ n > 0 /\ Cardinality(p \ {x}) = n - 1
    <3>1. Cardinality(p) \in Nat /\ Cardinality(p \ {x}) = Cardinality(p) - 1 /\ Cardinality(p \ {x}) \in Nat
      BY OneLess
    <3> QED BY <3>1
  <2> DEFINE t == [i \in 1 .. n |-> IF i = n THEN x ELSE s[i]]
  <2>5. /\ s \in [1 .. n - 1 -> p \ {x}]
        /\ \A y \in p \ {x} : \E i \in 1 .. n - 1 : s[i] = y
        /\ \A i, j \in 1 .. n - 1 : i # j => s[i] # s[j]
        /\ \A i, j \in 1 .. n - 1 : i < j => <<s[i], s[j]>> \in before
    BY <2>3, <2>4 DEF Listed
  <2>6. \A i \in 1 .. n : IF i = n THEN t[i] = x
                          ELSE i \in 1 .. n - 1 /\ t[i] = s[i] /\ s[i] \in p \ {x}
    BY <2>5
  <2>7. t \in [1 .. n -> p]
    BY <2>6
  <2> HIDE DEF t
  <2>8. ASSUME NEW y \in p PROVE \E i \in 1 .. n : t[i] = y
    <3>1. CASE y = x
      BY <2>4, <2>6, <3>1
    <3>2. CASE y # x
      <4>1. PICK i \in 1 .. n - 1 : s[i] = y
        BY <2>5, <3>2
      <4>2. i \in 1 .. n /\ i # n
        BY <4>1
      <4> QED BY <2>6, <4>1, <4>2
    <3> QED BY <3>1, <3>2
  <2>9. \A i, j \in 1 .. n : i # j => t[i] # t[j]
    BY <2>5, <2>6
  <2>10. ASSUME NEW i \in 1 .. n, NEW j \in 1 .. n, i < j PROVE <<t[i], t[j]>> \in before
    <3>1. i # n /\ i \in 1 .. n - 1
      BY <2>10
    <3>2. CASE j = n
      BY <2>2, <2>6, <3>1, <3>2
    <3>3. CASE j # n
      BY <2>5, <2>6, <2>10, <3>1, <3>3
    <3> QED BY <3>2, <3>3
  <2>11. Listed(t, p, before)
    BY <2>4, <2>7, <2>8, <2>9, <2>10 DEF Listed
  <2> QED BY <2>11
<1> HIDE DEF G
<1>3. \A p \in SUBSET S : p # {} /\ (\A x \in p : p \ {x} \in G) => p \in G
  BY <1>2
<1>4. S \in G
  <2>1. \A p \in SUBSET S : p \in G
    BY ONLY <1>1, <1>3, IsFiniteSet(S), LargestLast
  <2> QED BY <2>1
<1> QED BY <1>4 DEF G

\* As many members are before one as its place in the list says.
LEMMA PlaceInList ==
    ASSUME NEW S, NEW before, Ordering(S, before), NEW s, Listed(s, S, before),
           Cardinality(S) \in Nat, NEW i \in 1 .. Cardinality(S)
    PROVE  Cardinality({y \in S : <<y, s[i]>> \in before}) = i - 1
<1> DEFINE n == Cardinality(S)
           A == {y \in S : <<y, s[i]>> \in before}
           f == [j \in 1 .. i - 1 |-> s[j]]
<1>1. /\ s \in [1 .. n -> S] /\ \A x \in S : \E j \in 1 .. n : s[j] = x
      /\ \A j, k \in 1 .. n : j # k => s[j] # s[k]
      /\ \A j, k \in 1 .. n : j < k => <<s[j], s[k]>> \in before
      /\ n \in Nat /\ i \in 1 .. n
  BY DEF Listed
<1>2. ASSUME NEW j \in 1 .. n, <<s[j], s[i]>> \in before PROVE j \in 1 .. i - 1
  <2>1. s[i] \in S /\ s[j] \in S
    BY <1>1
  <2>2. j # i
    BY <1>2, <2>1 DEF Ordering
  <2>3. ~(i < j)
    <3>1. ASSUME i < j PROVE FALSE
      <4>1. <<s[i], s[j]>> \in before
        BY <1>1, <3>1
      <4>2. <<s[i], s[i]>> \in before
        BY <1>2, <2>1, <4>1 DEF Ordering
      <4> QED BY <2>1, <4>2 DEF Ordering
    <3> QED BY <3>1
  <2> QED BY <1>1, <2>2, <2>3
<1> HIDE DEF n
<1>3. \A j \in 1 .. i - 1 : j \in 1 .. n /\ f[j] = s[j] /\ s[j] \in A
  BY <1>1
<1>4. \A y \in A : \E j \in 1 .. i - 1 : f[j] = y
  <2> TAKE y \in A
  <2>1. PICK j \in 1 .. n : s[j] = y
    BY <1>1
  <2>2. j \in 1 .. i - 1
    BY <1>2, <2>1
  <2> QED BY <1>3, <2>1, <2>2
<1>5. f \in [1 .. i - 1 -> A] /\ \A j, k \in 1 .. i - 1 : j # k => f[j] # f[k]
  BY <1>1, <1>3
<1> HIDE DEF A, f
<1>6. f \in Bijection(1 .. i - 1, A)
  BY <1>4, <1>5 DEF Bijection, Injection, Surjection, IsInjective
<1>7. IsFiniteSet(1 .. i - 1) /\ Cardinality(1 .. i - 1) = i - 1
  <2>1. PICK m \in Nat : m = i - 1
    BY <1>1
  <2>2. IsFiniteSet(1 .. m) /\ Cardinality(1 .. m) = m
    <3>1. 1 \in Int /\ m \in Int /\ (IF 1 > m THEN 0 ELSE m - 1 + 1) = m
      OBVIOUS
    <3> QED BY ONLY <3>1, FS_Interval
  <2> QED BY <2>1, <2>2
<1>8. Cardinality(A) = i - 1
  BY <1>6, <1>7, FS_Bijection DEF ExistsBijection
<1> QED BY <1>8 DEF A

\* InOrder lists a set in order.
LEMMA InOrderLists ==
    ASSUME NEW S, IsFiniteSet(S), NEW before, Ordering(S, before)
    PROVE  /\ Listed(InOrder(S, before), S, before)
           /\ InOrder(S, before) \in Seq(S)
           /\ Len(InOrder(S, before)) = Cardinality(S)
           /\ Cardinality(S) \in Nat
<1>1. Cardinality(S) \in Nat
  BY FS_CardinalityType
<1>2. PICK n \in Nat : n = Cardinality(S)
  BY <1>1
<1>3. PICK s : Listed(s, S, before)
  BY CanBeListed
<1> DEFINE Ahead(x) == Cardinality({y \in S : <<y, x>> \in before})
           t == [i \in 1 .. n |-> CHOOSE x \in S : Ahead(x) = i - 1]
<1>4. s \in [1 .. n -> S] /\ \A x \in S : \E i \in 1 .. n : s[i] = x
  BY <1>2, <1>3 DEF Listed
<1>5. \A i \in 1 .. n : Ahead(s[i]) = i - 1
  BY <1>1, <1>2, <1>3, PlaceInList
<1> HIDE DEF Ahead
<1>6. ASSUME NEW i \in 1 .. n PROVE t[i] = s[i]
  <2>1. s[i] \in S /\ Ahead(s[i]) = i - 1
    BY <1>4, <1>5
  <2>2. ASSUME NEW x \in S, Ahead(x) = i - 1 PROVE x = s[i]
    <3>1. PICK j \in 1 .. n : s[j] = x
      BY <1>4
    <3>2. j - 1 = i - 1
      BY <1>5, <2>2, <3>1
    <3>3. j = i
      BY <3>2
    <3> QED BY <3>1, <3>3
  <2>3. (CHOOSE x \in S : Ahead(x) = i - 1) = s[i]
    BY <2>1, <2>2
  <2> QED BY <2>3
<1>7. t = s
  BY <1>4, <1>6
<1>8. InOrder(S, before) = t
  BY <1>2 DEF InOrder, Ahead
<1>9. s \in Seq(S) /\ Len(s) = n
  BY <1>4
<1> HIDE DEF t
<1> QED BY <1>1, <1>2, <1>3, <1>7, <1>8, <1>9
-----------------------------------------------------------------------------
\* The attempts at a case that a run completed.
DoneOf(run, c) == {k \in Completed(run) : k[1] = c}

\* What the tally of a case counts, and how large it can be.
LEMMA TallyTells ==
    ASSUME RunsWhole, NEW r \in Recorded, NEW c
    PROVE  LET t == Tally(db[r], c)
           IN /\ IsFiniteSet(Completed(db[r])) /\ Completed(db[r]) \subseteq Planned
              /\ IsFiniteSet(DoneOf(db[r], c))
              /\ t.passed = Cardinality(PassedOf(db[r], DoneOf(db[r], c)))
              /\ t.total = Cardinality(DoneOf(db[r], c))
              /\ t.passed \in Nat /\ t.total \in Nat /\ t.passed <= t.total
              /\ t.total <= Plan.samples /\ t.total <= MaxSamples
              /\ c \in Tallied(db[r]) <=> t.total > 0
<1> DEFINE run == db[r]
           done == DoneOf(run, c)
           good == PassedOf(run, done)
           t == Tally(run, c)
<1>1. RunWhole(run) /\ study \in Studies /\ IsFiniteSet(Planned) /\ Plan.samples \in Nat
  BY PlanFinite DEF RunsWhole
<1>2. Completed(run) \subseteq Planned
  BY <1>1 DEF RunWhole, Completed
<1>3. IsFiniteSet(Completed(run))
  BY <1>1, <1>2, FS_Subset
<1>4. t = [passed |-> Cardinality(good), total |-> Cardinality(done)]
  BY DEF Tally, DoneOf
<1>5. good \in SUBSET done /\ done \in SUBSET Completed(run)
  BY DEF PassedOf, DoneOf
<1>6. c \in Tallied(run) <=> done # {}
  BY DEF Tallied, DoneOf
<1>7. done \subseteq {c} \X (1 .. Plan.samples)
  <2>1. done \subseteq Planned /\ \A k \in done : k[1] = c
    BY <1>2 DEF DoneOf
  <2> QED BY <2>1 DEF Planned
<1> HIDE DEF t, done, good, run
<1>8. IsFiniteSet(done)
  BY <1>3, <1>5, FS_Subset
<1>9. Cardinality(good) \in Nat /\ Cardinality(done) \in Nat /\ Cardinality(good) <= Cardinality(done)
  BY <1>5, <1>8, CountOfPart
<1>10. Cardinality(done) <= Plan.samples
  <2>1. IsFiniteSet({c}) /\ Cardinality({c}) = 1
    BY FS_Singleton
  <2>2. IsFiniteSet(1 .. Plan.samples) /\ Cardinality(1 .. Plan.samples) = Plan.samples
    BY <1>1, UpToFinite
  <2>3. IsFiniteSet({c} \X (1 .. Plan.samples))
        /\ Cardinality({c} \X (1 .. Plan.samples)) = 1 * Plan.samples
    <3>1. PICK only, numbers : only = {c} /\ numbers = 1 .. Plan.samples
      OBVIOUS
    <3>2. IsFiniteSet(only) /\ IsFiniteSet(numbers)
      BY ONLY <2>1, <2>2, <3>1
    <3>3. /\ IsFiniteSet(only \X numbers)
          /\ Cardinality(only \X numbers) = Cardinality(only) * Cardinality(numbers)
      BY ONLY <3>2, FS_Product
    <3> QED BY ONLY <2>1, <2>2, <3>1, <3>3
  <2>4. Cardinality(done) <= Cardinality({c} \X (1 .. Plan.samples))
    BY <1>7, <2>3, FS_Subset
  <2> QED BY <1>1, <2>3, <2>4
<1>11. Plan.samples <= MaxSamples /\ MaxSamples \in Nat
  BY <1>1, PlansAssumption, UnitExact DEF Plan
<1>12. Cardinality(done) > 0 <=> done # {}
  BY <1>8, <1>9, FS_EmptySet
<1>13. t.passed = Cardinality(good) /\ t.total = Cardinality(done)
  BY <1>4
<1>14. Cardinality(done) <= MaxSamples
  BY <1>1, <1>9, <1>10, <1>11
<1> QED
  BY <1>2, <1>3, <1>6, <1>8, <1>9, <1>10, <1>12, <1>13, <1>14 DEF t, done, good, run

\* A divisor of the unit.
LEMMA UnitShared ==
    ASSUME NEW d \in Nat \ {0}, Unit % d = 0
    PROVE  \E q \in Nat \ {0} : Unit = q * d
<1>1. PICK u \in Nat \ {0} : u = Unit
  BY UnitExact
<1>2. u % d = 0
  BY <1>1
<1>3. u = (u \div d) * d + (u % d) /\ u \div d \in Nat
  OBVIOUS
<1>4. PICK q \in Nat : q = u \div d
  BY <1>3
<1>5. u = q * d
  BY <1>2, <1>3, <1>4
<1>6. q # 0
  BY <1>5
<1> QED BY <1>1, <1>4, <1>5, <1>6

\* Dividing by a factor.
LEMMA Quotient ==
    ASSUME NEW m \in Nat, NEW d \in Nat \ {0}
    PROVE  (m * d) \div d = m
OBVIOUS

\* The rate of a case is its share of the unit, exactly.
LEMMA RateTells ==
    ASSUME RunsWhole, NEW r \in Recorded, NEW c, c \in Tallied(db[r])
    PROVE  \E p \in Nat, t \in Nat \ {0}, q \in Nat \ {0} :
              /\ p = Tally(db[r], c).passed /\ t = Tally(db[r], c).total
              /\ p <= t /\ Unit = q * t /\ Rate(Tally(db[r], c)) = q * p
<1>1. PICK p \in Nat, t \in Nat \ {0} :
        /\ p = Tally(db[r], c).passed /\ t = Tally(db[r], c).total
        /\ p <= t /\ t <= MaxSamples
  BY TallyTells
<1>2. t \in 1 .. MaxSamples
  BY <1>1, UnitExact
<1>3. Unit % t = 0
  BY <1>2, UnitExact
<1>4. PICK q \in Nat \ {0} : Unit = q * t
  BY <1>3, UnitShared
<1>5. Rate(Tally(db[r], c)) = (Unit * p) \div t
  BY <1>1 DEF Rate
<1>6. Unit * p = (q * p) * t
  <2>1. (q * t) * p = (q * p) * t
    OBVIOUS
  <2> QED BY <1>4, <2>1
<1>7. q * p \in Nat
  OBVIOUS
<1>8. ((q * p) * t) \div t = q * p
  BY <1>7, Quotient
<1> QED BY <1>1, <1>4, <1>5, <1>6, <1>8

-----------------------------------------------------------------------------
\* The runs that a case is judged by.
SeenIn(c) == {r \in DOMAIN db : c \in Tallied(db[r])}

\* What the tokens or seconds of a completed attempt cost.
LEMMA CostCounts ==
    ASSUME RunsWhole, NEW r \in Recorded, NEW c, c \in Tallied(db[r])
    PROVE  CostIn(db[r], c) \in Nat
<1> DEFINE run == db[r]
           done == DoneOf(run, c)
           cost == [k \in done |-> CostOf(run.results[k])]
<1>1. RunWhole(run) /\ study \in Studies
  BY DEF RunsWhole
<1>2. \A k \in done : k \in DOMAIN run.results
  BY DEF DoneOf, Completed
<1>3. ASSUME NEW k \in done PROVE cost[k] \in Nat
  <2>1. PICK a : a = RealOf(run.results[k])
    OBVIOUS
  <2>2. /\ a \in Plan.attempts
        /\ run.results[k].tokens = a.tokens /\ run.results[k].duration = a.seconds
    BY <1>1, <1>2, <2>1, ResultTells
  <2>3. a.tokens \in Nat /\ a.seconds \in Nat
    BY <1>1, <2>2, PlansAssumption DEF Plan
  <2> QED BY <2>2, <2>3 DEF CostOf
<1>4. CostIn(run, c) = (Unit * SumFunction(cost)) \div Cardinality(done)
  BY DEF CostIn, DoneOf
<1>5. DOMAIN cost = done
  OBVIOUS
<1> HIDE DEF cost, done, run
<1>6. IsFiniteSet(done) /\ Cardinality(done) \in Nat /\ Cardinality(done) > 0
  BY TallyTells DEF done, run
<1>7. SumFunction(cost) = SumFunctionOnSet(cost, done)
  BY <1>5 DEF SumFunction
<1>8. SumFunctionOnSet(cost, done) >= 0 /\ SumFunctionOnSet(cost, done) \in Int
  BY <1>3, <1>6, SumOfNaturals
<1>9. PICK u \in Nat, s \in Nat, n \in Nat \ {0} :
        u = Unit /\ s = SumFunction(cost) /\ n = Cardinality(done)
  BY <1>6, <1>7, <1>8, UnitExact
<1>10. u * s \in Nat
  OBVIOUS
<1>11. (u * s) \div n \in Nat
  BY <1>10
<1> QED BY <1>4, <1>9, <1>11 DEF run

\* The square of a number of runs divides the unit.
LEMMA SquareShared ==
    ASSUME RunsWhole, NEW n \in 1 .. MaxRuns
    PROVE  n \in Nat \ {0} /\ \E q \in Nat \ {0} : Unit = q * (n * n)
<1>1. PICK m \in 1 .. MaxSamples : m = Plan.samples
  BY PlansAssumption DEF RunsWhole, Plan
<1>2. MaxRuns \in Nat /\ Unit % (n * n) = 0
  BY <1>1, SharesExact
<1>3. n \in Nat \ {0}
  BY <1>2
<1>4. n * n \in Nat \ {0}
  BY ONLY <1>3
<1> QED BY <1>2, <1>3, <1>4, UnitShared

\* What a factor of the unit leaves of the discrimination.
LEMMA DiscriminationExact ==
    ASSUME NEW n \in Nat \ {0}, NEW p \in 0 .. n, NEW q \in Nat \ {0}, NEW u, u = q * (n * n)
    PROVE  LET d == (4 * p * (n - p) * u) \div (n * n)
           IN d \in Nat /\ (d > 0 <=> p > 0 /\ p < n)
<1>1. PICK s \in Nat : s = n * n /\ s # 0
  OBVIOUS
<1>2. PICK a \in Nat : a = p * (n - p) /\ (a > 0 <=> p > 0 /\ p < n)
  <2>1. PICK o \in Nat : o = n - p
    OBVIOUS
  <2>2. p \in Nat /\ p * o \in Nat /\ (p * o > 0 <=> p > 0 /\ o > 0)
    BY ONLY p \in 0 .. n, n \in Nat \ {0}, o \in Nat
  <2> QED BY <2>1, <2>2
<1>3. PICK m \in Nat : m = (4 * a) * q /\ (m > 0 <=> a > 0)
  <2>1. (4 * a) * q \in Nat /\ ((4 * a) * q > 0 <=> a > 0)
    BY ONLY a \in Nat, q \in Nat \ {0}
  <2> QED BY <2>1
<1>4. 4 * p * (n - p) * u = m * s
  <2>1. 4 * p * (n - p) = 4 * a
    BY <1>2
  <2>2. (4 * a) * (q * s) = ((4 * a) * q) * s
    BY ONLY a \in Nat, q \in Nat \ {0}, s \in Nat
  <2> QED BY <1>1, <1>3, <2>1, <2>2
<1>5. (m * s) \div s = m
  BY <1>1, Quotient
<1> QED BY <1>1, <1>2, <1>3, <1>4, <1>5

\* A case has a positive cost, and discriminates exactly when one of the runs
\* that completed it passed it and another did not.
LEMMA CaseTells ==
    ASSUME RunsWhole, NEW c \in DOMAIN ScoreCases(db)
    PROVE  /\ ScoreCases(db)[c] = CaseValue(db, c)
           /\ c \in Plan.cases
           /\ CaseValue(db, c).cost \in Nat \ {0}
           /\ CaseValue(db, c).discrimination \in Nat
           /\ CaseValue(db, c).discrimination > 0 <=>
                /\ \E r \in SeenIn(c) : Hits(db[r], c) = 1
                /\ \E r \in SeenIn(c) : Hits(db[r], c) = 0
<1> DEFINE seen == SeenIn(c)
           hits == [r \in seen |-> Hits(db[r], c)]
           costs == [r \in seen |-> CostIn(db[r], c)]
           v == CaseValue(db, c)
<1>1. ScoreCases(db)[c] = v /\ c \in UNION {Tallied(db[r]) : r \in DOMAIN db}
  BY DEF ScoreCases
<1>2. seen \subseteq Recorded /\ seen # {} /\ \A r \in seen : c \in Tallied(db[r])
  BY <1>1 DEF SeenIn, Recorded
<1>3. DOMAIN hits = seen /\ DOMAIN costs = seen
  OBVIOUS
<1>4. \A r \in seen : hits[r] \in {0, 1} /\ hits[r] = Hits(db[r], c)
  BY DEF Hits
<1>5. \A r \in seen : costs[r] \in Nat
  BY <1>2, CostCounts
<1>6. v = [discrimination |-> (4 * SumFunction(hits) * (Cardinality(seen) - SumFunction(hits)) * Unit)
                                  \div (Cardinality(seen) * Cardinality(seen)),
           cost |-> Max({SumFunction(costs) \div Cardinality(seen), Unit})]
  BY DEF CaseValue, SeenIn
<1>7. c \in Plan.cases
  <2>1. PICK r \in Recorded : c \in Tallied(db[r])
    BY <1>2
  <2>2. PICK k \in Completed(db[r]) : c = k[1]
    BY <2>1 DEF Tallied
  <2>3. k \in Planned
    BY <2>2, TallyTells
  <2> QED BY <2>2, <2>3 DEF Planned
<1> HIDE DEF hits, costs, v, seen
<1>8. IsFiniteSet(seen) /\ Cardinality(seen) \in 1 .. MaxRuns
  <2>1. IsFiniteSet(Plan.runs) /\ Cardinality(Plan.runs) <= MaxRuns
    BY PlansAssumption DEF RunsWhole, Plan
  <2>2. seen \in SUBSET Plan.runs
    BY <1>2 DEF RunsWhole
  <2>3. /\ IsFiniteSet(seen) /\ Cardinality(seen) \in Nat
        /\ Cardinality(Plan.runs) \in Nat /\ Cardinality(seen) <= Cardinality(Plan.runs)
    BY <2>1, <2>2, CountOfPart
  <2>4. Cardinality(seen) # 0
    BY <1>2, <2>3, FS_EmptySet
  <2> QED BY <2>1, <2>3, <2>4, SharesExact
<1>9. PICK n \in 1 .. MaxRuns : n = Cardinality(seen)
  BY <1>8
<1>10. n \in Nat \ {0} /\ \E q \in Nat \ {0} : Unit = q * (n * n)
  BY SquareShared
<1>11. PICK q \in Nat \ {0} : Unit = q * (n * n)
  BY <1>10
<1>12. /\ SumFunction(hits) = SumFunctionOnSet(hits, seen)
       /\ SumFunction(costs) = SumFunctionOnSet(costs, seen)
  BY <1>3 DEF SumFunction
<1>13. /\ SumFunctionOnSet(hits, seen) \in 0 .. n
       /\ SumFunctionOnSet(hits, seen) > 0 <=> \E r \in seen : hits[r] = 1
       /\ SumFunctionOnSet(hits, seen) < n <=> \E r \in seen : hits[r] = 0
  BY <1>4, <1>8, <1>9, OnesTell
<1>14. PICK p \in 0 .. n : p = SumFunction(hits)
  BY <1>12, <1>13
<1>15. v.discrimination = (4 * p * (n - p) * Unit) \div (n * n)
  BY <1>6, <1>9, <1>14
<1>16. v.discrimination \in Nat /\ (v.discrimination > 0 <=> p > 0 /\ p < n)
  BY <1>10, <1>11, <1>15, DiscriminationExact
<1>17. v.cost \in Nat \ {0}
  <2>1. SumFunctionOnSet(costs, seen) \in Int /\ SumFunctionOnSet(costs, seen) >= 0
    BY <1>5, <1>8, SumOfNaturals
  <2>2. PICK s \in Nat : s = SumFunction(costs)
    BY <1>12, <2>1
  <2>3. s \div n \in Nat
    BY <1>10
  <2>4. PICK e \in Nat : e = s \div n
    BY <2>3
  <2>5. PICK u \in Nat \ {0} : u = Unit
    BY UnitExact
  <2>6. v.cost = Max({e, u})
    BY <1>6, <1>9, <2>2, <2>4, <2>5
  <2>7. Max({e, u}) = IF e < u THEN u ELSE e
    BY OfTwo
  <2> QED BY <2>6, <2>7
<1> QED BY <1>1, <1>4, <1>7, <1>12, <1>13, <1>14, <1>16, <1>17 DEF v, seen

\* A factor keeps the order.
LEMMA FactorKept ==
    ASSUME NEW a \in Int, NEW b \in Int, NEW q \in Nat \ {0}
    PROVE  (q * a > q * b <=> a > b) /\ (q * a = q * b <=> a = b)
<1>1. CASE a = b
  BY <1>1
<1>2. CASE a > b
  <2>1. PICK d \in Nat \ {0} : a = b + d
    <3>1. a - b \in Nat \ {0} /\ a = b + (a - b)
      BY <1>2
    <3> QED BY <3>1
  <2>2. q * a = q * b + q * d /\ q * d > 0
    BY <2>1
  <2> QED BY <1>2, <2>2
<1>3. CASE b > a
  <2>1. PICK d \in Nat \ {0} : b = a + d
    <3>1. b - a \in Nat \ {0} /\ b = a + (b - a)
      BY <1>3
    <3> QED BY <3>1
  <2>2. q * b = q * a + q * d /\ q * d > 0
    BY <2>1
  <2> QED BY <1>3, <2>2
<1> QED BY <1>1, <1>2, <1>3

\* With an odd number of attempts, a case that a run hit is one that it passed
\* more often than not.
LEMMA HitTells ==
    ASSUME RunsWhole, NEW r \in Recorded, NEW c, c \in Tallied(db[r]),
           Tally(db[r], c).total % 2 = 1
    PROVE  Hits(db[r], c) = IF Majority(Rate(Tally(db[r], c))) THEN 1 ELSE 0
<1>1. PICK p \in Nat, t \in Nat \ {0}, q \in Nat \ {0} :
        /\ p = Tally(db[r], c).passed /\ t = Tally(db[r], c).total
        /\ p <= t /\ Unit = q * t /\ Rate(Tally(db[r], c)) = q * p
  BY RateTells
<1>2. Hits(db[r], c) = IF 2 * p >= t THEN 1 ELSE 0
  BY <1>1 DEF Hits
<1>3. Majority(Rate(Tally(db[r], c))) <=> 2 * (q * p) > q * t
  BY <1>1 DEF Majority
<1>4. 2 * (q * p) = q * (2 * p)
  BY ONLY p \in Nat, q \in Nat \ {0}
<1>5. q * (2 * p) > q * t <=> 2 * p > t
  BY FactorKept
<1>6. 2 * p # t
  <2>1. t % 2 = 1
    BY <1>1
  <2> QED BY ONLY <2>1, p \in Nat, t \in Nat \ {0}
<1>7. 2 * p >= t <=> 2 * p > t
  BY ONLY <1>6, p \in Nat, t \in Nat \ {0}
<1> QED BY <1>2, <1>3, <1>4, <1>5, <1>7

\* What the comparison counts as a change for the better.
LEMMA ChangedIn ==
    ASSUME NEW before, NEW after, NEW c
    PROVE  c \in Table(before, after).only_after <=>
             /\ c \in Tallied(before) /\ c \in Tallied(after)
             /\ ~ Majority(Rate(Tally(before, c))) /\ Majority(Rate(Tally(after, c)))
<1> DEFINE shared == Tallied(before) \cap Tallied(after)
           wins == {d \in shared : Majority(Rate(Tally(before, d)))}
           later == {d \in shared : Majority(Rate(Tally(after, d)))}
<1>1. Table(before, after) = PairedCounts(shared, wins, later)
  BY DEF Table
<1>2. Table(before, after).only_after = later \ wins
  BY <1>1 DEF PairedCounts
<1> QED BY <1>2

\* With an odd number of attempts everywhere, a case discriminates exactly when
\* the comparison of two runs sees it change.
LEMMA DisagreementSeen ==
    ASSUME RunsWhole, NEW c \in DOMAIN ScoreCases(db),
           \A r \in Recorded : c \in Tallied(db[r]) => Tally(db[r], c).total % 2 = 1
    PROVE  CaseValue(db, c).discrimination > 0 <=>
             \E b, a \in SeenIn(c) :
                c \in Table(db[b], db[a]).only_after
<1>1. \A r \in SeenIn(c) : r \in Recorded /\ c \in Tallied(db[r])
  BY DEF SeenIn, Recorded
<1>2. \A r \in SeenIn(c) : Hits(db[r], c) = IF Majority(Rate(Tally(db[r], c))) THEN 1 ELSE 0
  BY <1>1, HitTells
<1>3. ASSUME NEW b \in SeenIn(c), NEW a \in SeenIn(c)
      PROVE  c \in Table(db[b], db[a]).only_after
                <=> Hits(db[b], c) = 0 /\ Hits(db[a], c) = 1
  BY <1>1, <1>2, ChangedIn
<1>4. CaseValue(db, c).discrimination > 0 <=>
          /\ \E r \in SeenIn(c) : Hits(db[r], c) = 1
          /\ \E r \in SeenIn(c) : Hits(db[r], c) = 0
  BY CaseTells
<1> QED BY <1>3, <1>4

-----------------------------------------------------------------------------
\* The values that a selection goes by: every case has its place, a cost and a
\* discrimination.
Valued(values) ==
    /\ IsFiniteSet(DOMAIN values) /\ DOMAIN values \subseteq Range(CaseOrder)
    /\ \A c \in DOMAIN values : values[c].cost \in Nat \ {0} /\ values[c].discrimination \in Nat

\* A case has one place.
LEMMA PlaceTells ==
    ASSUME NEW c \in Range(CaseOrder)
    PROVE  Place(c) \in Nat /\ CaseOrder[Place(c)] = c
<1>1. \E i \in DOMAIN CaseOrder : CaseOrder[i] = c
  BY DEF Range
<1>2. Place(c) \in DOMAIN CaseOrder /\ CaseOrder[Place(c)] = c
  BY <1>1 DEF Place
<1>3. DOMAIN CaseOrder \subseteq Nat
  BY SharesExact
<1> QED BY <1>2, <1>3

\* Value per cost orders: a/p, b/q and c/r, multiplied out.
LEMMA WorthOrders ==
    ASSUME NEW a \in Nat, NEW b \in Nat, NEW c \in Nat,
           NEW p \in Nat \ {0}, NEW q \in Nat \ {0}, NEW r \in Nat \ {0},
           a * q >= b * p, b * r >= c * q
    PROVE  /\ a * r >= c * p
           /\ a * q > b * p \/ b * r > c * q => a * r > c * p
<1>1. PICK x \in Nat, y \in Nat, z \in Nat, w \in Nat :
        x = a * q /\ y = b * p /\ z = b * r /\ w = c * q
  BY ONLY a \in Nat, b \in Nat, c \in Nat, p \in Nat \ {0}, q \in Nat \ {0}, r \in Nat \ {0}
<1>2. x >= y /\ z >= w
  BY <1>1
<1>3. r * x >= r * y /\ (x > y => r * x > r * y)
  BY <1>2, FactorKept
<1>4. p * z >= p * w /\ (z > w => p * z > p * w)
  BY <1>2, FactorKept
<1>5. PICK m \in Nat, n \in Nat : m = a * r /\ n = c * p
  BY ONLY a \in Nat, c \in Nat, p \in Nat \ {0}, r \in Nat \ {0}
<1>6. r * x = q * m /\ r * y = p * z /\ p * w = q * n
  <2>1. r * (a * q) = q * (a * r) /\ r * (b * p) = p * (b * r) /\ p * (c * q) = q * (c * p)
    BY ONLY a \in Nat, b \in Nat, c \in Nat, p \in Nat \ {0}, q \in Nat \ {0}, r \in Nat \ {0}
  <2> QED BY ONLY <1>1, <1>5, <2>1
<1>7. PICK e \in Nat, f \in Nat, g \in Nat : e = q * m /\ f = p * z /\ g = q * n
  BY ONLY m \in Nat, n \in Nat, z \in Nat, p \in Nat \ {0}, q \in Nat \ {0}
<1>8. e >= f /\ f >= g /\ (x > y => e > f) /\ (z > w => f > g)
  BY ONLY <1>3, <1>4, <1>6, <1>7
<1>9. e >= g /\ (x > y \/ z > w => e > g)
  BY ONLY <1>7, <1>8
<1>10. m >= n <=> e >= g
  BY ONLY <1>7, q \in Nat \ {0}, m \in Nat, n \in Nat, FactorKept
<1>11. m > n <=> e > g
  BY ONLY <1>7, q \in Nat \ {0}, m \in Nat, n \in Nat, FactorKept
<1> QED BY ONLY <1>1, <1>5, <1>9, <1>10, <1>11

\* The pairs of Ranked.
Worthier(values, c, d) ==
    LET Worth(x, y) == values[x].discrimination * values[y].cost
    IN \/ Worth(c, d) > Worth(d, c)
       \/ Worth(c, d) = Worth(d, c) /\ Place(c) < Place(d)
RankPairs(values, cs) == {p \in cs \X cs : Worthier(values, p[1], p[2])}

\* Ranked is the list in this order.
LEMMA RankedIs ==
    ASSUME NEW values, NEW cs
    PROVE  Ranked(values, cs) = InOrder(cs, RankPairs(values, cs))
BY DEF Ranked, RankPairs, Worthier

\* Of two cases one is worthier, and never both; what is worthier than a
\* worthier case is worthier, too.
LEMMA RankOrders ==
    ASSUME NEW values, Valued(values), NEW cs, cs \subseteq DOMAIN values
    PROVE  Ordering(cs, RankPairs(values, cs))
<1> DEFINE W(c, d) == values[c].discrimination * values[d].cost
           Before(c, d) == \/ W(c, d) > W(d, c)
                           \/ W(c, d) = W(d, c) /\ Place(c) < Place(d)
<1>1. ASSUME NEW c \in cs, NEW d \in cs PROVE <<c, d>> \in RankPairs(values, cs) <=> Before(c, d)
  <2>1. Worthier(values, c, d) <=> Before(c, d)
    BY DEF Worthier
  <2>2. <<c, d>> \in RankPairs(values, cs) <=> Worthier(values, c, d)
    BY DEF RankPairs
  <2> QED BY <2>1, <2>2
<1>2. ASSUME NEW c \in cs
      PROVE  /\ values[c].discrimination \in Nat /\ values[c].cost \in Nat \ {0}
             /\ Place(c) \in Nat /\ CaseOrder[Place(c)] = c
  <2>1. c \in DOMAIN values /\ c \in Range(CaseOrder)
    BY DEF Valued
  <2> QED BY <2>1, PlaceTells DEF Valued
<1>3. ASSUME NEW c \in cs, NEW d \in cs PROVE W(c, d) \in Nat
  <2>1. PICK v \in Nat, k \in Nat : v = values[c].discrimination /\ k = values[d].cost
    BY <1>2
  <2>2. v * k \in Nat
    OBVIOUS
  <2> QED BY <2>1, <2>2
<1>4. ASSUME NEW c \in cs, NEW d \in cs, NEW e \in cs, Before(c, d), Before(d, e)
      PROVE  Before(c, e)
  <2>1. PICK a \in Nat, p \in Nat \ {0} : a = values[c].discrimination /\ p = values[c].cost
    BY <1>2
  <2>2. PICK b \in Nat, q \in Nat \ {0} : b = values[d].discrimination /\ q = values[d].cost
    BY <1>2
  <2>3. PICK f \in Nat, r \in Nat \ {0} : f = values[e].discrimination /\ r = values[e].cost
    BY <1>2
  <2>4. /\ W(c, d) = a * q /\ W(d, c) = b * p /\ W(d, e) = b * r
        /\ W(e, d) = f * q /\ W(c, e) = a * r /\ W(e, c) = f * p
    BY <2>1, <2>2, <2>3
  <2>5. /\ W(c, d) \in Nat /\ W(d, c) \in Nat /\ W(d, e) \in Nat
        /\ W(e, d) \in Nat /\ W(c, e) \in Nat /\ W(e, c) \in Nat
    BY <1>3
  <2> HIDE DEF W
  <2>6. W(c, d) >= W(d, c) /\ W(d, e) >= W(e, d)
    BY <1>4, <2>5
  <2>7. a * q >= b * p /\ b * r >= f * q
    BY <2>4, <2>6
  <2>8. a * r >= f * p /\ (a * q > b * p \/ b * r > f * q => a * r > f * p)
    BY ONLY <2>7, a \in Nat, b \in Nat, f \in Nat, p \in Nat \ {0}, q \in Nat \ {0},
            r \in Nat \ {0}, WorthOrders
  <2>9. W(c, e) >= W(e, c) /\ (W(c, d) > W(d, c) \/ W(d, e) > W(e, d) => W(c, e) > W(e, c))
    BY ONLY <2>4, <2>8
  <2>10. Place(c) \in Nat /\ Place(d) \in Nat /\ Place(e) \in Nat
    BY <1>2
  <2> QED BY ONLY <1>4, <2>5, <2>9, <2>10
<1>5. ASSUME NEW c \in cs, NEW d \in cs, c # d PROVE Before(c, d) \/ Before(d, c)
  <2>1. Place(c) \in Nat /\ Place(d) \in Nat /\ Place(c) # Place(d)
    BY <1>2, <1>5
  <2>2. PICK x \in Nat, y \in Nat : x = W(c, d) /\ y = W(d, c)
    BY <1>3
  <2>3. x > y \/ y > x \/ x = y
    OBVIOUS
  <2>4. Place(c) < Place(d) \/ Place(d) < Place(c)
    BY ONLY <2>1
  <2> HIDE DEF W
  <2> QED BY ONLY <2>2, <2>3, <2>4
<1>6. ASSUME NEW c \in cs PROVE ~ Before(c, c)
  <2>1. Place(c) \in Nat /\ W(c, c) \in Nat
    BY <1>2, <1>3
  <2> HIDE DEF W
  <2> QED BY <2>1
<1> HIDE DEF Before, W
<1> QED BY <1>1, <1>4, <1>5, <1>6 DEF Ordering

\* The order in which Select takes cases: the informative ones first.
Informative(values) == {c \in DOMAIN values : values[c].discrimination > 0}
Rest(values) == DOMAIN values \ Informative(values)
TakingOrder(values) == Ranked(values, Informative(values)) \o Ranked(values, Rest(values))

\* Ranked lists every case once.
LEMMA RankedLists ==
    ASSUME NEW values, Valued(values), NEW cs, cs \subseteq DOMAIN values
    PROVE  LET s == Ranked(values, cs)
           IN /\ s \in Seq(cs) /\ Len(s) \in Nat /\ DOMAIN s = 1 .. Len(s)
              /\ Len(s) = Cardinality(cs)
              /\ \A c \in cs : \E i \in 1 .. Len(s) : s[i] = c
              /\ \A i, j \in 1 .. Len(s) : i # j => s[i] # s[j]
<1>1. IsFiniteSet(cs)
  BY FS_Subset DEF Valued
<1>2. PICK before : before = RankPairs(values, cs)
  OBVIOUS
<1>3. Ordering(cs, before)
  BY <1>2, RankOrders
<1>4. PICK s : s = InOrder(cs, before)
  OBVIOUS
<1>5. Listed(s, cs, before) /\ s \in Seq(cs) /\ Len(s) = Cardinality(cs) /\ Cardinality(cs) \in Nat
  BY <1>1, <1>3, <1>4, InOrderLists
<1>6. Ranked(values, cs) = s
  BY <1>2, <1>4, RankedIs
<1>7. DOMAIN s = 1 .. Len(s)
  BY <1>5
<1> QED BY <1>5, <1>6, <1>7 DEF Listed

\* So does the order as a whole; its beginning is that of the informative ones.
LEMMA TakingOrderTells ==
    ASSUME NEW values, Valued(values)
    PROVE  LET order == TakingOrder(values)
               first == Ranked(values, Informative(values))
               n == Len(first)
           IN /\ order \in Seq(DOMAIN values) /\ Len(order) \in Nat
              /\ n \in 0 .. Len(order)
              /\ \A c \in DOMAIN values : \E i \in 1 .. Len(order) : order[i] = c
              /\ \A i, j \in 1 .. Len(order) : i # j => order[i] # order[j]
              /\ \A i \in 1 .. n : order[i] = first[i] /\ order[i] \in Informative(values)
              /\ \A i \in 1 .. Len(order) : i > n => order[i] \notin Informative(values)
<1> DEFINE I == Informative(values)
           R == Rest(values)
<1>1. I \subseteq DOMAIN values /\ R \subseteq DOMAIN values /\ I \cap R = {} /\ I \cup R = DOMAIN values
  BY DEF Informative, Rest
<1>2. PICK s, t : s = Ranked(values, I) /\ t = Ranked(values, R)
  OBVIOUS
<1> HIDE DEF I, R
<1>3. /\ s \in Seq(I) /\ Len(s) \in Nat /\ DOMAIN s = 1 .. Len(s)
      /\ \A c \in I : \E i \in 1 .. Len(s) : s[i] = c
      /\ \A i, j \in 1 .. Len(s) : i # j => s[i] # s[j]
  BY ONLY Valued(values), <1>1, <1>2, RankedLists
<1>4. /\ t \in Seq(R) /\ Len(t) \in Nat /\ DOMAIN t = 1 .. Len(t) /\ Len(t) = Cardinality(R)
      /\ \A c \in R : \E i \in 1 .. Len(t) : t[i] = c
      /\ \A i, j \in 1 .. Len(t) : i # j => t[i] # t[j]
  BY ONLY Valued(values), <1>1, <1>2, RankedLists
<1>5. PICK order : order = s \o t
  BY Zenon
<1>6. PICK m \in Nat, n \in Nat : m = Len(s) /\ n = Len(t)
  BY Zenon, <1>3, <1>4
<1>7. s \in Seq(DOMAIN values) /\ t \in Seq(DOMAIN values)
  BY <1>1, <1>3, <1>4
<1>8. order \in Seq(DOMAIN values) /\ Len(order) = m + n
  BY <1>5, <1>6, <1>7
<1>9. \A i \in 1 .. m : order[i] = s[i] /\ order[i] \in I
  BY <1>3, <1>5, <1>6, <1>7
<1>10. \A i \in 1 .. m + n : i > m => i - m \in 1 .. n /\ order[i] = t[i - m] /\ order[i] \in R
  <2> TAKE i \in 1 .. m + n
  <2> HAVE i > m
  <2>1. i - m \in 1 .. n
    OBVIOUS
  <2>2. order[i] = t[i - m]
    BY <1>5, <1>6, <1>7, <2>1
  <2>3. t[i - m] \in R
    BY <1>4, <1>6, <2>1
  <2> QED BY <2>1, <2>2, <2>3
<1>11. ASSUME NEW c \in DOMAIN values PROVE \E i \in 1 .. m + n : order[i] = c
  <2>1. CASE c \in I
    <3>1. PICK i \in 1 .. m : s[i] = c
      BY <1>3, <1>6, <2>1
    <3>2. i \in 1 .. m + n /\ order[i] = c
      BY <1>9, <3>1
    <3> QED BY <3>2
  <2>2. CASE c \in R
    <3>1. PICK j \in 1 .. n : t[j] = c
      BY <1>4, <1>6, <2>2
    <3>2. PICK i \in Nat : i = m + j
      OBVIOUS
    <3>3. i \in 1 .. m + n /\ i > m /\ i - m = j
      BY <3>2
    <3>4. order[i] = c
      BY <1>10, <3>1, <3>3
    <3> QED BY <3>3, <3>4
  <2> QED BY <1>1, <2>1, <2>2
<1>12. ASSUME NEW i \in 1 .. m + n, NEW j \in 1 .. m + n, i # j PROVE order[i] # order[j]
  <2>1. CASE i <= m /\ j <= m
    <3>1. i \in 1 .. m /\ j \in 1 .. m
      BY <2>1
    <3> QED BY <1>3, <1>6, <1>9, <1>12, <3>1
  <2>2. CASE i > m /\ j > m
    <3>1. i - m \in 1 .. n /\ j - m \in 1 .. n /\ i - m # j - m
      BY <1>12, <2>2
    <3>2. order[i] = t[i - m] /\ order[j] = t[j - m]
      BY <1>10, <2>2
    <3>3. t[i - m] # t[j - m]
      BY <1>4, <1>6, <3>1
    <3> QED BY <3>2, <3>3
  <2>3. CASE i <= m /\ j > m
    <3>1. i \in 1 .. m
      BY <2>3
    <3>2. order[i] \in I /\ order[j] \in R
      BY <1>9, <1>10, <2>3, <3>1
    <3> QED BY <1>1, <3>2
  <2>4. CASE i > m /\ j <= m
    <3>1. j \in 1 .. m
      BY <2>4
    <3>2. order[j] \in I /\ order[i] \in R
      BY <1>9, <1>10, <2>4, <3>1
    <3> QED BY <1>1, <3>2
  <2> QED BY <2>1, <2>2, <2>3, <2>4
<1>13. TakingOrder(values) = order
  BY <1>2, <1>5 DEF TakingOrder, I, R
<1>14. m \in 0 .. m + n
  OBVIOUS
<1> QED BY SMTT(30), <1>1, <1>2, <1>6, <1>8, <1>9, <1>10, <1>11, <1>12, <1>13, <1>14 DEF I

-----------------------------------------------------------------------------
\* What select has chosen, step by step.
Nothing == [cases |-> {}, spent |-> 0]
Walk(g, values, budget, order) ==
    g = [i \in 0 .. Len(order) |->
            IF i = 0 THEN Nothing ELSE Take(values, budget, g[i - 1], order[i])]

\* There is such a walk, and Select is where it ends.
LEMMA SelectWalks ==
    ASSUME NEW values, Valued(values), NEW budget \in Nat
    PROVE  \E g : /\ Walk(g, values, budget, TakingOrder(values))
                  /\ Select(values, budget) = g[Len(TakingOrder(values))]
<1>1. PICK order : order = TakingOrder(values)
  OBVIOUS
<1>2. PICK n \in Nat : n = Len(order)
  BY <1>1, TakingOrderTells
<1>3. \A i \in 1 .. n : order[i] \in DOMAIN values
  <2>1. order \in Seq(DOMAIN values)
    BY <1>1, TakingOrderTells
  <2> QED BY <1>2, <2>1
<1> DEFINE X == [cases : SUBSET DOMAIN values, spent : Nat]
           step == [p \in X \X (1 .. n) |-> Take(values, budget, p[1], order[p[2]])]
<1>4. ASSUME NEW x \in X, NEW i \in 1 .. n PROVE Take(values, budget, x, order[i]) \in X
  <2>1. PICK c \in DOMAIN values : c = order[i]
    BY <1>3
  <2>2. values[c].cost \in Nat
    BY DEF Valued
  <2>3. x.cases \cup {c} \in SUBSET DOMAIN values /\ x.spent + values[c].cost \in Nat
    BY <2>2
  <2> QED BY <2>1, <2>3 DEF Take
<1>5. Nothing \in X
  BY DEF Nothing
<1>6. step \in [X \X (1 .. n) -> X]
  <2>1. \A p \in X \X (1 .. n) : p[1] \in X /\ p[2] \in 1 .. n
    OBVIOUS
  <2> HIDE DEF X
  <2> QED BY <1>4, <2>1
<1>7. \A x \in X, i \in 1 .. n : step[<<x, i>>] = Take(values, budget, x, order[i])
  <2> HIDE DEF X
  <2> QED OBVIOUS
<1> HIDE DEF step, X
<1>8. PICK g : /\ g \in [0 .. n -> X] /\ g[0] = Nothing
               /\ \A i \in 1 .. n : g[i] = step[<<g[i - 1], i>>]
  <2>1. PICK base : base = Nothing
    OBVIOUS
  <2>2. PICK Y, next : Y = X /\ next = step
    OBVIOUS
  <2>3. base \in Y /\ next \in [Y \X (1 .. n) -> Y]
    BY <1>5, <1>6, <2>1, <2>2
  <2>4. PICK g : Stepwise(g, n, Y, base, next)
    BY ONLY n \in Nat, <2>3, StepsExist
  <2> QED BY <2>1, <2>2, <2>4 DEF Stepwise
<1>9. Walk(g, values, budget, order)
  <2>1. ASSUME NEW i \in 0 .. n
        PROVE  g[i] = IF i = 0 THEN Nothing ELSE Take(values, budget, g[i - 1], order[i])
    <3>1. CASE i = 0
      BY <1>8, <3>1
    <3>2. CASE i # 0
      <4>1. i \in 1 .. n /\ i - 1 \in 0 .. n
        BY <3>2
      <4>2. g[i - 1] \in X
        BY <1>8, <4>1
      <4> QED BY <1>7, <1>8, <3>2, <4>1, <4>2
    <3> QED BY <3>1, <3>2
  <2>2. g = [i \in 0 .. n |-> g[i]]
    BY <1>8
  <2> QED BY <1>2, <2>1, <2>2 DEF Walk
<1> DEFINE f == CHOOSE h : Walk(h, values, budget, order)
<1>10. Walk(f, values, budget, order)
  BY <1>9, Zenon
<1>11. Select(values, budget) = f[Len(order)]
  BY <1>1, Zenon DEF Select, Walk, Nothing, TakingOrder, Informative, Rest
<1> HIDE DEF f
<1> QED BY <1>1, <1>10, <1>11

\* A walk starts with nothing and takes step after step.
LEMMA WalkTakes ==
    ASSUME NEW g, NEW values, NEW budget, NEW order, Walk(g, values, budget, order),
           Len(order) \in Nat
    PROVE  /\ g[0] = Nothing
           /\ \A i \in 1 .. Len(order) : g[i] = Take(values, budget, g[i - 1], order[i])
<1>1. PICK n \in Nat : n = Len(order)
  OBVIOUS
<1>2. \A i \in 0 .. n : g[i] = IF i = 0 THEN Nothing ELSE Take(values, budget, g[i - 1], order[i])
  BY <1>1 DEF Walk
<1>3. g[0] = Nothing
  BY <1>2
<1>4. ASSUME NEW i \in 1 .. n
      PROVE  g[i] = Take(values, budget, g[i - 1], order[i])
  <2>1. i \in 0 .. n /\ i # 0
    OBVIOUS
  <2> QED BY <1>2, <2>1
<1> QED BY <1>1, <1>3, <1>4

\* One step of a walk: a case that does not fit is passed over.
LEMMA WalkStep ==
    ASSUME NEW g, NEW values, NEW budget, NEW order, Walk(g, values, budget, order),
           Len(order) \in Nat
    PROVE  /\ g[0].cases = {} /\ g[0].spent = 0
           /\ \A i \in 1 .. Len(order) :
                \/ /\ g[i - 1].spent + values[order[i]].cost > budget
                   /\ g[i] = g[i - 1]
                \/ /\ ~ (g[i - 1].spent + values[order[i]].cost > budget)
                   /\ g[i].cases = g[i - 1].cases \cup {order[i]}
                   /\ g[i].spent = g[i - 1].spent + values[order[i]].cost
<1>1. ASSUME NEW x, NEW c
      PROVE  LET y == Take(values, budget, x, c)
             IN \/ /\ x.spent + values[c].cost > budget
                   /\ y = x
                \/ /\ ~ (x.spent + values[c].cost > budget)
                   /\ y.cases = x.cases \cup {c}
                   /\ y.spent = x.spent + values[c].cost
  BY DEF Take
<1>2. g[0] = Nothing
  BY WalkTakes
<1>3. ASSUME NEW i \in 1 .. Len(order)
      PROVE  g[i] = Take(values, budget, g[i - 1], order[i])
  BY WalkTakes
<1> QED BY <1>1, <1>2, <1>3 DEF Nothing

\* What holds of a walk after i steps: what is chosen comes from the first i
\* cases, its cost is what is spent, within the budget, and what was passed over
\* does not fit.
Costs(values) == [c \in DOMAIN values |-> values[c].cost]
Reached(g, values, budget, order, i) ==
    /\ g[i].cases \subseteq {order[j] : j \in 1 .. i}
    /\ g[i].spent \in Nat /\ g[i].spent <= budget
    /\ g[i].spent = SumFunctionOnSet(Costs(values), g[i].cases)
    /\ \A j \in 1 .. i : order[j] \notin g[i].cases => g[i].spent + values[order[j]].cost > budget

\* Every walk gets there, whichever step it is at.
LEMMA WalkReaches ==
    ASSUME NEW values, Valued(values), NEW budget \in Nat,
           NEW order, order = TakingOrder(values), NEW g, Walk(g, values, budget, order)
    PROVE  \A i \in 0 .. Len(order) : Reached(g, values, budget, order, i)
<1>1. PICK n \in Nat : n = Len(order)
  BY TakingOrderTells
<1>2. /\ \A i \in 1 .. n : order[i] \in DOMAIN values
      /\ \A i, j \in 1 .. n : i # j => order[i] # order[j]
  <2>1. order \in Seq(DOMAIN values) /\ \A i, j \in 1 .. n : i # j => order[i] # order[j]
    BY <1>1, TakingOrderTells
  <2> QED BY SMTT(30), <1>1, <2>1
<1>3. IsFiniteSet(DOMAIN values) /\ \A c \in DOMAIN values : Costs(values)[c] \in Int
  BY DEF Valued, Costs
<1>4. \A c \in DOMAIN values : Costs(values)[c] = values[c].cost /\ values[c].cost \in Nat
  BY DEF Valued, Costs
<1>5. g[0].cases = {} /\ g[0].spent = 0
  BY <1>1, WalkStep
<1>6. \A s \in SUBSET DOMAIN values :
         /\ s = {} => SumFunctionOnSet(Costs(values), s) = 0
         /\ \A c \in s : SumFunctionOnSet(Costs(values), s)
                            = Costs(values)[c] + SumFunctionOnSet(Costs(values), s \ {c})
  BY <1>3, SumOver
<1> DEFINE R(i) == Reached(g, values, budget, order, i)
           T == {i \in 0 .. n : ~ R(i)}
<1>7. R(0)
  BY <1>5, <1>6 DEF Reached
<1>8. ASSUME NEW i \in 1 .. n, R(i - 1) PROVE R(i)
  <2>1. PICK m \in 0 .. n : m = i - 1 /\ m \in Nat /\ i = m + 1
    OBVIOUS
  <2>2. PICK c \in DOMAIN values : c = order[i]
    BY <1>2
  <2>3. PICK k \in Nat : k = values[c].cost /\ k = Costs(values)[c]
    BY <1>4
  <2>4. PICK s : s = g[m].cases
    OBVIOUS
  <2>5. /\ s \subseteq {order[j] : j \in 1 .. m}
        /\ g[m].spent \in Nat /\ g[m].spent <= budget
        /\ g[m].spent = SumFunctionOnSet(Costs(values), s)
        /\ \A j \in 1 .. m : order[j] \notin s => g[m].spent + values[order[j]].cost > budget
    BY <1>8, <2>1, <2>4 DEF Reached
  <2>6. PICK spent \in Nat : spent = g[m].spent
    BY <2>5
  <2>7. \A j \in 1 .. i : j \in 1 .. m \/ j = i
    BY <2>1
  <2>8. CASE spent + k > budget /\ g[i] = g[m]
    <3>1. s \subseteq {order[j] : j \in 1 .. i}
      BY <2>1, <2>5
    <3>2. ASSUME NEW j \in 1 .. i, order[j] \notin s PROVE spent + values[order[j]].cost > budget
      BY <2>2, <2>3, <2>5, <2>6, <2>7, <2>8, <3>2
    <3> QED BY <2>4, <2>5, <2>6, <2>8, <3>1, <3>2 DEF Reached
  <2>9. CASE /\ ~ (spent + k > budget)
             /\ g[i].cases = s \cup {c} /\ g[i].spent = spent + k
    <3>1. c \notin s
      <4>1. \A j \in 1 .. m : j \in 1 .. n /\ j # i
        BY <2>1
      <4>2. \A j \in 1 .. m : order[j] # c
        BY <1>2, <2>2, <4>1
      <4> QED BY <2>5, <4>2
    <3>2. s \cup {c} \subseteq {order[j] : j \in 1 .. i}
      BY <2>1, <2>2, <2>5
    <3>3. s \cup {c} \in SUBSET DOMAIN values /\ (s \cup {c}) \ {c} = s
      <4>1. \A j \in 1 .. i : j \in 1 .. n
        BY <2>1
      <4> QED BY <1>2, <3>1, <3>2, <4>1
    <3>4. SumFunctionOnSet(Costs(values), s \cup {c}) = k + spent
      <4>1. PICK u \in SUBSET DOMAIN values : u = s \cup {c} /\ c \in u /\ u \ {c} = s
        BY <3>3
      <4>2. SumFunctionOnSet(Costs(values), u)
                = Costs(values)[c] + SumFunctionOnSet(Costs(values), u \ {c})
        BY <1>6, <4>1
      <4> QED BY <2>3, <2>5, <2>6, <4>1, <4>2
    <3>5. spent + k \in Nat /\ spent + k <= budget
      BY <2>9
    <3>6. ASSUME NEW j \in 1 .. i, order[j] \notin s \cup {c}
          PROVE  spent + k + values[order[j]].cost > budget
      <4>1. j \in 1 .. m /\ order[j] \notin s
        BY <2>2, <2>7, <3>6
      <4>2. j \in 1 .. n
        BY <2>1, <4>1
      <4>3. PICK x \in Nat : x = values[order[j]].cost
        BY <1>2, <1>4, <4>2
      <4>4. spent + x > budget
        BY <2>5, <2>6, <4>1, <4>3
      <4> QED BY <4>3, <4>4
    <3> QED BY <2>9, <3>2, <3>4, <3>5, <3>6 DEF Reached
  <2>10. \/ spent + k > budget /\ g[i] = g[m]
         \/ /\ ~ (spent + k > budget)
            /\ g[i].cases = s \cup {c} /\ g[i].spent = spent + k
    <3>1. \/ /\ g[i - 1].spent + values[order[i]].cost > budget
             /\ g[i] = g[i - 1]
          \/ /\ ~ (g[i - 1].spent + values[order[i]].cost > budget)
             /\ g[i].cases = g[i - 1].cases \cup {order[i]}
             /\ g[i].spent = g[i - 1].spent + values[order[i]].cost
      BY <1>1, WalkStep
    <3> QED BY <2>1, <2>2, <2>3, <2>4, <2>6, <3>1
  <2> QED BY <2>8, <2>9, <2>10
<1> HIDE DEF R
<1>9. ASSUME T # {} PROVE FALSE
  <2>1. T \subseteq Nat
    OBVIOUS
  <2> HIDE DEF T
  <2>2. PICK i \in T : \A j \in T : i <= j
    BY <1>9, <2>1, LeastNumber
  <2>3. i \in 0 .. n /\ ~ R(i)
    BY <2>2 DEF T
  <2>4. i # 0
    BY <1>7, <2>3
  <2>5. i \in 1 .. n /\ i - 1 \in 0 .. n /\ ~ (i <= i - 1)
    BY <2>3, <2>4
  <2>6. i - 1 \notin T
    BY <2>2, <2>5
  <2>7. R(i - 1)
    BY <2>5, <2>6 DEF T
  <2> QED BY <1>8, <2>3, <2>5, <2>7
<1> QED BY <1>1, <1>9 DEF R

-----------------------------------------------------------------------------
\* Where the first n steps of two walks take the same cases of the same value,
\* the walks agree.
LEMMA WalksAgree ==
    ASSUME NEW n \in Nat, NEW g, NEW h, g[0] = h[0],
           \A i \in 1 .. n : g[i - 1] = h[i - 1] => g[i] = h[i]
    PROVE  g[n] = h[n]
<1> DEFINE T == {i \in 0 .. n : g[i] # h[i]}
<1>1. ASSUME T # {} PROVE FALSE
  <2>1. T \subseteq Nat
    OBVIOUS
  <2> HIDE DEF T
  <2>2. PICK i \in T : \A j \in T : i <= j
    BY <1>1, <2>1, LeastNumber
  <2>3. i \in 0 .. n /\ g[i] # h[i]
    BY <2>2 DEF T
  <2>4. i # 0
    BY <2>3
  <2>5. i \in 1 .. n /\ i - 1 \in 0 .. n /\ ~ (i <= i - 1)
    BY <2>3, <2>4
  <2>6. i - 1 \notin T
    BY <2>2, <2>5
  <2>7. g[i - 1] = h[i - 1]
    BY <2>5, <2>6 DEF T
  <2> QED BY <2>3, <2>5, <2>7
<1>2. n \notin T
  BY <1>1
<1> QED BY <1>2

\* What a walk chooses after n steps of the members of I, if none of the later
\* cases is one.
ChosenOf(state, I) == state.cases \cap I
Untouched(g, m, n, I) == \A i \in 1 .. n : i > m => ChosenOf(g[i], I) = ChosenOf(g[i - 1], I)

LEMMA WalkKeeps ==
    ASSUME NEW n \in Nat, NEW m \in 0 .. n, NEW g, NEW I, Untouched(g, m, n, I)
    PROVE  ChosenOf(g[n], I) = ChosenOf(g[m], I)
<1> DEFINE T == {i \in Nat : m + i <= n /\ ChosenOf(g[m + i], I) # ChosenOf(g[m], I)}
<1>1. ASSUME T # {} PROVE FALSE
  <2>1. T \subseteq Nat
    OBVIOUS
  <2> HIDE DEF T
  <2>2. PICK i \in T : \A j \in T : i <= j
    BY <1>1, <2>1, LeastNumber
  <2>3. i \in Nat /\ m + i <= n /\ ChosenOf(g[m + i], I) # ChosenOf(g[m], I)
    BY <2>2 DEF T
  <2>4. i # 0
    <3>1. i = 0 => m + i = m
      OBVIOUS
    <3> QED BY <2>3, <3>1
  <2>5. PICK l \in 1 .. n : l = m + i /\ l > m
    BY <2>3, <2>4
  <2>6. PICK k \in Nat : k = i - 1 /\ m + k = l - 1 /\ m + k <= n /\ ~ (i <= k)
    <3>1. i - 1 \in Nat /\ m + (i - 1) = l - 1 /\ m + (i - 1) <= n /\ ~ (i <= i - 1)
      BY <2>3, <2>4, <2>5
    <3> QED BY <3>1
  <2>7. k \notin T
    BY <2>2, <2>6
  <2>8. ChosenOf(g[m + k], I) = ChosenOf(g[m], I)
    BY <2>6, <2>7 DEF T
  <2>9. ChosenOf(g[l], I) = ChosenOf(g[l - 1], I)
    BY <2>5 DEF Untouched
  <2> QED BY <2>3, <2>5, <2>6, <2>8, <2>9
<1>2. PICK d \in Nat : d = n - m /\ m + d = n
  <2>1. n - m \in Nat /\ m + (n - m) = n
    OBVIOUS
  <2> QED BY <2>1
<1>3. d \notin T
  BY <1>1
<1> QED BY <1>2, <1>3

\* The informative cases alone, in the order they have among all.
LEMMA AloneInOrder ==
    ASSUME NEW values, Valued(values),
           NEW alone, alone = [c \in Informative(values) |-> values[c]]
    PROVE  /\ Valued(alone) /\ DOMAIN alone = Informative(values)
           /\ \A c \in DOMAIN alone : alone[c] = values[c]
           /\ Len(TakingOrder(alone)) = Len(Ranked(values, Informative(values)))
           /\ Ranked(alone, Informative(alone)) = Ranked(values, Informative(values))
<1> DEFINE I == Informative(values)
<1>1. I \subseteq DOMAIN values /\ \A c \in I : values[c].discrimination > 0
  BY DEF Informative
<1>2. DOMAIN alone = I /\ \A c \in I : alone[c] = values[c]
  OBVIOUS
<1>3. Informative(alone) = I /\ Rest(alone) = {}
  <2> HIDE DEF I
  <2> QED BY <1>1, <1>2 DEF Informative, Rest
<1>4. Valued(alone)
  <2>1. IsFiniteSet(I)
    BY <1>1, FS_Subset DEF Valued
  <2> HIDE DEF I
  <2> QED BY <1>1, <1>2, <2>1 DEF Valued
<1>5. RankPairs(alone, I) = RankPairs(values, I)
  <2> HIDE DEF I
  <2>1. \A c, d \in I : Worthier(alone, c, d) <=> Worthier(values, c, d)
    BY <1>2 DEF Worthier
  <2>2. \A p \in I \X I : p[1] \in I /\ p[2] \in I
    OBVIOUS
  <2> QED BY <2>1, <2>2 DEF RankPairs
<1>6. Ranked(alone, I) = Ranked(values, I)
  BY <1>5, RankedIs
<1>7. PICK s, t : s = Ranked(alone, I) /\ t = Ranked(alone, {})
  OBVIOUS
<1>8. TakingOrder(alone) = s \o t
  BY <1>3, <1>7 DEF TakingOrder
<1>9. s \in Seq(I)
  BY <1>2, <1>4, <1>7, RankedLists
<1>10. t \in Seq({}) /\ Len(t) = 0
  <2>1. {} \subseteq DOMAIN alone
    OBVIOUS
  <2>2. t \in Seq({}) /\ Len(t) = Cardinality({})
    BY <1>4, <1>7, <2>1, RankedLists
  <2> QED BY <2>2, FS_EmptySet
<1>11. Len(s \o t) = Len(s)
  BY <1>9, <1>10
<1> QED BY <1>2, <1>3, <1>4, <1>6, <1>7, <1>8, <1>11

\* Uninformative cases do not change what is chosen of the informative ones.
LEMMA InformativeFirst ==
    ASSUME NEW values, Valued(values), NEW budget \in Nat,
           NEW alone, alone = [c \in Informative(values) |-> values[c]]
    PROVE  Select(alone, budget).cases = Select(values, budget).cases \cap Informative(values)
<1> DEFINE I == Informative(values)
<1>1. /\ Valued(alone) /\ DOMAIN alone = I /\ \A c \in I : alone[c] = values[c]
      /\ Len(TakingOrder(alone)) = Len(Ranked(values, I))
      /\ Ranked(alone, Informative(alone)) = Ranked(values, I)
  BY AloneInOrder
<1>2. PICK order, few, first :
        order = TakingOrder(values) /\ few = TakingOrder(alone) /\ first = Ranked(values, I)
  OBVIOUS
<1>3. PICK g : Walk(g, values, budget, order) /\ Select(values, budget) = g[Len(order)]
  BY <1>2, SelectWalks
<1>4. PICK h : Walk(h, alone, budget, few) /\ Select(alone, budget) = h[Len(few)]
  BY <1>1, <1>2, SelectWalks
<1>5. /\ Len(order) \in Nat /\ Len(first) \in 0 .. Len(order)
      /\ \A i \in 1 .. Len(first) : order[i] = first[i] /\ order[i] \in I
      /\ \A i \in 1 .. Len(order) : i > Len(first) => order[i] \notin I
  BY <1>2, TakingOrderTells
<1>6. \A i \in 1 .. Len(Ranked(alone, Informative(alone))) :
          few[i] = Ranked(alone, Informative(alone))[i]
  BY <1>1, <1>2, TakingOrderTells
<1> HIDE DEF I
<1>7. PICK n \in Nat, m \in Nat : m <= n /\ n = Len(order) /\ m = Len(first)
  BY <1>5
<1>8. m \in Nat /\ Len(few) = m /\ \A i \in 1 .. m : few[i] = order[i]
  BY <1>1, <1>2, <1>5, <1>6, <1>7
<1>9. /\ g[0].cases = {} /\ g[0] = Nothing
      /\ \A i \in 1 .. n : g[i] = Take(values, budget, g[i - 1], order[i])
  BY <1>3, <1>7, WalkTakes DEF Nothing
<1>10. /\ h[0] = Nothing
       /\ \A i \in 1 .. m : h[i] = Take(alone, budget, h[i - 1], few[i])
  BY <1>4, <1>8, WalkTakes
<1>11. ASSUME NEW i \in 1 .. m, g[i - 1] = h[i - 1] PROVE g[i] = h[i]
  <2>1. i \in 1 .. n /\ few[i] = order[i]
    BY ONLY <1>7, <1>8, n \in Nat, i \in 1 .. m
  <2>2. order[i] \in I /\ alone[order[i]] = values[order[i]]
    BY <1>1, <1>5, <1>7
  <2>3. \A x : Take(values, budget, x, order[i]) = Take(alone, budget, x, order[i])
    BY <2>2 DEF Take
  <2> QED BY <1>9, <1>10, <1>11, <2>1, <2>3
<1>12. g[m] = h[m]
  BY <1>8, <1>9, <1>10, <1>11, WalksAgree
<1>13. ASSUME NEW i \in 1 .. n, i > m PROVE g[i].cases \cap I = g[i - 1].cases \cap I
  <2>1. order[i] \notin I
    BY <1>5, <1>7, <1>13
  <2>2. g[i].cases \in {g[i - 1].cases, g[i - 1].cases \cup {order[i]}}
    <3>1. g[i] = Take(values, budget, g[i - 1], order[i])
      BY <1>9
    <3> QED BY <3>1 DEF Take
  <2> QED BY <2>1, <2>2
<1>14. g[n].cases \cap I = g[m].cases \cap I
  <2>1. m \in 0 .. n
    BY <1>7
  <2>2. Untouched(g, m, n, I)
    BY <1>13 DEF ChosenOf, Untouched
  <2>3. ChosenOf(g[n], I) = ChosenOf(g[m], I)
    BY ONLY n \in Nat, <2>1, <2>2, WalkKeeps
  <2> QED BY <2>3 DEF ChosenOf
<1>15. g[m].cases \subseteq I
  <2>1. Reached(g, values, budget, order, m)
    BY <1>2, <1>3, <1>7, WalkReaches
  <2>2. g[m].cases \subseteq {order[j] : j \in 1 .. m}
    BY <2>1 DEF Reached
  <2> QED BY <1>5, <1>7, <2>2
<1> QED BY <1>3, <1>4, <1>7, <1>8, <1>12, <1>14, <1>15 DEF I

\* The values of recorded runs are values to go by.
LEMMA ScoresValued ==
    ASSUME RunsWhole
    PROVE  /\ Valued(ScoreCases(db))
           /\ \A c \in DOMAIN ScoreCases(db) : ScoreCases(db)[c] = CaseValue(db, c)
<1>1. ASSUME NEW c \in DOMAIN ScoreCases(db)
      PROVE  /\ ScoreCases(db)[c] = CaseValue(db, c) /\ c \in Plan.cases
             /\ ScoreCases(db)[c].cost \in Nat \ {0}
             /\ ScoreCases(db)[c].discrimination \in Nat
  BY CaseTells
<1>2. IsFiniteSet(Plan.cases) /\ Plan.cases \subseteq Range(CaseOrder)
  BY PlansAssumption DEF RunsWhole, Plan
<1>3. IsFiniteSet(DOMAIN ScoreCases(db))
  <2>1. DOMAIN ScoreCases(db) \subseteq Plan.cases
    BY <1>1
  <2> QED BY <1>2, <2>1, FS_Subset
<1> QED BY <1>1, <1>2, <1>3 DEF Valued

\* What whole runs are, a selection fills the budget from.
LEMMA SelectionAlwaysFills ==
    ASSUME RunsWhole
    PROVE  SelectionFills
<1> DEFINE values == ScoreCases(db)
           chosen == SelectCommand(db, Recorded).chosen
           informative == {c \in DOMAIN values : values[c].discrimination > 0}
           alone == [c \in informative |-> values[c]]
           Odd(c) == \A r \in Recorded : c \in Tallied(db[r]) => Tally(db[r], c).total % 2 = 1
<1>1. chosen = Select(values, Budget)
  <2>1. [r \in Recorded |-> db[r]] = db
    BY DEF RunsWhole
  <2> QED BY <2>1 DEF SelectCommand
<1>2. informative = Informative(values)
  BY DEF Informative
<1>3. Valued(values) /\ \A c \in DOMAIN values : values[c] = CaseValue(db, c)
  BY ScoresValued
<1>4. Budget \in Nat
  BY LimitsAssumption
<1>5. ASSUME NEW c \in DOMAIN values, Odd(c)
      PROVE  c \in informative <=>
                \E b, a \in {r \in Recorded : c \in Tallied(db[r])} :
                    c \in Table(db[b], db[a]).only_after
  <2>1. {r \in Recorded : c \in Tallied(db[r])} = SeenIn(c)
    BY DEF SeenIn, Recorded
  <2>2. c \in informative <=> CaseValue(db, c).discrimination > 0
    BY <1>3
  <2>3. CaseValue(db, c).discrimination > 0 <=>
             \E b, a \in SeenIn(c) : c \in Table(db[b], db[a]).only_after
    BY <1>5, DisagreementSeen
  <2> QED BY <2>1, <2>2, <2>3
<1>6. Select(alone, Budget).cases = chosen.cases \cap informative
  <2>1. PICK few : few = alone
    OBVIOUS
  <2>2. few = [c \in Informative(values) |-> values[c]]
    BY <1>2, <2>1
  <2> HIDE DEF values, alone, chosen, informative
  <2>3. Select(few, Budget).cases = Select(values, Budget).cases \cap Informative(values)
    BY ONLY <1>3, <1>4, <2>2, InformativeFirst
  <2> QED BY <1>1, <1>2, <2>1, <2>3
<1> HIDE DEF values, chosen, informative
<1>7. PICK order, n : order = TakingOrder(values) /\ n = Len(order) /\ n \in Nat
  BY <1>3, TakingOrderTells
<1>8. PICK g : Walk(g, values, Budget, order) /\ Select(values, Budget) = g[n]
  BY <1>3, <1>4, <1>7, SelectWalks
<1>9. Reached(g, values, Budget, order, n)
  <2>1. n \in 0 .. Len(order)
    BY <1>7
  <2> QED BY <1>3, <1>4, <1>7, <1>8, <2>1, WalkReaches
<1>10. /\ chosen.cases \subseteq {order[j] : j \in 1 .. n}
       /\ chosen.spent <= Budget
       /\ chosen.spent = SumFunctionOnSet(Costs(values), chosen.cases)
       /\ \A j \in 1 .. n : order[j] \notin chosen.cases
                                => chosen.spent + values[order[j]].cost > Budget
  BY <1>1, <1>8, <1>9 DEF Reached
<1>11. /\ \A j \in 1 .. n : order[j] \in DOMAIN values
       /\ \A c \in DOMAIN values : \E j \in 1 .. n : order[j] = c
  <2>1. /\ order \in Seq(DOMAIN values)
        /\ \A c \in DOMAIN values : \E j \in 1 .. n : order[j] = c
    BY <1>3, <1>7, TakingOrderTells
  <2> QED BY <1>7, <2>1
<1>12. \A c \in DOMAIN values \ chosen.cases : chosen.spent + values[c].cost > Budget
  BY <1>10, <1>11
<1>13. chosen.spent = SumFunction([c \in chosen.cases |-> values[c].cost])
  <2> DEFINE costs == [c \in chosen.cases |-> values[c].cost]
  <2>1. chosen.cases \subseteq DOMAIN values
    BY <1>10, <1>11
  <2>2. IsFiniteSet(chosen.cases)
    BY <1>3, <2>1, FS_Subset DEF Valued
  <2>3. \A c \in chosen.cases : costs[c] = Costs(values)[c] /\ costs[c] \in Int
    BY <1>3, <2>1 DEF Valued, Costs
  <2>4. DOMAIN costs = chosen.cases
    OBVIOUS
  <2> HIDE DEF costs
  <2>5. SumFunctionOnSet(costs, chosen.cases) = SumFunctionOnSet(Costs(values), chosen.cases)
    BY <2>2, <2>3, SumOfAgreeing
  <2>6. SumFunction(costs) = chosen.spent
    BY <1>10, <2>4, <2>5 DEF SumFunction
  <2> QED BY <2>6 DEF costs
<1> HIDE DEF Odd
<1> QED BY <1>5, <1>6, <1>10, <1>12, <1>13 DEF SelectionFills, values, chosen, informative, Odd
-----------------------------------------------------------------------------
\* The planned attempts have an order: by the place of the case, then by number.
LEMMA EarlierOrders ==
    ASSUME RunsWhole
    PROVE  \A j, k \in Planned :
             /\ ~ Earlier(j, j)
             /\ j # k => Earlier(j, k) \/ Earlier(k, j)
             /\ \A l \in Planned : Earlier(j, k) /\ Earlier(k, l) => Earlier(j, l)
<1>1. Plan.cases \subseteq Range(CaseOrder) /\ Plan.samples \in Nat
  BY PlansAssumption DEF RunsWhole, Plan
<1>2. ASSUME NEW k \in Planned
      PROVE  /\ k = <<k[1], k[2]>> /\ k[2] \in Nat
             /\ Place(k[1]) \in Nat /\ CaseOrder[Place(k[1])] = k[1]
  <2>1. k = <<k[1], k[2]>> /\ k[1] \in Plan.cases /\ k[2] \in 1 .. Plan.samples
    BY DEF Planned
  <2>2. k[1] \in Range(CaseOrder)
    BY <1>1, <2>1
  <2> QED BY <1>1, <2>1, <2>2, PlaceTells
<1>3. ASSUME NEW j \in Planned, NEW k \in Planned, j # k PROVE Earlier(j, k) \/ Earlier(k, j)
  <2>1. CASE j[1] = k[1]
    <3>1. j[2] # k[2]
      BY <1>2, <1>3, <2>1
    <3> QED BY <1>2, <2>1, <3>1 DEF Earlier
  <2>2. CASE j[1] # k[1]
    <3>1. Place(j[1]) # Place(k[1])
      BY <1>2, <2>2
    <3> QED BY <1>2, <3>1 DEF Earlier
  <2> QED BY <2>1, <2>2
<1>4. ASSUME NEW j \in Planned, NEW k \in Planned, NEW l \in Planned, Earlier(j, k), Earlier(k, l)
      PROVE  Earlier(j, l)
  BY <1>2, <1>4 DEF Earlier
<1>5. ASSUME NEW j \in Planned PROVE ~ Earlier(j, j)
  BY <1>2 DEF Earlier
<1> QED BY <1>3, <1>4, <1>5

\* The first of some attempts.
FirstOf(ks) == CHOOSE k \in ks : \A j \in ks : j = k \/ Earlier(k, j)

\* It is one of them.
LEMMA FirstTells ==
    ASSUME RunsWhole, NEW ks, ks \subseteq Planned, ks # {}
    PROVE  FirstOf(ks) \in ks
<1> DEFINE later == {p \in ks \X ks : Earlier(p[2], p[1])}
<1>1. \A j, k \in ks : <<j, k>> \in later <=> Earlier(k, j)
  OBVIOUS
<1> HIDE DEF later
<1>2. IsFiniteSet(ks)
  BY PlanFinite, FS_Subset
<1>3. Ordering(ks, later)
  <2>1. \A j, k \in ks :
             /\ ~ Earlier(j, j)
             /\ j # k => Earlier(j, k) \/ Earlier(k, j)
             /\ \A l \in ks : Earlier(j, k) /\ Earlier(k, l) => Earlier(j, l)
    BY EarlierOrders
  <2> QED BY <1>1, <2>1 DEF Ordering
<1>4. PICK k \in ks : \A j \in ks : j # k => <<j, k>> \in later
  BY <1>2, <1>3, LastInOrder
<1>5. \A j \in ks : j = k \/ Earlier(k, j)
  BY <1>1, <1>4
<1> QED BY <1>5 DEF FirstOf

-----------------------------------------------------------------------------
\* The failures of a shape, and the clusters of a run.
OfShape(run, s) == {k \in Failures(run) : Signature(run.results[k]) = s}
ClusterOf(run, s) == [signature |-> s, attempts |-> OfShape(run, s)]
ClusterSet(run) == {ClusterOf(run, s) : s \in {Signature(run.results[k]) : k \in Failures(run)}}

\* Which of two clusters comes first.
Size(x) == Cardinality(x.attempts)
PlaceOf(x) == LabelPlace(Label(x.signature))
Leads(x, y) ==
    \/ Size(x) > Size(y)
    \/ Size(x) = Size(y) /\ PlaceOf(x) < PlaceOf(y)
    \/ Size(x) = Size(y) /\ PlaceOf(x) = PlaceOf(y)
       /\ Earlier(FirstOf(x.attempts), FirstOf(y.attempts))
LeadPairs(run) == {p \in ClusterSet(run) \X ClusterSet(run) : Leads(p[1], p[2])}

\* Clusters lists them in this order.
LEMMA ClustersAre ==
    ASSUME NEW run
    PROVE  Clusters(run) = InOrder(ClusterSet(run), LeadPairs(run))
BY DEF Clusters, ClusterSet, ClusterOf, OfShape, LeadPairs, Leads, Size, PlaceOf, FirstOf

\* Every failure is in the cluster of its shape, and in no other.
LEMMA ClusterSetTells ==
    ASSUME RunsWhole, NEW r \in Recorded
    PROVE  LET run == db[r]
           IN /\ IsFiniteSet(Failures(run)) /\ Failures(run) \subseteq Planned
              /\ IsFiniteSet(ClusterSet(run))
              /\ \A x \in ClusterSet(run) :
                    /\ x.attempts = OfShape(run, x.signature) /\ x.attempts # {}
                    /\ x.attempts \subseteq Failures(run) /\ IsFiniteSet(x.attempts)
                    /\ \A k \in x.attempts : Signature(run.results[k]) = x.signature
              /\ \A x, y \in ClusterSet(run) : x # y =>
                    x.signature # y.signature /\ x.attempts \cap y.attempts = {}
              /\ \A k \in Failures(run) : \E x \in ClusterSet(run) : k \in x.attempts
<1> DEFINE run == db[r]
           F == Failures(run)
           shape == [k \in F |-> Signature(run.results[k])]
           shapes == {Signature(run.results[k]) : k \in F}
<1>1. F \subseteq Planned
  BY DEF RunsWhole, RunWhole, Failures
<1>2. IsFiniteSet(F)
  BY <1>1, PlanFinite, FS_Subset
<1>3. ASSUME NEW s
      PROVE  /\ ClusterOf(run, s).signature = s /\ ClusterOf(run, s).attempts = OfShape(run, s)
             /\ OfShape(run, s) = {k \in F : Signature(run.results[k]) = s}
  BY DEF ClusterOf, OfShape
<1>4. ClusterSet(run) = {ClusterOf(run, s) : s \in shapes}
  BY DEF ClusterSet
<1>5. IsFiniteSet(ClusterSet(run))
  <2> DEFINE g == [k \in F |-> ClusterOf(run, Signature(run.results[k]))]
  <2>1. g \in [F -> ClusterSet(run)] /\ \A x \in ClusterSet(run) : \E k \in F : g[k] = x
    BY <1>4
  <2> HIDE DEF g, F
  <2>2. g \in Surjection(F, ClusterSet(run))
    BY <2>1 DEF Surjection
  <2> QED BY <1>2, <2>2, FS_Surjection
<1> HIDE DEF F, run
<1>6. ASSUME NEW x \in ClusterSet(run)
      PROVE  /\ x = ClusterOf(run, x.signature)
             /\ x.attempts = OfShape(run, x.signature) /\ x.attempts # {}
             /\ x.attempts \subseteq F /\ IsFiniteSet(x.attempts)
             /\ \A k \in x.attempts : Signature(run.results[k]) = x.signature
  <2>1. PICK s \in shapes : x = ClusterOf(run, s)
    BY <1>4
  <2>2. PICK k \in F : s = Signature(run.results[k])
    BY <2>1
  <2>3. x.signature = s /\ x.attempts = {j \in F : Signature(run.results[j]) = s}
    BY <1>3, <2>1
  <2>4. IsFiniteSet(x.attempts)
    BY <1>2, <2>3, FS_Subset
  <2> QED BY <1>3, <2>1, <2>2, <2>3, <2>4
<1>7. ASSUME NEW x \in ClusterSet(run), NEW y \in ClusterSet(run), x # y
      PROVE  x.signature # y.signature /\ x.attempts \cap y.attempts = {}
  <2>1. x.signature # y.signature
    BY <1>6, <1>7
  <2> QED BY <1>6, <2>1
<1>8. ASSUME NEW k \in F PROVE \E x \in ClusterSet(run) : k \in x.attempts
  <2>1. PICK s \in shapes : s = Signature(run.results[k])
    OBVIOUS
  <2>2. ClusterOf(run, s) \in ClusterSet(run)
    BY <1>4
  <2>3. k \in ClusterOf(run, s).attempts
    BY <1>3, <2>1
  <2> QED BY <2>2, <2>3
<1> QED BY <1>1, <1>2, <1>5, <1>6, <1>7, <1>8 DEF F, run

\* A label has a place among the words.
LEMMA LabelPlaced ==
    ASSUME NEW s
    PROVE  LabelPlace(Label(s)) \in 1 .. 8
<1>1. DOMAIN Labels = 1 .. 8
  BY DEF Labels
<1>2. \E i \in 1 .. 8 : Labels[i] = Label(s)
  <2>1. /\ Labels[1] = "changed nothing" /\ Labels[2] = "edited the right file"
        /\ Labels[3] = "edited the wrong files" /\ Labels[4] = "edited without tests"
        /\ Labels[5] = "disturbed other files" /\ Labels[6] = "infrastructure fault"
        /\ Labels[7] = "ran out of time" /\ Labels[8] = "unsafe"
    BY DEF Labels
  <2>2. Label(s) \in {"changed nothing", "edited the right file", "edited the wrong files",
            "edited without tests", "disturbed other files", "infrastructure fault",
            "ran out of time", "unsafe"}
    BY DEF Label
  <2>3. 1 \in 1 .. 8 /\ 2 \in 1 .. 8 /\ 3 \in 1 .. 8 /\ 4 \in 1 .. 8
        /\ 5 \in 1 .. 8 /\ 6 \in 1 .. 8 /\ 7 \in 1 .. 8 /\ 8 \in 1 .. 8
    OBVIOUS
  <2> QED BY ONLY Zenon, <2>1, <2>2, <2>3
<1> QED BY <1>1, <1>2 DEF LabelPlace

\* The order of clusters is one.
LEMMA LeadsOrder ==
    ASSUME RunsWhole, NEW r \in Recorded
    PROVE  Ordering(ClusterSet(db[r]), LeadPairs(db[r]))
<1> DEFINE S == ClusterSet(db[r])
           E(x, y) == Earlier(FirstOf(x.attempts), FirstOf(y.attempts))
<1>1. ASSUME NEW x \in S, NEW y \in S PROVE <<x, y>> \in LeadPairs(db[r]) <=> Leads(x, y)
  BY DEF LeadPairs
<1>2. ASSUME NEW x \in S PROVE Size(x) \in Nat /\ PlaceOf(x) \in Nat /\ FirstOf(x.attempts) \in x.attempts
                               /\ x.attempts \subseteq Planned
  <2>1. x.attempts # {} /\ IsFiniteSet(x.attempts) /\ x.attempts \subseteq Planned
    BY ClusterSetTells
  <2> QED BY <2>1, FirstTells, LabelPlaced, FS_CardinalityType DEF Size, PlaceOf
<1>3. ASSUME NEW x \in S, NEW y \in S, x # y PROVE FirstOf(x.attempts) # FirstOf(y.attempts)
  <2>1. x.attempts \cap y.attempts = {}
    BY <1>3, ClusterSetTells
  <2> QED BY <1>2, <2>1
<1> HIDE DEF S
<1>4. \A x, y \in S :
        /\ ~ E(x, x)
        /\ x # y => E(x, y) \/ E(y, x)
        /\ \A z \in S : E(x, y) /\ E(y, z) => E(x, z)
  <2>1. \A x \in S : FirstOf(x.attempts) \in Planned
    BY <1>2
  <2> QED BY <1>3, <2>1, EarlierOrders
<1>5. \A x, y \in S : Leads(x, y) <=>
        \/ Size(x) > Size(y)
        \/ Size(x) = Size(y) /\ PlaceOf(x) < PlaceOf(y)
        \/ Size(x) = Size(y) /\ PlaceOf(x) = PlaceOf(y) /\ E(x, y)
  BY DEF Leads
<1> HIDE DEF E
<1>6. ASSUME NEW x \in S, NEW y \in S, NEW z \in S, Leads(x, y), Leads(y, z) PROVE Leads(x, z)
  BY <1>2, <1>4, <1>5, <1>6
<1>7. ASSUME NEW x \in S, NEW y \in S, x # y PROVE Leads(x, y) \/ Leads(y, x)
  BY <1>2, <1>4, <1>5, <1>7
<1>8. ASSUME NEW x \in S PROVE ~ Leads(x, x)
  BY <1>2, <1>4, <1>5
<1> QED BY <1>1, <1>6, <1>7, <1>8 DEF Ordering, S

\* What Clusters lists.
LEMMA ClustersList ==
    ASSUME RunsWhole, NEW r \in Recorded
    PROVE  LET clusters == Clusters(db[r])
               S == ClusterSet(db[r])
           IN /\ clusters \in Seq(S) /\ Len(clusters) \in Nat /\ DOMAIN clusters = 1 .. Len(clusters)
              /\ \A x \in S : \E i \in DOMAIN clusters : clusters[i] = x
              /\ \A i \in DOMAIN clusters : clusters[i] \in S
              /\ \A i, j \in DOMAIN clusters : i # j => clusters[i] # clusters[j]
              /\ \A i, j \in DOMAIN clusters : i < j => Size(clusters[i]) >= Size(clusters[j])
<1>1. PICK S, before, s : S = ClusterSet(db[r]) /\ before = LeadPairs(db[r]) /\ s = InOrder(S, before)
  OBVIOUS
<1>2. IsFiniteSet(S) /\ \A x \in S : IsFiniteSet(x.attempts)
  BY <1>1, ClusterSetTells
<1>3. Ordering(S, before)
  BY <1>1, LeadsOrder
<1>4. Listed(s, S, before) /\ s \in Seq(S) /\ Len(s) = Cardinality(S) /\ Cardinality(S) \in Nat
  BY <1>1, <1>2, <1>3, InOrderLists
<1>5. DOMAIN s = 1 .. Len(s)
  BY <1>4
<1>6. \A x \in S : Size(x) \in Nat
  BY <1>2, FS_CardinalityType DEF Size
<1>7. \A i \in DOMAIN s : s[i] \in S
  BY <1>4
<1>8. ASSUME NEW i \in DOMAIN s, NEW j \in DOMAIN s, i < j PROVE Size(s[i]) >= Size(s[j])
  <2>1. <<s[i], s[j]>> \in before
    BY <1>4, <1>5, <1>8 DEF Listed
  <2>2. Leads(s[i], s[j])
    BY <1>1, <2>1 DEF LeadPairs
  <2> QED BY <1>6, <1>7, <2>2 DEF Leads
<1>9. Clusters(db[r]) = s
  BY <1>1, ClustersAre
<1> QED BY <1>1, <1>4, <1>5, <1>7, <1>8, <1>9 DEF Listed

\* Every failure is in one cluster, and the largest come first.
LEMMA AlwaysPartitioned ==
    ASSUME RunsWhole, NEW r \in Recorded
    PROVE  Partitioned(db[r], Clusters(db[r]))
<1> DEFINE run == db[r]
<1>0. PICK clusters : clusters = Clusters(run)
  OBVIOUS
<1> DEFINE parts == AttemptsIn(clusters)
           D == DOMAIN clusters
<1>1. DOMAIN parts = D /\ \A i \in D : parts[i] = clusters[i].attempts
  BY DEF AttemptsIn
<1>2. /\ \A x \in ClusterSet(run) : \E i \in D : clusters[i] = x
      /\ \A i \in D : clusters[i] \in ClusterSet(run)
      /\ \A i, j \in D : i # j => clusters[i] # clusters[j]
      /\ \A i, j \in D : i < j => Size(clusters[i]) >= Size(clusters[j])
      /\ \A i \in D : i \in Nat
  <2>1. /\ Len(clusters) \in Nat /\ D = 1 .. Len(clusters)
        /\ \A x \in ClusterSet(run) : \E i \in D : clusters[i] = x
        /\ \A i \in D : clusters[i] \in ClusterSet(run)
        /\ \A i, j \in D : i # j => clusters[i] # clusters[j]
        /\ \A i, j \in D : i < j => Size(clusters[i]) >= Size(clusters[j])
    BY <1>0, ClustersList
  <2> QED BY <2>1
<1>3. /\ \A x \in ClusterSet(run) : x.attempts \subseteq Failures(run)
      /\ \A x, y \in ClusterSet(run) : x # y => x.attempts \cap y.attempts = {}
      /\ \A k \in Failures(run) : \E x \in ClusterSet(run) : k \in x.attempts
  BY ClusterSetTells
<1> HIDE DEF parts, run
<1>4. UNION Range(parts) = Failures(run)
  BY <1>1, <1>2, <1>3 DEF Range
<1>5. ASSUME NEW i \in D, NEW j \in D, i < j
      PROVE  parts[i] \cap parts[j] = {} /\ Cardinality(parts[i]) >= Cardinality(parts[j])
  <2>1. clusters[i] # clusters[j]
    BY <1>2, <1>5
  <2> QED BY <1>1, <1>2, <1>3, <1>5, <2>1 DEF Size
<1> QED BY <1>0, <1>4, <1>5 DEF Partitioned, Failures, parts, run

-----------------------------------------------------------------------------
\* What the details of a completed attempt are.
LEMMA DetailsTell ==
    ASSUME NEW suite, NEW a, NEW es, es = Evaluate(suite, a)
    PROVE  /\ DOMAIN es = suite.evaluators
           /\ "tests" \in DOMAIN es => es["tests"].timed_out = (a.exit = "timed_out")
           /\ "patch_locality" \in DOMAIN es =>
                /\ es["patch_locality"].touched = a.touched
                /\ es["patch_locality"].unrelated_files = a.touched \ a.targets
                /\ es["patch_locality"].untouched_targets = a.targets \ a.touched
           /\ "trajectory" \in DOMAIN es =>
                es["trajectory"].test_runs = Cardinality(CallsTo(a.trace, "run_tests"))
           /\ "safety" \in DOMAIN es =>
                es["safety"].finding_count = Cardinality(Findings(a.trace))
<1>1. /\ DOMAIN es = suite.evaluators
      /\ "tests" \in DOMAIN es => es["tests"] = SuiteOutcome(a.exit)
      /\ "patch_locality" \in DOMAIN es => es["patch_locality"] = PatchLocality(a.touched, a.targets)
      /\ "trajectory" \in DOMAIN es => es["trajectory"] = Trajectory(a.trace)
      /\ "safety" \in DOMAIN es => es["safety"] = Safety(a.trace)
  BY DEF Evaluate
<1>2. SuiteOutcome(a.exit).timed_out = (a.exit = "timed_out")
  <2>1. PICK d : d = [timed_out |-> a.exit = "timed_out"]
    OBVIOUS
  <2>2. "timed_out" \in DOMAIN d \ {"score", "passed"} /\ d["timed_out"] = (a.exit = "timed_out")
    BY <2>1
  <2>3. SuiteOutcome(a.exit) = Scored(IF a.exit = "ok" THEN Full ELSE 0, a.exit = "ok", d)
    BY <2>1 DEF SuiteOutcome
  <2> QED BY <2>2, <2>3, ScoredFields
<1>3. LET p == PatchLocality(a.touched, a.targets)
      IN /\ p.touched = a.touched /\ p.unrelated_files = a.touched \ a.targets
         /\ p.untouched_targets = a.targets \ a.touched
  <2>1. PICK d : d = [touched |-> a.touched, unrelated_files |-> a.touched \ a.targets,
                      untouched_targets |-> a.targets \ a.touched]
    OBVIOUS
  <2>2. /\ {"touched", "unrelated_files", "untouched_targets"} \subseteq DOMAIN d \ {"score", "passed"}
        /\ d["touched"] = a.touched /\ d["unrelated_files"] = a.touched \ a.targets
        /\ d["untouched_targets"] = a.targets \ a.touched
    BY <2>1
  <2>3. \E score, passed : PatchLocality(a.touched, a.targets) = Scored(score, passed, d)
    BY <2>1 DEF PatchLocality
  <2> QED BY <2>2, <2>3, ScoredFields
<1>4. Trajectory(a.trace).test_runs = Cardinality(CallsTo(a.trace, "run_tests"))
  <2>1. PICK d : d = Signals(a.trace)
    OBVIOUS
  <2>2. "test_runs" \in DOMAIN d \ {"score", "passed"}
        /\ d["test_runs"] = Cardinality(CallsTo(a.trace, "run_tests"))
    BY <2>1 DEF Signals
  <2>3. \E score, passed : Trajectory(a.trace) = Scored(score, passed, d)
    BY <2>1 DEF Trajectory
  <2> QED BY <2>2, <2>3, ScoredFields
<1>5. Safety(a.trace).finding_count = Cardinality(Findings(a.trace))
  <2>1. PICK d : d = [finding_count |-> Cardinality(Findings(a.trace))]
    OBVIOUS
  <2>2. "finding_count" \in DOMAIN d \ {"score", "passed"}
        /\ d["finding_count"] = Cardinality(Findings(a.trace))
    BY <2>1
  <2>3. \E score, passed : Safety(a.trace) = Scored(score, passed, d)
    BY <2>1 DEF Safety
  <2> QED BY <2>2, <2>3, ScoredFields
<1> QED BY <1>1, <1>2, <1>3, <1>4, <1>5

\* Every suite looks at the tests, and one that looks at the edit looks at the
\* safety, too.
LEMMA SuitesLook ==
    ASSUME NEW name \in DOMAIN Suites
    PROVE  LET looked == Suites[name].evaluators
           IN "tests" \in looked /\ ("patch_locality" \in looked => "safety" \in looked)
BY DEF Suites

\* What the words of a label stand for.
LEMMA LabelSays ==
    ASSUME NEW s
    PROVE  /\ s.outcome = "infrastructure" <=> Label(s) = "infrastructure fault"
           /\ Label(s) = "ran out of time" => s.outcome = "timed_out"
           /\ Label(s) = "changed nothing" => s.edit = "none"
           /\ Label(s) = "edited without tests" => ~ s.ran_tests
           /\ Label(s) = "edited the right file" =>
                /\ s.outcome # "timed_out" /\ s.outcome # "infrastructure"
                /\ ~ s.unsafe /\ s.edit # "none" /\ s.edit # "off_target"
                /\ s.edit # "wider_than_target"
           /\ Label(s) \in {"changed nothing", "edited without tests"} =>
                s.outcome # "timed_out" /\ s.outcome # "infrastructure"
BY DEF Label

\* What the shape of an attempt stands for.
LEMMA SignatureSays ==
    ASSUME NEW result, NEW s, s = Signature(result)
    PROVE  /\ s.outcome = "infrastructure" <=> result.status = "infra_error"
           /\ s.outcome = "timed_out" =>
                result.status = "timed_out" \/ Detail(result, "tests", "timed_out", FALSE)
           /\ s.outcome \notin {"timed_out", "infrastructure"} =>
                /\ s.edit = EditShape(result)
                /\ s.ran_tests = (Detail(result, "trajectory", "test_runs", 0) > 0)
                /\ s.unsafe = (Detail(result, "safety", "finding_count", 0) > 0)
<1>1. CASE result.status = "infra_error"
  <2>1. s = [edit |-> "none", ran_tests |-> FALSE, outcome |-> "infrastructure", unsafe |-> FALSE]
    BY <1>1 DEF Signature
  <2> QED BY <1>1, <2>1
<1>2. CASE result.status = "timed_out"
  <2>1. s = [edit |-> "unknown", ran_tests |-> FALSE, outcome |-> "timed_out", unsafe |-> FALSE]
    BY <1>2 DEF Signature
  <2> QED BY <1>2, <2>1
<1>3. CASE result.status # "infra_error" /\ result.status # "timed_out"
  <2>1. s = [edit |-> EditShape(result),
             ran_tests |-> Detail(result, "trajectory", "test_runs", 0) > 0,
             outcome |-> IF Detail(result, "tests", "timed_out", FALSE)
                         THEN "timed_out" ELSE "tests_failing",
             unsafe |-> Detail(result, "safety", "finding_count", 0) > 0]
    BY <1>3 DEF Signature
  <2>2. /\ s.edit = EditShape(result)
        /\ s.ran_tests = (Detail(result, "trajectory", "test_runs", 0) > 0)
        /\ s.outcome = IF Detail(result, "tests", "timed_out", FALSE)
                         THEN "timed_out" ELSE "tests_failing"
        /\ s.unsafe = (Detail(result, "safety", "finding_count", 0) > 0)
    BY <2>1
  <2> QED BY <1>3, <2>2
<1> QED BY <1>1, <1>2, <1>3

\* The shape of an edit.
LEMMA EditSays ==
    ASSUME NEW result
    PROVE  LET touched == Detail(result, "patch_locality", "touched", {})
               unrelated == Detail(result, "patch_locality", "unrelated_files", {})
               untouched == Detail(result, "patch_locality", "untouched_targets", {})
           IN /\ EditShape(result) = "none" => touched = {}
              /\ EditShape(result) \in {"none", "off_target", "wider_than_target", "on_target"}
              /\ EditShape(result) = "on_target" => touched # {} /\ untouched = {} /\ unrelated = {}
BY DEF EditShape

\* The label of a cluster is true of every attempt in it.
LEMMA LabelsAlwaysTell ==
    ASSUME RunsWhole, NEW r \in Recorded
    PROVE  LabelsTell(db[r], Clusters(db[r]))
<1> DEFINE run == db[r]
<1>1. PICK clusters : clusters = Clusters(run)
  OBVIOUS
<1> SUFFICES ASSUME NEW i \in DOMAIN clusters, NEW k \in clusters[i].attempts
             PROVE  LET real == RealOf(run.results[k])
                        label == Label(clusters[i].signature)
                        Looked(name) == name \in DOMAIN run.results[k].evaluators
                    IN /\ (real.status = "infra_error") = (label = "infrastructure fault")
                       /\ label = "ran out of time" => "timed_out" \in {real.status, real.exit}
                       /\ label = "changed nothing" /\ Looked("patch_locality") => real.touched = {}
                       /\ label = "edited without tests" /\ Looked("trajectory") =>
                            CallsTo(real.trace, "run_tests") = {}
                       /\ label = "edited the right file" =>
                            real.touched = real.targets /\ Findings(real.trace) = {}
  BY ZenonT(30), <1>1 DEF LabelsTell
<1>2. clusters[i] \in ClusterSet(run)
  BY <1>1, ClustersList
<1>3. PICK result, s : result = run.results[k] /\ s = clusters[i].signature
  OBVIOUS
<1>4. s = Signature(result) /\ k \in DOMAIN run.results
  <2>1. /\ clusters[i].attempts \subseteq Failures(run)
        /\ \A j \in clusters[i].attempts : Signature(run.results[j]) = clusters[i].signature
    BY <1>2, ClusterSetTells
  <2> QED BY <1>3, <2>1 DEF Failures
<1>5. RunWhole(run) /\ study \in Studies /\ run.config \in Plan.configs
  BY DEF RunsWhole, RunWhole
<1>6. PICK a, suite : a = RealOf(result) /\ suite = Suites[run.config.suite]
  OBVIOUS
<1>7. /\ a \in Plan.attempts /\ result.status = a.status
      /\ a.status = "completed" => result.evaluators = Evaluate(suite, a)
      /\ a.status # "completed" => DOMAIN result.evaluators = {}
  BY <1>3, <1>4, <1>5, <1>6, ResultTells
<1>8. run.config.suite \in DOMAIN Suites
      /\ a.trace \in Seq(Range(a.trace))
  BY <1>5, <1>7, PlansAssumption DEF Plan
<1>9. "tests" \in suite.evaluators /\ ("patch_locality" \in suite.evaluators => "safety" \in suite.evaluators)
  BY <1>6, <1>8, SuitesLook
<1>10. IsFiniteSet(CallsTo(a.trace, "run_tests")) /\ IsFiniteSet(Findings(a.trace))
  <2>1. DOMAIN a.trace = 1 .. Len(a.trace) /\ Len(a.trace) \in Nat
    BY <1>8
  <2>2. IsFiniteSet(DOMAIN a.trace)
    BY <2>1, UpToFinite
  <2>3. CallsTo(a.trace, "run_tests") \subseteq DOMAIN a.trace /\ Findings(a.trace) \subseteq DOMAIN a.trace
    BY DEF CallsTo, Findings, OfType
  <2> QED BY <2>2, <2>3, FS_Subset
<1> DEFINE es == result.evaluators
<1>11. \A name \in DOMAIN es :
          /\ a.status = "completed" /\ es = Evaluate(suite, a) /\ DOMAIN es = suite.evaluators
  BY <1>7, DetailsTell
<1>12. "patch_locality" \in DOMAIN es => "safety" \in DOMAIN es
  BY <1>9, <1>11
<1>13. /\ "tests" \in DOMAIN es => es["tests"].timed_out = (a.exit = "timed_out")
       /\ "patch_locality" \in DOMAIN es =>
             /\ es["patch_locality"].touched = a.touched
             /\ es["patch_locality"].unrelated_files = a.touched \ a.targets
             /\ es["patch_locality"].untouched_targets = a.targets \ a.touched
       /\ "trajectory" \in DOMAIN es =>
             es["trajectory"].test_runs = Cardinality(CallsTo(a.trace, "run_tests"))
       /\ "safety" \in DOMAIN es =>
             es["safety"].finding_count = Cardinality(Findings(a.trace))
  BY <1>11, DetailsTell
<1>14. /\ Detail(result, "tests", "timed_out", FALSE) => a.exit = "timed_out"
       /\ "patch_locality" \in DOMAIN es =>
             /\ Detail(result, "patch_locality", "touched", {}) = a.touched
             /\ Detail(result, "patch_locality", "unrelated_files", {}) = a.touched \ a.targets
             /\ Detail(result, "patch_locality", "untouched_targets", {}) = a.targets \ a.touched
       /\ "patch_locality" \notin DOMAIN es => Detail(result, "patch_locality", "touched", {}) = {}
       /\ "trajectory" \in DOMAIN es => Detail(result, "trajectory", "test_runs", 0)
                                            = Cardinality(CallsTo(a.trace, "run_tests"))
       /\ "safety" \in DOMAIN es => Detail(result, "safety", "finding_count", 0)
                                            = Cardinality(Findings(a.trace))
  BY <1>13 DEF Detail
<1> HIDE DEF es
<1>15. (a.status = "infra_error") = (Label(s) = "infrastructure fault")
  <2>1. s.outcome = "infrastructure" <=> Label(s) = "infrastructure fault"
    BY LabelSays
  <2>2. s.outcome = "infrastructure" <=> result.status = "infra_error"
    BY <1>4, SignatureSays
  <2>3. a.status = "infra_error" <=> Label(s) = "infrastructure fault"
    BY <1>7, <2>1, <2>2
  <2> QED BY <2>3
<1>16. Label(s) = "ran out of time" => "timed_out" \in {a.status, a.exit}
  BY <1>4, <1>7, <1>14, LabelSays, SignatureSays
<1>17. ASSUME Label(s) \in {"changed nothing", "edited without tests", "edited the right file"}
       PROVE  /\ s.edit = EditShape(result)
              /\ s.ran_tests = (Detail(result, "trajectory", "test_runs", 0) > 0)
              /\ s.unsafe = (Detail(result, "safety", "finding_count", 0) > 0)
  <2>1. s.outcome \notin {"timed_out", "infrastructure"}
    BY <1>17, LabelSays
  <2> QED BY <1>4, <2>1, SignatureSays
<1>18. ASSUME Label(s) = "changed nothing", "patch_locality" \in DOMAIN es PROVE a.touched = {}
  <2>1. EditShape(result) = "none"
    BY <1>17, <1>18, LabelSays
  <2> QED BY <1>14, <1>18, <2>1, EditSays
<1>19. ASSUME Label(s) = "edited without tests", "trajectory" \in DOMAIN es
       PROVE  CallsTo(a.trace, "run_tests") = {}
  <2>1. ~ (Detail(result, "trajectory", "test_runs", 0) > 0)
    BY <1>17, <1>19, LabelSays
  <2>2. ~ (Cardinality(CallsTo(a.trace, "run_tests")) > 0)
    BY <1>14, <1>19, <2>1
  <2> QED BY <1>10, <2>2, FS_EmptySet, FS_CardinalityType
<1>20. ASSUME Label(s) = "edited the right file"
       PROVE  a.touched = a.targets /\ Findings(a.trace) = {}
  <2>1. /\ ~ s.unsafe /\ s.edit # "none" /\ s.edit # "off_target" /\ s.edit # "wider_than_target"
    BY <1>20, LabelSays
  <2>2. EditShape(result) = "on_target"
    BY <1>17, <1>20, <2>1, EditSays
  <2>3. /\ Detail(result, "patch_locality", "touched", {}) # {}
        /\ Detail(result, "patch_locality", "unrelated_files", {}) = {}
        /\ Detail(result, "patch_locality", "untouched_targets", {}) = {}
    BY <2>2, EditSays
  <2>4. "patch_locality" \in DOMAIN es /\ "safety" \in DOMAIN es
    BY <1>12, <1>14, <2>3
  <2>5. a.touched \ a.targets = {} /\ a.targets \ a.touched = {}
    BY <1>14, <2>3, <2>4
  <2>6. ~ (Cardinality(Findings(a.trace)) > 0)
    BY <1>14, <1>17, <1>20, <2>1, <2>4
  <2>7. Findings(a.trace) = {}
    BY <1>10, <2>6, FS_EmptySet, FS_CardinalityType
  <2>8. a.touched = a.targets
    BY <2>5
  <2> QED BY <2>7, <2>8
<1> HIDE DEF run
<1> QED BY <1>3, <1>6, <1>15, <1>16, <1>18, <1>19, <1>20 DEF es

-----------------------------------------------------------------------------
\* The label of a cluster of a list, and the last cluster with a label.
LabelAt(clusters, i) == Label(clusters[i].signature)
With(clusters, label) == {i \in DOMAIN clusters : LabelAt(clusters, i) = label}
LabelsOfAll(clusters) == {LabelAt(clusters, i) : i \in DOMAIN clusters}

\* A shift from nothing gives each label the size of the last cluster with it.
LEMMA ShiftTells ==
    ASSUME NEW clusters
    PROVE  LET shift == ClusterShift(<<>>, clusters)
           IN /\ DOMAIN shift = LabelsOfAll(clusters)
              /\ \A label \in LabelsOfAll(clusters) :
                    shift[label][2] = Cardinality(clusters[Max(With(clusters, label))].attempts)
<1> DEFINE Named(cs) == {LabelAt(cs, i) : i \in DOMAIN cs}
           SizeOf(cs, label) == IF With(cs, label) = {} THEN 0
                                ELSE Cardinality(cs[Max(With(cs, label))].attempts)
           shift == ClusterShift(<<>>, clusters)
<1>1. shift = [label \in Named(<<>>) \cup Named(clusters) |-> <<SizeOf(<<>>, label), SizeOf(clusters, label)>>]
  BY DEF ClusterShift, LabelAt, With
<1>2. Named(<<>>) = {} /\ Named(clusters) = LabelsOfAll(clusters)
  <2>1. DOMAIN <<>> = {}
    OBVIOUS
  <2> QED BY <2>1 DEF LabelsOfAll
<1>3. \A label \in LabelsOfAll(clusters) : With(clusters, label) # {}
  BY DEF LabelsOfAll, With
<1> HIDE DEF Named, SizeOf, shift
<1>4. shift = [label \in LabelsOfAll(clusters) |-> <<SizeOf(<<>>, label), SizeOf(clusters, label)>>]
  <2>1. Named(<<>>) \cup Named(clusters) = LabelsOfAll(clusters)
    BY <1>2
  <2> QED BY <1>1, <2>1
<1>5. DOMAIN shift = LabelsOfAll(clusters)
      /\ \A label \in LabelsOfAll(clusters) : shift[label][2] = SizeOf(clusters, label)
  BY <1>4
<1> QED BY <1>3, <1>5 DEF SizeOf, shift

\* A list of clusters as they are of a run: each failure is in one of them, with
\* the label of its shape.
Grouped(run, clusters, n) ==
    /\ n \in Nat /\ DOMAIN clusters = 1 .. n /\ IsFiniteSet(Failures(run))
    /\ \A i \in 1 .. n :
        /\ clusters[i].attempts # {} /\ clusters[i].attempts \subseteq Failures(run)
        /\ \A k \in clusters[i].attempts : Signature(run.results[k]) = clusters[i].signature
    /\ \A i, j \in 1 .. n : i # j => clusters[i].attempts \cap clusters[j].attempts = {}
    /\ \A k \in Failures(run) : \E i \in 1 .. n : k \in clusters[i].attempts

\* The clusters of a run are.
LEMMA ClustersGroup ==
    ASSUME RunsWhole, NEW r \in Recorded
    PROVE  \E n : Grouped(db[r], Clusters(db[r]), n)
<1>1. PICK run, clusters, S : run = db[r] /\ clusters = Clusters(run) /\ S = ClusterSet(run)
  OBVIOUS
<1>2. PICK n : n = Len(clusters)
  OBVIOUS
<1>3. /\ n \in Nat /\ DOMAIN clusters = 1 .. n
      /\ \A x \in S : \E i \in 1 .. n : clusters[i] = x
      /\ \A i \in 1 .. n : clusters[i] \in S
      /\ \A i, j \in 1 .. n : i # j => clusters[i] # clusters[j]
  <2>1. /\ clusters \in Seq(S) /\ Len(clusters) \in Nat /\ DOMAIN clusters = 1 .. Len(clusters)
        /\ \A x \in S : \E i \in DOMAIN clusters : clusters[i] = x
        /\ \A i \in DOMAIN clusters : clusters[i] \in S
        /\ \A i, j \in DOMAIN clusters : i # j => clusters[i] # clusters[j]
    <3>1. S = ClusterSet(db[r]) /\ clusters = Clusters(db[r])
      BY <1>1
    <3> QED BY ONLY ZenonT(60), RunsWhole, r \in Recorded, <3>1, ClustersList
  <2> QED BY <1>2, <2>1
<1>4. /\ IsFiniteSet(Failures(run))
      /\ \A x \in S :
            /\ x.attempts # {} /\ x.attempts \subseteq Failures(run)
            /\ \A k \in x.attempts : Signature(run.results[k]) = x.signature
      /\ \A x, y \in S : x # y => x.attempts \cap y.attempts = {}
      /\ \A k \in Failures(run) : \E x \in S : k \in x.attempts
  BY <1>1, ClusterSetTells
<1>5. \A k \in Failures(run) : \E i \in 1 .. n : k \in clusters[i].attempts
  BY <1>3, <1>4
<1>6. \A i \in 1 .. n :
        /\ clusters[i].attempts # {} /\ clusters[i].attempts \subseteq Failures(run)
        /\ \A k \in clusters[i].attempts : Signature(run.results[k]) = clusters[i].signature
  BY <1>3, <1>4
<1>7. \A i, j \in 1 .. n : i # j => clusters[i].attempts \cap clusters[j].attempts = {}
  BY <1>3, <1>4
<1>8. Grouped(run, clusters, n)
  BY <1>3, <1>4, <1>5, <1>6, <1>7 DEF Grouped
<1> QED BY <1>1, <1>8

\* The failures in the last clusters of their labels.
Told(run, clusters) ==
    {k \in Failures(run) :
        k \in clusters[Max(With(clusters, Label(Signature(run.results[k]))))].attempts}

\* They are all failures exactly when no two clusters share a label.
LEMMA ToldTells ==
    ASSUME NEW run, NEW clusters, NEW n, Grouped(run, clusters, n)
    PROVE  /\ \A label \in LabelsOfAll(clusters) :
                LET l == Max(With(clusters, label))
                IN l \in 1 .. n /\ LabelAt(clusters, l) = label
           /\ Told(run, clusters) = Failures(run) <=> IsInjective(LabelIn(clusters))
<1> DEFINE F == Failures(run)
           last(label) == Max(With(clusters, label))
<1>1. /\ n \in Nat /\ DOMAIN clusters = 1 .. n /\ IsFiniteSet(F)
      /\ \A i \in 1 .. n :
          /\ clusters[i].attempts # {} /\ clusters[i].attempts \subseteq F
          /\ \A k \in clusters[i].attempts : Signature(run.results[k]) = clusters[i].signature
      /\ \A i, j \in 1 .. n : i # j => clusters[i].attempts \cap clusters[j].attempts = {}
      /\ \A k \in F : \E i \in 1 .. n : k \in clusters[i].attempts
  BY DEF Grouped
<1>2. ASSUME NEW label \in LabelsOfAll(clusters)
      PROVE  last(label) \in 1 .. n /\ LabelAt(clusters, last(label)) = label
  <2>1. /\ With(clusters, label) \subseteq 1 .. n /\ With(clusters, label) # {}
        /\ \A i \in With(clusters, label) : LabelAt(clusters, i) = label
    BY <1>1 DEF With, LabelsOfAll
  <2>2. IsFiniteSet(With(clusters, label)) /\ With(clusters, label) \subseteq Int
    BY <1>1, <2>1, UpToFinite, FS_Subset
  <2>3. Max(With(clusters, label)) \in With(clusters, label)
    BY <2>1, <2>2, Largest
  <2> QED BY <2>1, <2>3
<1>3. ASSUME NEW i \in 1 .. n, NEW k \in clusters[i].attempts
      PROVE  Label(Signature(run.results[k])) = LabelAt(clusters, i)
             /\ LabelAt(clusters, i) \in LabelsOfAll(clusters)
  BY <1>1 DEF LabelAt, LabelsOfAll
<1>4. IsInjective(LabelIn(clusters)) <=>
        \A i, j \in 1 .. n : LabelAt(clusters, i) = LabelAt(clusters, j) => i = j
  BY <1>1 DEF IsInjective, LabelIn, LabelAt
<1> HIDE DEF F, last
<1>5. ASSUME \A i, j \in 1 .. n : LabelAt(clusters, i) = LabelAt(clusters, j) => i = j,
             NEW k \in F
      PROVE  k \in clusters[last(Label(Signature(run.results[k])))].attempts
  <2>1. PICK i \in 1 .. n : k \in clusters[i].attempts
    BY <1>1
  <2>2. PICK label : label = LabelAt(clusters, i)
    OBVIOUS
  <2>3. Label(Signature(run.results[k])) = label /\ label \in LabelsOfAll(clusters)
    BY <1>3, <2>1, <2>2
  <2>4. last(label) = i
    BY <1>2, <1>5, <2>2, <2>3
  <2> QED BY <2>1, <2>3, <2>4
<1>6. ASSUME \A k \in F : k \in clusters[last(Label(Signature(run.results[k])))].attempts,
             NEW i \in 1 .. n
      PROVE  i = last(LabelAt(clusters, i))
  <2>1. PICK k : k \in clusters[i].attempts
    BY <1>1
  <2>2. Label(Signature(run.results[k])) = LabelAt(clusters, i)
        /\ LabelAt(clusters, i) \in LabelsOfAll(clusters)
    BY <1>3, <2>1
  <2>3. k \in F
    BY <1>1, <2>1
  <2>4. k \in clusters[last(LabelAt(clusters, i))].attempts
    BY <1>6, <2>2, <2>3
  <2> QED BY <1>1, <1>2, <2>1, <2>2, <2>4
<1>7. Told(run, clusters) = F <=>
          \A k \in F : k \in clusters[last(Label(Signature(run.results[k])))].attempts
  BY DEF Told, F, last
<1>8. ASSUME \A k \in F : k \in clusters[last(Label(Signature(run.results[k])))].attempts,
             NEW i \in 1 .. n, NEW j \in 1 .. n, LabelAt(clusters, i) = LabelAt(clusters, j)
      PROVE  i = j
  <2>1. i = last(LabelAt(clusters, i)) /\ j = last(LabelAt(clusters, j))
    BY <1>6, <1>8
  <2> QED BY <1>8, <2>1
<1> QED BY <1>2, <1>4, <1>5, <1>7, <1>8 DEF F, last

\* A shift tells of every failure exactly when no two clusters share a label.
LEMMA ShiftAlwaysConserves ==
    ASSUME RunsWhole, NEW r \in Recorded
    PROVE  ShiftConserves(db[r], Clusters(db[r]))
<1>1. PICK run, clusters : run = db[r] /\ clusters = Clusters(run)
  OBVIOUS
<1>2. PICK n : Grouped(run, clusters, n)
  BY <1>1, ClustersGroup
<1>3. PICK shift : shift = ClusterShift(<<>>, clusters)
  OBVIOUS
<1> DEFINE F == Failures(run)
           A == Told(run, clusters)
           L == LabelsOfAll(clusters)
           labelOf == [k \in F |-> Label(Signature(run.results[k]))]
           counts == [label \in DOMAIN shift |-> shift[label][2]]
<1>4. /\ n \in Nat /\ DOMAIN clusters = 1 .. n /\ IsFiniteSet(F)
      /\ \A i \in 1 .. n :
          /\ clusters[i].attempts \subseteq F
          /\ \A k \in clusters[i].attempts : Signature(run.results[k]) = clusters[i].signature
      /\ \A k \in F : \E i \in 1 .. n : k \in clusters[i].attempts
  BY <1>2 DEF Grouped
<1>5. /\ \A label \in L : LET l == Max(With(clusters, label))
                          IN l \in 1 .. n /\ LabelAt(clusters, l) = label
      /\ A = F <=> IsInjective(LabelIn(clusters))
  BY <1>2, ToldTells
<1>6. DOMAIN counts = L
      /\ \A label \in L : counts[label] = Cardinality(clusters[Max(With(clusters, label))].attempts)
  BY <1>3, ShiftTells
<1>7. A \in SUBSET F /\ \A k \in F : k \in A <=> k \in clusters[Max(With(clusters, labelOf[k]))].attempts
  BY DEF Told
<1>8. \A k \in F : labelOf[k] = Label(Signature(run.results[k])) /\ labelOf[k] \in L
  BY <1>4 DEF LabelAt, LabelsOfAll
<1>9. IsFiniteSet(L)
  <2> DEFINE g == [i \in 1 .. n |-> LabelAt(clusters, i)]
  <2>1. g \in Surjection(1 .. n, L)
    BY <1>4 DEF LabelsOfAll, Surjection
  <2> QED BY <1>4, <2>1, UpToFinite, FS_Surjection
<1> HIDE DEF F, A, L, labelOf, counts
<1>10. ASSUME NEW label \in L PROVE counts[label] = Cardinality(Fibre(A, labelOf, label))
  <2>1. PICK l : l = Max(With(clusters, label))
    OBVIOUS
  <2>2. l \in 1 .. n /\ LabelAt(clusters, l) = label
    BY <1>5, <2>1
  <2>3. ASSUME NEW k \in clusters[l].attempts PROVE k \in A /\ labelOf[k] = label
    <3>1. k \in F /\ labelOf[k] = label
      BY <1>4, <1>8, <2>2 DEF LabelAt
    <3> QED BY <1>7, <2>1, <3>1
  <2>4. ASSUME NEW k \in A, labelOf[k] = label PROVE k \in clusters[l].attempts
    BY <1>7, <2>1, <2>4
  <2>5. Fibre(A, labelOf, label) = clusters[l].attempts
    BY <2>3, <2>4 DEF Fibre
  <2> QED BY <1>6, <2>1, <2>5
<1>11. IsFiniteSet(A) /\ Cardinality(A) \in Nat /\ Cardinality(A) <= Cardinality(F)
       /\ (Cardinality(A) = Cardinality(F) <=> A = F)
  BY <1>4, <1>7, CountOfPart
<1>12. SumFunctionOnSet(counts, L) = Cardinality(Within(A, labelOf, L))
  BY <1>9, <1>10, <1>11, FibresCount
<1>13. Within(A, labelOf, L) = A
  BY <1>7, <1>8 DEF Within
<1>14. SumFunction(counts) = Cardinality(A)
  BY <1>6, <1>12, <1>13 DEF SumFunction
<1> QED BY <1>1, <1>3, <1>5, <1>11, <1>14 DEF ShiftConserves, F, counts

-----------------------------------------------------------------------------
\* The purity of a cluster with labels: the share of its commonest fault is one
\* exactly when it has one fault.
LEMMA PurityOfOne ==
    ASSUME NEW cluster, IsFiniteSet(cluster.attempts), DOMAIN KindCounts(cluster) # {}
    PROVE  \E m, s \in Nat \ {0} :
              /\ Purity(cluster) = <<m, s>> /\ m <= s
              /\ m = s <=> Cardinality(DOMAIN KindCounts(cluster)) = 1
<1> DEFINE labelled == {k \in cluster.attempts : k[1] \in DOMAIN BugKinds}
           kinds == {BugKinds[k[1]] : k \in labelled}
           counts == KindCounts(cluster)
           Of(b) == {k \in labelled : BugKinds[k[1]] = b}
<1>1. counts = [b \in kinds |-> Cardinality(Of(b))]
  BY DEF KindCounts
<1>2. IsFiniteSet(labelled)
  BY FS_Subset
<1>3. IsFiniteSet(kinds)
  <2> DEFINE g == [k \in labelled |-> BugKinds[k[1]]]
  <2>1. g \in Surjection(labelled, kinds)
    BY DEF Surjection
  <2> QED BY <1>2, <2>1, FS_Surjection
<1>4. \A b \in kinds : Of(b) # {} /\ Of(b) \subseteq labelled
  OBVIOUS
<1>5. DOMAIN counts = kinds /\ \A b \in kinds : counts[b] = Cardinality(Of(b))
  BY <1>1
<1>6. Purity(cluster) = <<Max(Range(counts)), SumFunction(counts)>>
  BY DEF Purity
<1> HIDE DEF labelled, kinds, counts, Of
<1>7. \A b \in kinds : counts[b] \in Nat \ {0}
  BY <1>2, <1>4, <1>5, FS_Subset, FS_EmptySet, FS_CardinalityType
<1>8. PICK b \in kinds : Max(Range(counts)) = counts[b]
  <2>1. Range(counts) \subseteq Int /\ Range(counts) # {}
    BY <1>5, <1>7 DEF Range, counts
  <2>2. IsFiniteSet(Range(counts))
    <3>1. counts \in Surjection(kinds, Range(counts))
      <4>1. counts = [c \in kinds |-> counts[c]]
        BY <1>1, <1>5
      <4> QED BY <1>5, <4>1 DEF Range, Surjection
    <3> QED BY <1>3, <3>1, FS_Surjection
  <2>3. Max(Range(counts)) \in Range(counts)
    BY <2>1, <2>2, Largest
  <2> QED BY <1>5, <2>3 DEF Range
<1>9. PICK m \in Nat \ {0} : m = counts[b]
  BY <1>7
<1>10. PICK rest : rest = kinds \ {b}
  OBVIOUS
<1>11. IsFiniteSet(rest) /\ \A c \in kinds : counts[c] \in Int
  BY <1>3, <1>7, <1>10, FS_Subset
<1>12. SumFunctionOnSet(counts, kinds) = m + SumFunctionOnSet(counts, rest)
  BY <1>3, <1>9, <1>10, <1>11, SumStep
<1>13. PICK o \in Nat : o = SumFunctionOnSet(counts, rest) /\ (o = 0 <=> rest = {})
  <2>1. SumFunctionOnSet(counts, rest) \in Nat
    <3>1. \A c \in rest : counts[c] \in Nat
      BY <1>7, <1>10
    <3> QED BY <1>11, <3>1, SumOfNaturals
  <2>2. rest = {} => SumFunctionOnSet(counts, rest) = 0
    BY <1>3, <1>11, SumStep
  <2>3. ASSUME NEW c \in rest PROVE SumFunctionOnSet(counts, rest) > 0
    <3>1. \A d \in rest : counts[d] \in Int /\ counts[d] \in Nat \ {0}
      BY <1>7, <1>10
    <3>2. SumFunctionOnSet(counts, rest) = counts[c] + SumFunctionOnSet(counts, rest \ {c})
      BY <1>11, <3>1, SumStep
    <3>3. IsFiniteSet(rest \ {c}) /\ \A d \in rest \ {c} : counts[d] \in Nat
      BY <1>11, <3>1, FS_Subset
    <3>4. SumFunctionOnSet(counts, rest \ {c}) \in Int /\ SumFunctionOnSet(counts, rest \ {c}) >= 0
      BY <3>3, SumOfNaturals
    <3>5. counts[c] \in Nat \ {0}
      BY <3>1
    <3> QED BY <3>2, <3>4, <3>5
  <2> QED BY <2>1, <2>2, <2>3
<1>14. SumFunction(counts) = m + o
  BY <1>5, <1>12, <1>13 DEF SumFunction
<1>15. Cardinality(kinds) = 1 <=> rest = {}
  <2>1. Cardinality(rest) = Cardinality(kinds) - 1 /\ Cardinality(rest) \in Nat /\ Cardinality(kinds) \in Nat
    BY <1>3, <1>10, <1>11, FS_RemoveElement, FS_CardinalityType
  <2> QED BY <1>11, <2>1, FS_EmptySet
<1>16. PICK s \in Nat \ {0} : s = m + o
  OBVIOUS
<1>17. Purity(cluster) = <<m, s>> /\ m <= s /\ (m = s <=> Cardinality(DOMAIN counts) = 1)
  BY <1>5, <1>6, <1>8, <1>9, <1>13, <1>14, <1>15, <1>16
<1> QED BY <1>17 DEF counts

\* One more share in a weighted mean of shares.
LEMMA ShareAdded ==
    ASSUME NEW w \in Nat, NEW d \in Nat \ {0}, NEW z \in Nat, w <= d * z,
           NEW m \in Nat \ {0}, NEW s \in Nat \ {0}, m <= s, NEW size \in Nat \ {0}
    PROVE  LET v == w * s + m * size * d
               e == d * s
           IN /\ v \in Nat \ {0} /\ e \in Nat \ {0}
              /\ v <= e * (z + size)
              /\ v = e * (z + size) <=> w = d * z /\ m = s
<1>1. PICK x \in Nat, y \in Nat \ {0} : x = d * z /\ y = size * d
  BY ONLY d \in Nat \ {0}, z \in Nat, size \in Nat \ {0}
<1>2. PICK v \in Nat : v = w * s + m * size * d /\ v = s * w + y * m
  <2>1. w * s = s * w /\ m * size * d = (size * d) * m
    BY ONLY w \in Nat, s \in Nat \ {0}, m \in Nat \ {0}, size \in Nat \ {0}, d \in Nat \ {0}
  <2>2. s * w \in Nat /\ y * m \in Nat
    BY ONLY w \in Nat, s \in Nat \ {0}, m \in Nat \ {0}, y \in Nat \ {0}
  <2> QED BY <1>1, <2>1, <2>2
<1>3. PICK e \in Nat \ {0} : e = d * s
  BY ONLY d \in Nat \ {0}, s \in Nat \ {0}
<1>4. e * (z + size) = s * x + y * s
  <2>1. (d * s) * (z + size) = s * (d * z) + (size * d) * s
    BY ONLY d \in Nat \ {0}, s \in Nat \ {0}, z \in Nat, size \in Nat \ {0}
  <2> QED BY ONLY <1>1, <1>3, <2>1
<1>5. PICK a \in Nat, b \in Nat, f \in Nat, g \in Nat :
        a = s * w /\ b = s * x /\ f = y * m /\ g = y * s
  BY ONLY w \in Nat, x \in Nat, y \in Nat \ {0}, s \in Nat \ {0}, m \in Nat \ {0}
<1>6. (b > a <=> x > w) /\ (b = a <=> x = w)
  BY ONLY <1>5, s \in Nat \ {0}, w \in Nat, x \in Nat, FactorKept
<1>7. (g > f <=> s > m) /\ (g = f <=> s = m)
  BY ONLY <1>5, y \in Nat \ {0}, s \in Nat \ {0}, m \in Nat \ {0}, FactorKept
<1>8. f > 0
  BY ONLY <1>5, y \in Nat \ {0}, m \in Nat \ {0}
<1>9. v = a + f /\ e * (z + size) = b + g
  BY <1>2, <1>4, <1>5
<1>10. a <= b /\ f <= g /\ (a = b <=> w = d * z) /\ (f = g <=> m = s)
  BY <1>1, <1>6, <1>7
<1> QED BY <1>2, <1>3, <1>5, <1>8, <1>9, <1>10

\* The clusters with labels, and overall_purity cluster by cluster.
Faulty(clusters) == {i \in DOMAIN clusters : DOMAIN KindCounts(clusters[i]) # {}}
NoShare == [weighted |-> <<0, 1>>, size |-> 0]
AddShare(sum, p, size) ==
    [weighted |-> <<sum.weighted[1] * p[2] + p[1] * size * sum.weighted[2],
                    sum.weighted[2] * p[2]>>,
     size |-> sum.size + size]
ShareStep(clusters, sum, i) ==
    IF i \in Faulty(clusters)
    THEN AddShare(sum, Purity(clusters[i]), Size(clusters[i])) ELSE sum
Sharing(g, clusters) ==
    g = [i \in 0 .. Len(clusters) |-> IF i = 0 THEN NoShare ELSE ShareStep(clusters, g[i - 1], i)]

\* Clusters whose purity can be added up.
Shareable(clusters, n) ==
    /\ n \in Nat /\ n = Len(clusters) /\ DOMAIN clusters = 1 .. n
    /\ \A i \in 1 .. n : Size(clusters[i]) \in Nat \ {0} /\ IsFiniteSet(clusters[i].attempts)

\* What holds of the weighted sum after i clusters.
Shared(g, clusters, i) ==
    LET w == g[i].weighted[1]
        d == g[i].weighted[2]
        z == g[i].size
        met == {j \in Faulty(clusters) : j <= i}
    IN /\ w \in Nat /\ d \in Nat \ {0} /\ z \in Nat /\ w <= d * z
       /\ met # {} => w > 0
       /\ w = d * z <=> \A j \in met : Cardinality(DOMAIN KindCounts(clusters[j])) = 1

\* One more cluster.
LEMMA ShareStepTells ==
    ASSUME NEW clusters, NEW n, Shareable(clusters, n), NEW i \in 1 .. n,
           NEW g, NEW h, Shared(g, clusters, i - 1), h[i] = ShareStep(clusters, g[i - 1], i)
    PROVE  Shared(h, clusters, i)
<1>1. i \in Nat /\ Faulty(clusters) \subseteq Nat /\ n \in Nat
  BY DEF Shareable, Faulty
<1>2. PICK w \in Nat, d \in Nat \ {0}, z \in Nat :
        w = g[i - 1].weighted[1] /\ d = g[i - 1].weighted[2] /\ z = g[i - 1].size
  BY DEF Shared
<1> DEFINE met(j) == {k \in Faulty(clusters) : k <= j}
           One(j) == Cardinality(DOMAIN KindCounts(clusters[j])) = 1
<1>3. /\ w <= d * z /\ (met(i - 1) # {} => w > 0)
      /\ w = d * z <=> \A j \in met(i - 1) : One(j)
  BY <1>2 DEF Shared
<1>4. CASE i \notin Faulty(clusters)
  <2>1. h[i] = g[i - 1]
    BY <1>4 DEF ShareStep
  <2>2. met(i) = met(i - 1)
    BY <1>1, <1>4
  <2> QED BY <1>2, <1>3, <2>1, <2>2 DEF Shared
<1>5. CASE i \in Faulty(clusters)
  <2>1. met(i) = met(i - 1) \cup {i}
    BY <1>1, <1>5
  <2>2. PICK m \in Nat \ {0}, s \in Nat \ {0} :
          Purity(clusters[i]) = <<m, s>> /\ m <= s /\ (m = s <=> One(i))
    <3>1. IsFiniteSet(clusters[i].attempts) /\ DOMAIN KindCounts(clusters[i]) # {}
      BY <1>5 DEF Shareable, Faulty
    <3> QED BY <3>1, PurityOfOne
  <2>3. PICK size \in Nat \ {0} : size = Size(clusters[i])
    BY DEF Shareable
  <2>4. h[i] = [weighted |-> <<w * s + m * size * d, d * s>>, size |-> z + size]
    BY <1>2, <1>5, <2>2, <2>3 DEF ShareStep, AddShare
  <2>5. PICK v, e : v = w * s + m * size * d /\ e = d * s
    OBVIOUS
  <2>6. /\ v \in Nat \ {0} /\ e \in Nat \ {0} /\ v <= e * (z + size)
        /\ v = e * (z + size) <=> w = d * z /\ m = s
    BY ONLY <1>3, <2>2, <2>5, w \in Nat, d \in Nat \ {0}, z \in Nat, m \in Nat \ {0},
            s \in Nat \ {0}, size \in Nat \ {0}, ShareAdded
  <2>7. h[i].weighted[1] = v /\ h[i].weighted[2] = e /\ h[i].size = z + size
    BY <2>4, <2>5
  <2>8. v = e * (z + size) <=> \A j \in met(i) : One(j)
    BY <1>3, <2>1, <2>2, <2>6
  <2>9. z + size \in Nat /\ v > 0
    BY <2>6
  <2> HIDE DEF met, One
  <2>10. /\ h[i].weighted[1] \in Nat /\ h[i].weighted[2] \in Nat \ {0} /\ h[i].size \in Nat
         /\ h[i].weighted[1] <= h[i].weighted[2] * h[i].size /\ h[i].weighted[1] > 0
         /\ h[i].weighted[1] = h[i].weighted[2] * h[i].size <=> \A j \in met(i) : One(j)
    BY ONLY <2>6, <2>7, <2>8, <2>9
  <2> QED BY <2>10 DEF Shared, met, One
<1> QED BY <1>4, <1>5

\* The sum of all clusters, and the mean that OverallPurity makes of it.
LEMMA PurityShared ==
    ASSUME NEW clusters, NEW n, Shareable(clusters, n), Faulty(clusters) # {}
    PROVE  \E g : /\ Shared(g, clusters, n)
                  /\ OverallPurity(clusters)
                        = <<g[n].weighted[1], g[n].weighted[2] * g[n].size>>
<1>1. n \in Nat /\ n = Len(clusters)
  BY DEF Shareable
<1> DEFINE X == {x \in [weighted : Nat \X (Nat \ {0}), size : Nat] : TRUE}
           step == [p \in X \X (1 .. n) |-> ShareStep(clusters, p[1], p[2])]
<1>2. NoShare \in X
  BY DEF NoShare
<1>3. ASSUME NEW x \in X, NEW i \in 1 .. n PROVE ShareStep(clusters, x, i) \in X
  <2>1. CASE i \notin Faulty(clusters)
    BY <2>1 DEF ShareStep
  <2>2. CASE i \in Faulty(clusters)
    <3>1. PICK m \in Nat \ {0}, s \in Nat \ {0} : Purity(clusters[i]) = <<m, s>>
      <4>1. IsFiniteSet(clusters[i].attempts) /\ DOMAIN KindCounts(clusters[i]) # {}
        BY <2>2 DEF Shareable, Faulty
      <4> QED BY <4>1, PurityOfOne
    <3>2. PICK size \in Nat \ {0} : size = Size(clusters[i])
      BY DEF Shareable
    <3>3. PICK w \in Nat, d \in Nat \ {0}, z \in Nat :
            w = x.weighted[1] /\ d = x.weighted[2] /\ z = x.size
      OBVIOUS
    <3>4. ShareStep(clusters, x, i) = [weighted |-> <<w * s + m * size * d, d * s>>, size |-> z + size]
      BY <2>2, <3>1, <3>2, <3>3 DEF ShareStep, AddShare
    <3>5. w * s + m * size * d \in Nat /\ d * s \in Nat \ {0} /\ z + size \in Nat
      BY ONLY w \in Nat, d \in Nat \ {0}, z \in Nat, m \in Nat \ {0}, s \in Nat \ {0},
              size \in Nat \ {0}
    <3> QED BY <3>4, <3>5
  <2> QED BY <2>1, <2>2
<1>4. step \in [X \X (1 .. n) -> X]
  <2>1. \A p \in X \X (1 .. n) : p[1] \in X /\ p[2] \in 1 .. n
    OBVIOUS
  <2> HIDE DEF X
  <2> QED BY <1>3, <2>1
<1>5. \A x \in X, i \in 1 .. n : step[<<x, i>>] = ShareStep(clusters, x, i)
  <2> HIDE DEF X
  <2> QED OBVIOUS
<1> HIDE DEF step, X
<1>6. PICK g : /\ g \in [0 .. n -> X] /\ g[0] = NoShare
               /\ \A i \in 1 .. n : g[i] = step[<<g[i - 1], i>>]
  <2>1. PICK base, Y, next : base = NoShare /\ Y = X /\ next = step
    OBVIOUS
  <2>2. base \in Y /\ next \in [Y \X (1 .. n) -> Y]
    BY <1>2, <1>4, <2>1
  <2>3. PICK g : Stepwise(g, n, Y, base, next)
    BY ONLY <1>1, <2>2, StepsExist
  <2> QED BY <2>1, <2>3 DEF Stepwise
<1>7. Sharing(g, clusters)
  <2>1. ASSUME NEW i \in 0 .. n
        PROVE  g[i] = IF i = 0 THEN NoShare ELSE ShareStep(clusters, g[i - 1], i)
    <3>1. CASE i = 0
      BY <1>6, <3>1
    <3>2. CASE i # 0
      <4>1. i \in 1 .. n /\ i - 1 \in 0 .. n
        BY <1>1, <3>2
      <4>2. g[i - 1] \in X
        BY <1>6, <4>1
      <4> QED BY <1>5, <1>6, <3>2, <4>1, <4>2
    <3> QED BY <3>1, <3>2
  <2>2. g = [i \in 0 .. n |-> g[i]]
    BY <1>6
  <2> QED BY <1>1, <2>1, <2>2 DEF Sharing
<1> DEFINE f == CHOOSE h : Sharing(h, clusters)
<1>8. Sharing(f, clusters)
  BY <1>7, Zenon
<1>9. OverallPurity(clusters) = <<f[n].weighted[1], f[n].weighted[2] * f[n].size>>
  BY <1>1, Zenon DEF OverallPurity, Sharing, NoShare, ShareStep, AddShare, Faulty, Size
<1> HIDE DEF f
<1>10. f[0] = NoShare /\ \A i \in 1 .. n : f[i] = ShareStep(clusters, f[i - 1], i)
  <2>1. \A i \in 0 .. n : f[i] = IF i = 0 THEN NoShare ELSE ShareStep(clusters, f[i - 1], i)
    BY <1>1, <1>8 DEF Sharing
  <2>2. \A i \in 1 .. n : i \in 0 .. n /\ i # 0
    BY <1>1
  <2>3. 0 \in 0 .. n
    BY <1>1
  <2> QED BY <2>1, <2>2, <2>3
<1>11. Shared(f, clusters, 0)
  <2>1. Faulty(clusters) \subseteq 1 .. n
    BY DEF Faulty, Shareable
  <2>2. {j \in Faulty(clusters) : j <= 0} = {}
    BY <1>1, <2>1
  <2>3. f[0].weighted[1] = 0 /\ f[0].weighted[2] = 1 /\ f[0].size = 0
    BY <1>10 DEF NoShare
  <2> QED BY <2>2, <2>3 DEF Shared
<1>12. \A i \in 1 .. n : Shared(f, clusters, i - 1) => Shared(f, clusters, i)
  BY <1>10, ShareStepTells
<1> DEFINE T == {i \in 0 .. n : ~ Shared(f, clusters, i)}
<1>13. ASSUME T # {} PROVE FALSE
  <2>1. T \subseteq Nat
    BY <1>1
  <2> HIDE DEF T
  <2>2. PICK i \in T : \A j \in T : i <= j
    BY <1>13, <2>1, LeastNumber
  <2>3. i \in 0 .. n /\ ~ Shared(f, clusters, i)
    BY <2>2 DEF T
  <2>4. i # 0
    BY <1>11, <2>3
  <2>5. i \in 1 .. n /\ i - 1 \in 0 .. n /\ ~ (i <= i - 1)
    BY <1>1, <2>3, <2>4
  <2>6. i - 1 \notin T
    BY <2>2, <2>5
  <2>7. Shared(f, clusters, i - 1)
    BY <2>5, <2>6 DEF T
  <2> QED BY <1>12, <2>3, <2>5, <2>7
<1>14. Shared(f, clusters, n)
  BY <1>1, <1>13
<1> QED BY <1>9, <1>14

\* The purity of a run is one exactly when no cluster mixes two faults.
LEMMA PurityAlwaysTells ==
    ASSUME RunsWhole, NEW r \in Recorded
    PROVE  PurityTells(Clusters(db[r]))
<1>1. PICK clusters : clusters = Clusters(db[r])
  OBVIOUS
<1>2. PICK n : n = Len(clusters)
  OBVIOUS
<1>3. Shareable(clusters, n)
  <2>1. PICK S : S = ClusterSet(db[r])
    OBVIOUS
  <2>2. /\ n \in Nat /\ DOMAIN clusters = 1 .. n /\ \A i \in 1 .. n : clusters[i] \in S
    BY <1>1, <1>2, <2>1, ClustersList
  <2>3. \A x \in S : x.attempts # {} /\ IsFiniteSet(x.attempts)
    BY <2>1, ClusterSetTells
  <2>4. \A x \in S : Size(x) \in Nat \ {0}
    BY <2>3, FS_EmptySet, FS_CardinalityType DEF Size
  <2> QED BY <1>2, <2>2, <2>3, <2>4 DEF Shareable
<1> DEFINE kinds == {DOMAIN KindCounts(clusters[i]) : i \in DOMAIN clusters} \ {{}}
           purity == OverallPurity(clusters)
<1>4. /\ kinds # {} => Faulty(clusters) # {}
      /\ (\A ks \in kinds : Cardinality(ks) = 1) <=>
            \A j \in Faulty(clusters) : Cardinality(DOMAIN KindCounts(clusters[j])) = 1
  BY DEF Faulty
<1>5. ASSUME kinds # {}
      PROVE  /\ 0 < purity[1] /\ purity[1] <= purity[2]
             /\ purity[1] = purity[2] <=> \A ks \in kinds : Cardinality(ks) = 1
  <2>1. PICK g : /\ Shared(g, clusters, n)
                 /\ purity = <<g[n].weighted[1], g[n].weighted[2] * g[n].size>>
    BY <1>3, <1>4, <1>5, PurityShared
  <2>2. {j \in Faulty(clusters) : j <= n} = Faulty(clusters)
    BY <1>3 DEF Shareable, Faulty
  <2>3. PICK w, o : w = g[n].weighted[1] /\ o = g[n].weighted[2] * g[n].size
    OBVIOUS
  <2>4. /\ w \in Nat /\ w <= o /\ w > 0
        /\ w = o <=> \A j \in Faulty(clusters) : Cardinality(DOMAIN KindCounts(clusters[j])) = 1
    BY <1>4, <1>5, <2>1, <2>2, <2>3 DEF Shared
  <2>5. purity[1] = w /\ purity[2] = o
    BY <2>1, <2>3
  <2> HIDE DEF purity, kinds
  <2> QED BY <1>4, <2>4, <2>5
<1> QED BY <1>1, <1>5 DEF PurityTells

\* The clusters of every run are sound.
LEMMA ClusteringAlwaysSound ==
    ASSUME RunsWhole
    PROVE  ClusteringSound
<1>1. \A r \in Recorded : ClusterCommand(db, r, "loaded").clusters = Clusters(db[r])
  BY DEF ClusterCommand
<1> QED BY <1>1, AlwaysPartitioned, LabelsAlwaysTell, ShiftAlwaysConserves, PurityAlwaysTells
        DEF ClusteringSound
-----------------------------------------------------------------------------
\* h is the factorial of the numbers up to n.
FactorialUpTo(h, n) == h = [i \in 0 .. n |-> IF i = 0 THEN 1 ELSE i * h[i - 1]]

\* There is one, of positive numbers.
LEMMA FactorialReaches ==
    ASSUME NEW n \in Nat
    PROVE  \E h \in [0 .. n -> Nat \ {0}] : FactorialUpTo(h, n)
<1> DEFINE X == Nat \ {0}
           step == [p \in X \X (1 .. n) |-> p[2] * p[1]]
<1>1. 1 \in X
  OBVIOUS
<1>2. \A p \in X \X (1 .. n) : p[2] * p[1] \in X
  <2>1. \A a \in X, b \in X : b * a \in X
    OBVIOUS
  <2> QED BY <2>1
<1>3. step \in [X \X (1 .. n) -> X]
  BY <1>2
<1>4. \A x \in X, i \in 1 .. n : step[<<x, i>>] = i * x
  OBVIOUS
<1> HIDE DEF step, X
<1>5. PICK h : Stepwise(h, n, X, 1, step)
  BY <1>1, <1>3, StepsExist
<1>6. h \in [0 .. n -> X] /\ h[0] = 1 /\ \A i \in 1 .. n : h[i] = step[<<h[i - 1], i>>]
  BY <1>5 DEF Stepwise
<1>7. ASSUME NEW i \in 1 .. n PROVE h[i] = i * h[i - 1]
  <2>1. i - 1 \in 0 .. n
    OBVIOUS
  <2>2. h[i - 1] \in X
    BY <1>6, <2>1
  <2> QED BY <1>4, <1>6, <2>2
<1>8. \A i \in 0 .. n : h[i] = IF i = 0 THEN 1 ELSE i * h[i - 1]
  BY <1>6, <1>7
<1>9. FactorialUpTo(h, n)
  BY <1>6, <1>8 DEF FactorialUpTo
<1> QED BY <1>6, <1>9 DEF X

\* Two of them agree as far as they reach.
LEMMA FactorialsAgree ==
    ASSUME NEW n \in Nat, NEW m \in Nat, NEW g, NEW h, FactorialUpTo(g, n), FactorialUpTo(h, m)
    PROVE  \A i \in 0 .. n : i \in 0 .. m => g[i] = h[i]
<1> DEFINE T == {i \in Nat : i <= n /\ i <= m /\ g[i] # h[i]}
<1>1. ASSUME T # {} PROVE FALSE
  <2>1. PICK i \in T : \A j \in T : i <= j
    <3>1. T \subseteq Nat
      OBVIOUS
    <3> HIDE DEF T
    <3> QED BY <1>1, <3>1, LeastNumber
  <2>2. i \in Nat /\ i <= n /\ i <= m /\ i \in 0 .. n /\ i \in 0 .. m
    BY <2>1
  <2>3. /\ g[i] = IF i = 0 THEN 1 ELSE i * g[i - 1]
        /\ h[i] = IF i = 0 THEN 1 ELSE i * h[i - 1]
    BY <2>2 DEF FactorialUpTo
  <2>4. CASE i = 0
    BY <2>1, <2>3, <2>4
  <2>5. CASE i # 0
    <3>1. i - 1 \in Nat /\ i - 1 <= n /\ i - 1 <= m /\ ~ (i <= i - 1)
      BY <2>2, <2>5
    <3>2. g[i - 1] = h[i - 1]
      BY <2>1, <3>1
    <3> QED BY <2>1, <2>3, <2>5, <3>2
  <2> QED BY <2>4, <2>5
<1> QED BY <1>1

\* The recursion of factorial has a function, so it is what it says.
LEMMA FactorialTells ==
    /\ factorial[0] = 1
    /\ \A n \in Nat : factorial[n] \in Nat \ {0}
    /\ \A n \in Nat \ {0} : factorial[n] = n * factorial[n - 1]
<1> DEFINE Up(n) == CHOOSE h : h \in [0 .. n -> Nat \ {0}] /\ FactorialUpTo(h, n)
           g == [n \in Nat |-> Up(n)[n]]
<1>1. ASSUME NEW n \in Nat
      PROVE  Up(n) \in [0 .. n -> Nat \ {0}] /\ FactorialUpTo(Up(n), n)
  <2>1. \E h : h \in [0 .. n -> Nat \ {0}] /\ FactorialUpTo(h, n)
    BY FactorialReaches
  <2> QED BY <2>1
<1> HIDE DEF Up
<1>2. ASSUME NEW n \in Nat
      PROVE  g[n] = IF n = 0 THEN 1 ELSE n * g[n - 1]
  <2>1. g[n] = Up(n)[n] /\ n \in 0 .. n
    OBVIOUS
  <2>2. Up(n)[n] = IF n = 0 THEN 1 ELSE n * Up(n)[n - 1]
    BY <1>1, <2>1 DEF FactorialUpTo
  <2>3. ASSUME n # 0 PROVE Up(n)[n - 1] = g[n - 1]
    <3>1. n - 1 \in Nat /\ n - 1 \in 0 .. n - 1 /\ n - 1 \in 0 .. n
      BY <2>3
    <3>2. g[n - 1] = Up(n - 1)[n - 1]
      BY <3>1
    <3>3. FactorialUpTo(Up(n - 1), n - 1) /\ FactorialUpTo(Up(n), n)
      BY <1>1, <3>1
    <3>4. Up(n - 1)[n - 1] = Up(n)[n - 1]
      BY <3>1, <3>3, FactorialsAgree
    <3> QED BY <3>2, <3>4
  <2> QED BY <2>1, <2>2, <2>3
<1>3. g = [n \in Nat |-> IF n = 0 THEN 1 ELSE n * g[n - 1]]
  <2>1. g = [n \in Nat |-> g[n]]
    OBVIOUS
  <2> HIDE DEF g
  <2> QED BY <1>2, <2>1
<1> HIDE DEF g
<1>4. factorial = [n \in Nat |-> IF n = 0 THEN 1 ELSE n * factorial[n - 1]]
  BY <1>3, Zenon DEF factorial
<1>5. \A n \in Nat : factorial[n] = IF n = 0 THEN 1 ELSE n * factorial[n - 1]
  BY <1>4
<1>6. PICK f : f = factorial
  OBVIOUS
<1>7. \A n \in Nat : f[n] = IF n = 0 THEN 1 ELSE n * f[n - 1]
  BY <1>5, <1>6
<1> DEFINE T == {n \in Nat : f[n] \notin Nat \ {0}}
<1>8. ASSUME T # {} PROVE FALSE
  <2>1. PICK i \in T : \A j \in T : i <= j
    <3>1. T \subseteq Nat
      OBVIOUS
    <3> HIDE DEF T
    <3> QED BY <1>8, <3>1, LeastNumber
  <2>2. CASE i = 0
    BY <1>7, <2>1, <2>2
  <2>3. CASE i # 0
    <3>1. i \in Nat \ {0} /\ i - 1 \in Nat /\ ~ (i <= i - 1)
      BY <2>1, <2>3
    <3>2. f[i - 1] \in Nat \ {0}
      BY <2>1, <3>1
    <3>3. \A a \in Nat \ {0}, b \in Nat \ {0} : a * b \in Nat \ {0}
      OBVIOUS
    <3>4. f[i] = i * f[i - 1]
      BY <1>7, <3>1
    <3>5. f[i] \in Nat \ {0}
      BY <3>1, <3>2, <3>3, <3>4
    <3> QED BY <2>1, <3>5
  <2> QED BY <2>2, <2>3
<1> QED BY <1>6, <1>7, <1>8
-----------------------------------------------------------------------------
\* As many k-subsets contain a member as there are (k - 1)-subsets of the rest.
LEMMA SubsetsWith ==
    ASSUME NEW S, IsFiniteSet(S), NEW x \in S, NEW k \in Nat \ {0}
    PROVE  LET some == {s \in kSubset(k, S) : x \in s}
           IN IsFiniteSet(some) /\ Cardinality(some) = Cardinality(kSubset(k - 1, S \ {x}))
<1> DEFINE B == kSubset(k - 1, S \ {x})
           C == {s \in kSubset(k, S) : x \in s}
           f == [b \in B |-> b \cup {x}]
<1>1. IsFiniteSet(S \ {x}) /\ k - 1 \in Nat
  BY FS_RemoveElement
<1>2. \A b \in B : b \in SUBSET (S \ {x}) /\ IsFiniteSet(b) /\ Cardinality(b) = k - 1
  <2>1. \A b \in B : b \in SUBSET (S \ {x}) /\ Cardinality(b) = k - 1
    BY DEF kSubset
  <2> QED BY <1>1, <2>1, FS_Subset
<1>3. ASSUME NEW b \in B PROVE b \cup {x} \in C
  <2>1. x \notin b /\ b \cup {x} \in SUBSET S
    BY <1>2
  <2>2. Cardinality(b \cup {x}) = (k - 1) + 1
    BY <1>2, <2>1, FS_AddElement
  <2>3. (k - 1) + 1 = k
    OBVIOUS
  <2> QED BY <2>1, <2>2, <2>3 DEF kSubset
<1>4. ASSUME NEW c \in C PROVE c \ {x} \in B /\ c = (c \ {x}) \cup {x}
  <2>1. c \in SUBSET S /\ Cardinality(c) = k /\ x \in c
    BY DEF kSubset
  <2>2. IsFiniteSet(c)
    BY <2>1, FS_Subset
  <2>3. Cardinality(c \ {x}) = k - 1
    BY <2>1, <2>2, FS_RemoveElement
  <2>4. c \ {x} \in SUBSET (S \ {x})
    BY <2>1
  <2> QED BY <2>1, <2>3, <2>4 DEF kSubset
<1>5. B \in SUBSET SUBSET (S \ {x})
  BY DEF kSubset
<1>6. IsFiniteSet(B)
  <2>1. IsFiniteSet(SUBSET (S \ {x}))
    BY <1>1, FS_SUBSET
  <2> QED BY <1>5, <2>1, FS_Subset
<1> HIDE DEF B, C
<1>7. f \in [B -> C]
  BY <1>3
<1>8. \A b, d \in B : f[b] = f[d] => b = d
  <2>1. \A b \in B : f[b] = b \cup {x} /\ x \notin b
    BY <1>2
  <2>2. \A b : x \notin b => (b \cup {x}) \ {x} = b
    OBVIOUS
  <2> HIDE DEF f
  <2> QED BY <2>1, <2>2
<1>9. \A c \in C : \E b \in B : f[b] = c
  BY <1>4
<1> HIDE DEF f
<1>10. ExistsBijection(B, C)
  BY <1>7, <1>8, <1>9 DEF ExistsBijection, Bijection, Injection, Surjection, IsInjective
<1>11. IsFiniteSet(C) /\ Cardinality(C) = Cardinality(B)
  BY <1>6, <1>10, FS_Bijection
<1> QED BY <1>11 DEF B, C

\* The subsets of one size are finitely many.
LEMMA SubsetsFinite ==
    ASSUME NEW S, IsFiniteSet(S), NEW k
    PROVE  IsFiniteSet(kSubset(k, S)) /\ Cardinality(kSubset(k, S)) \in Nat
<1>1. kSubset(k, S) \in SUBSET SUBSET S
  BY DEF kSubset
<1> QED BY <1>1, FS_SUBSET, FS_Subset, FS_CardinalityType

\* Every k-subset contains a member or is one of the rest.
LEMMA SubsetsSplit ==
    ASSUME NEW S, IsFiniteSet(S), NEW x \in S, NEW k \in Nat \ {0}
    PROVE  Cardinality(kSubset(k, S))
             = Cardinality(kSubset(k, S \ {x})) + Cardinality(kSubset(k - 1, S \ {x}))
<1> DEFINE A == kSubset(k, S \ {x})
           C == {s \in kSubset(k, S) : x \in s}
<1>1. IsFiniteSet(C) /\ Cardinality(C) = Cardinality(kSubset(k - 1, S \ {x}))
  BY SubsetsWith
<1>2. IsFiniteSet(A)
  BY FS_RemoveElement, SubsetsFinite
<1>3. A \cap C = {} /\ A \cup C = kSubset(k, S)
  <2>1. \A s : s \in kSubset(k, S) <=> s \in SUBSET S /\ Cardinality(s) = k
    BY DEF kSubset
  <2>2. \A s : s \in A <=> s \in SUBSET (S \ {x}) /\ Cardinality(s) = k
    BY DEF kSubset
  <2>3. \A s : s \in SUBSET (S \ {x}) <=> s \in SUBSET S /\ x \notin s
    OBVIOUS
  <2> HIDE DEF A
  <2> QED BY <2>1, <2>2, <2>3
<1> HIDE DEF A, C
<1>4. Cardinality(A \cup C) = Cardinality(A) + Cardinality(C)
  BY <1>1, <1>2, <1>3, CountTogether
<1> QED BY <1>1, <1>3, <1>4 DEF A

\* The subsets of the least and of the largest size.
LEMMA SubsetsAtEnds ==
    ASSUME NEW S, IsFiniteSet(S)
    PROVE  /\ Cardinality(kSubset(0, S)) = 1
           /\ Cardinality(kSubset(Cardinality(S), S)) = 1
           /\ \A k \in Nat : k > Cardinality(S) => kSubset(k, S) = {}
<1>1. ASSUME NEW s \in SUBSET S
      PROVE  /\ IsFiniteSet(s) /\ Cardinality(s) \in Nat /\ Cardinality(S) \in Nat
             /\ Cardinality(s) <= Cardinality(S)
             /\ Cardinality(s) = 0 <=> s = {}
             /\ Cardinality(s) = Cardinality(S) => s = S
  BY CountOfPart, FS_EmptySet
<1>2. kSubset(0, S) = {{}}
  <2>1. Cardinality({}) = 0
    BY FS_EmptySet
  <2> QED BY <1>1, <2>1 DEF kSubset
<1>3. kSubset(Cardinality(S), S) = {S}
  BY <1>1 DEF kSubset
<1>4. \A x : Cardinality({x}) = 1
  BY FS_Singleton
<1>5. \A k \in Nat : k > Cardinality(S) => kSubset(k, S) = {}
  BY <1>1 DEF kSubset
<1> QED BY <1>2, <1>3, <1>4, <1>5

\* Two products that Pascal's rule adds up.
LEMMA PascalAdds ==
    ASSUME NEW n \in Nat \ {0}, NEW k \in 1 .. n - 1,
           NEW a \in Nat, NEW b \in Nat,
           NEW fk \in Nat, NEW fl \in Nat, NEW fm \in Nat, NEW fh \in Nat, NEW fn \in Nat,
           \* k!, (k - 1)!, (n - k)!, (n - 1 - k)!, (n - 1)!
           fk = k * fl, fm = (n - k) * fh,
           a * (fk * fh) = fn, b * (fl * fm) = fn
    PROVE  (a + b) * (fk * fm) = n * fn
<1>1. PICK d \in Nat : d = n - k
  OBVIOUS
<1>2. (a + b) * (fk * fm) = a * (fk * fm) + b * (fk * fm)
  BY ONLY a \in Nat, b \in Nat, fk \in Nat, fm \in Nat
<1>3. a * (fk * fm) = d * (a * (fk * fh))
  <2>1. fm = d * fh
    BY <1>1
  <2>2. a * (fk * (d * fh)) = d * (a * (fk * fh))
    BY ONLY a \in Nat, fk \in Nat, d \in Nat, fh \in Nat
  <2> QED BY ONLY <2>1, <2>2
<1>4. b * (fk * fm) = k * (b * (fl * fm))
  <2>1. b * ((k * fl) * fm) = k * (b * (fl * fm))
    BY ONLY b \in Nat, k \in 1 .. n - 1, n \in Nat \ {0}, fl \in Nat, fm \in Nat
  <2>2. fk = k * fl
    OBVIOUS
  <2> QED BY ONLY <2>1, <2>2
<1>5. (a + b) * (fk * fm) = d * fn + k * fn
  <2>1. a * (fk * fh) = fn /\ b * (fl * fm) = fn
    OBVIOUS
  <2> QED BY ONLY <1>2, <1>3, <1>4, <2>1
<1>6. d * fn + k * fn = (d + k) * fn /\ d + k = n
  <2>1. k \in Nat
    OBVIOUS
  <2>2. d * fn + k * fn = (d + k) * fn
    BY ONLY d \in Nat, <2>1, fn \in Nat
  <2>3. d + k = n
    BY ONLY <1>1, n \in Nat \ {0}, <2>1
  <2> QED BY ONLY <2>2, <2>3
<1> QED BY ONLY <1>5, <1>6
-----------------------------------------------------------------------------
\* The subsets of s of every size are as many as the factorials say.
Counted(s) ==
    \A k \in 0 .. Cardinality(s) :
        Cardinality(kSubset(k, s)) * (factorial[k] * factorial[Cardinality(s) - k])
            = factorial[Cardinality(s)]

\* If that holds without a member, it holds with it.
LEMMA CountedStep ==
    ASSUME NEW s, IsFiniteSet(s), NEW x \in s, Counted(s \ {x})
    PROVE  Counted(s)
<1>1. PICK n \in Nat \ {0} : n = Cardinality(s)
  BY FS_CardinalityType, FS_EmptySet
<1>2. IsFiniteSet(s \ {x}) /\ Cardinality(s \ {x}) = n - 1
  BY <1>1, FS_RemoveElement
<1>3. \A i \in Nat : factorial[i] \in Nat \ {0}
  BY FactorialTells
<1> SUFFICES ASSUME NEW k \in 0 .. n
             PROVE  Cardinality(kSubset(k, s)) * (factorial[k] * factorial[n - k]) = factorial[n]
  BY <1>1 DEF Counted
<1>4. CASE k = 0
  <2>1. Cardinality(kSubset(k, s)) = 1 /\ factorial[k] = 1 /\ n - k = n
    BY <1>4, SubsetsAtEnds, FactorialTells
  <2>2. factorial[n] \in Nat
    BY <1>3
  <2> QED BY ONLY <2>1, <2>2
<1>5. CASE k = n
  <2>1. Cardinality(kSubset(k, s)) = 1 /\ factorial[n - k] = 1 /\ k = n
    <3>1. n - k = 0
      BY <1>5
    <3> QED BY <1>1, <1>5, <3>1, SubsetsAtEnds, FactorialTells
  <2>2. factorial[n] \in Nat
    BY <1>3
  <2> QED BY ONLY <2>1, <2>2
<1>6. CASE k # 0 /\ k # n
  <2>1. /\ k \in 1 .. n - 1 /\ k \in Nat \ {0} /\ k \in 0 .. n - 1 /\ k - 1 \in 0 .. n - 1
        /\ n - 1 \in Nat /\ k - 1 \in Nat /\ k \in Nat
        /\ n - k \in Nat \ {0} /\ (n - 1) - k \in Nat /\ (n - 1) - (k - 1) = n - k
        /\ (n - k) - 1 = (n - 1) - k
    BY <1>6
  <2>2. PICK a \in Nat, b \in Nat :
          /\ a = Cardinality(kSubset(k, s \ {x})) /\ b = Cardinality(kSubset(k - 1, s \ {x}))
    BY <1>2, SubsetsFinite
  <2>3. Cardinality(kSubset(k, s)) = a + b
    BY <2>1, <2>2, SubsetsSplit
  <2>4. PICK fk \in Nat, fl \in Nat, fm \in Nat, fh \in Nat, fn \in Nat :
          /\ fk = factorial[k] /\ fl = factorial[k - 1] /\ fm = factorial[n - k]
          /\ fh = factorial[(n - 1) - k] /\ fn = factorial[n - 1]
    BY <1>3, <2>1
  <2>5. fk = k * fl
    BY <2>1, <2>4, FactorialTells
  <2>6. fm = (n - k) * fh
    BY <2>1, <2>4, FactorialTells
  <2>7. a * (fk * fh) = fn
    BY <1>2, <2>1, <2>2, <2>4 DEF Counted
  <2>8. b * (fl * fm) = fn
    <3>1. Cardinality(kSubset(k - 1, s \ {x}))
            * (factorial[k - 1] * factorial[(n - 1) - (k - 1)]) = factorial[n - 1]
      BY <1>2, <2>1 DEF Counted
    <3> QED BY <2>1, <2>2, <2>4, <3>1
  <2>9. (a + b) * (fk * fm) = n * fn
    BY ONLY <2>1, <2>5, <2>6, <2>7, <2>8, n \in Nat \ {0}, a \in Nat, b \in Nat,
            fk \in Nat, fl \in Nat, fm \in Nat, fh \in Nat, fn \in Nat, PascalAdds
  <2>10. factorial[n] = n * fn
    BY <2>4, FactorialTells
  <2> QED BY <2>3, <2>4, <2>9, <2>10
<1> QED BY <1>4, <1>5, <1>6

\* It holds for every finite set.
LEMMA AlwaysCounted ==
    ASSUME NEW S, IsFiniteSet(S)
    PROVE  Counted(S)
<1> DEFINE G == {s \in SUBSET S : Counted(s)}
<1>1. {} \in G
  <2>1. Cardinality({}) = 0 /\ IsFiniteSet({})
    BY FS_EmptySet
  <2>2. Cardinality(kSubset(0, {})) = 1
    BY <2>1, SubsetsAtEnds
  <2>3. factorial[0] = 1 /\ 0 - 0 = 0 /\ 0 .. 0 = {0} /\ 1 * (1 * 1) = 1
    BY FactorialTells
  <2>4. Counted({})
    BY <2>1, <2>2, <2>3 DEF Counted
  <2> QED BY <2>4
<1>2. ASSUME NEW s \in SUBSET S, NEW x \in s, s \ {x} \in G
      PROVE  s \in G
  <2>1. IsFiniteSet(s)
    BY FS_Subset
  <2> QED BY <1>2, <2>1, CountedStep
<1> HIDE DEF G
<1>3. \A s \in SUBSET S : s \in G
  BY <1>1, <1>2, MemberByMember
<1> QED BY <1>3 DEF G

\* choose counts the k-subsets.
LEMMA ChooseCounts ==
    ASSUME NEW S, IsFiniteSet(S), NEW k \in 0 .. Cardinality(S)
    PROVE  choose(Cardinality(S), k) = Cardinality(kSubset(k, S))
<1>1. PICK n \in Nat : n = Cardinality(S)
  BY FS_CardinalityType
<1>2. PICK m \in Nat : m = Cardinality(kSubset(k, S))
  BY SubsetsFinite
<1>3. PICK d \in Nat \ {0} : d = factorial[k] * factorial[n - k]
  <2>1. k \in Nat /\ n - k \in Nat
    BY <1>1
  <2>2. factorial[k] \in Nat \ {0} /\ factorial[n - k] \in Nat \ {0}
    BY <2>1, FactorialTells
  <2>3. \A a \in Nat \ {0}, b \in Nat \ {0} : a * b \in Nat \ {0}
    OBVIOUS
  <2> QED BY <2>2, <2>3
<1>4. m * d = factorial[n]
  BY <1>1, <1>2, <1>3, AlwaysCounted DEF Counted
<1>5. (m * d) \div d = m
  BY Quotient
<1> QED BY <1>1, <1>2, <1>3, <1>4, <1>5 DEF choose

-----------------------------------------------------------------------------
\* The estimators count the k-subsets of the completed attempts.
LEMMA EstimatorsAlwaysCount ==
    ASSUME RunsWhole, NEW r \in Recorded
    PROVE  EstimatorsCount(db[r])
<1> DEFINE run == db[r]
<1> SUFFICES ASSUME NEW k \in 1 .. Plan.samples, NEW c \in DOMAIN Stability(run, k).at_k
             PROVE  LET done == {j \in Completed(run) : j[1] = c}
                        good == PassedOf(run, done)
                        draws == kSubset(k, done)
                    IN /\ Stability(run, k).at_k[c] = Cardinality({d \in draws : d \cap good # {}})
                       /\ Stability(run, k).hat_k[c] = Cardinality({d \in draws : d \subseteq good})
  BY DEF EstimatorsCount
<1> DEFINE done == DoneOf(run, c)
           good == PassedOf(run, done)
           draws == kSubset(k, done)
<1>1. k \in Nat \ {0}
  BY PlanFinite
<1> DEFINE t == Tally(run, c)
<1>2. /\ Stability(run, k).at_k[c] = PassAtK(t, k)
      /\ Stability(run, k).hat_k[c] = PassHatK(t, k)
      /\ t.total >= k
  BY DEF Stability
<1>3. /\ IsFiniteSet(done) /\ t.passed = Cardinality(good) /\ t.total = Cardinality(done)
  BY TallyTells
<1>4. good \in SUBSET done
  BY DEF PassedOf
<1> HIDE DEF t
<1>5. done = {j \in Completed(run) : j[1] = c}
  BY DEF DoneOf
<1> HIDE DEF done, good, run
<1>6. /\ IsFiniteSet(good) /\ IsFiniteSet(done \ good)
      /\ Cardinality(good) \in Nat /\ Cardinality(done) \in Nat
      /\ Cardinality(done \ good) = t.total - t.passed
  BY <1>3, <1>4, CountOfPart, FS_Difference
<1>7. Cardinality(draws) = choose(t.total, k) /\ IsFiniteSet(draws)
  BY <1>1, <1>2, <1>3, <1>6, ChooseCounts, SubsetsFinite
<1>8. {d \in draws : d \subseteq good} = kSubset(k, good)
  BY <1>4 DEF kSubset
<1>9. PassHatK(t, k) = Cardinality(kSubset(k, good))
  <2>1. CASE t.passed < k
    <3>1. kSubset(k, good) = {}
      BY <1>1, <1>3, <1>6, <2>1, SubsetsAtEnds
    <3> QED BY <2>1, <3>1, FS_EmptySet DEF PassHatK
  <2>2. CASE ~(t.passed < k)
    <3>1. k \in 0 .. Cardinality(good)
      BY <1>1, <1>3, <1>6, <2>2
    <3> QED BY <1>3, <1>6, <2>2, <3>1, ChooseCounts DEF PassHatK
  <2> QED BY <2>1, <2>2
<1>10. {d \in draws : d \cap good # {}} = draws \ kSubset(k, done \ good)
       /\ kSubset(k, done \ good) \in SUBSET draws
  BY <1>4 DEF kSubset
<1>11. Cardinality(draws \ kSubset(k, done \ good))
         = Cardinality(draws) - Cardinality(kSubset(k, done \ good))
  BY <1>7, <1>10, CountOfPart
<1>12. PassAtK(t, k) = Cardinality(draws \ kSubset(k, done \ good))
  <2>1. CASE t.total - t.passed < k
    <3>1. kSubset(k, done \ good) = {}
      BY <1>1, <1>6, <2>1, SubsetsAtEnds
    <3>2. draws \ {} = draws
      OBVIOUS
    <3> QED BY <1>7, <2>1, <3>1, <3>2 DEF PassAtK
  <2>2. CASE ~(t.total - t.passed < k)
    <3>1. k \in 0 .. Cardinality(done \ good)
      <4>1. t.total - t.passed \in Int
        BY <1>3, <1>6
      <4> QED BY <1>1, <1>6, <2>2, <4>1
    <3>2. choose(t.total - t.passed, k) = Cardinality(kSubset(k, done \ good))
      BY <1>6, <3>1, ChooseCounts
    <3> QED BY <1>7, <1>11, <2>2, <3>2 DEF PassAtK
  <2> QED BY <2>1, <2>2
<1> QED BY <1>2, <1>5, <1>8, <1>9, <1>10, <1>12 DEF good
-----------------------------------------------------------------------------
\* At least half of the subsets of an even number of members have no more than
\* half of them.
LEMMA SmallAreHalf ==
    ASSUME NEW g \in Nat
    PROVE  LET tail == SumFunction([i \in 0 .. g |-> choose(g + g, i)])
           IN tail \in Nat /\ 2 * tail >= 2^(g + g) /\ 2^(g + g) \in Nat
<1>1. PICK n \in Nat : n = g + g
  OBVIOUS
<1>2. PICK S : S = 1 .. n
  OBVIOUS
<1>3. IsFiniteSet(S) /\ Cardinality(S) = n
  BY <1>2, UpToFinite
<1>4. IsFiniteSet(SUBSET S) /\ Cardinality(SUBSET S) = 2^n
  BY <1>3, FS_SUBSET
<1>5. Cardinality(SUBSET S) \in Nat
  BY <1>4, FS_CardinalityType
<1> DEFINE small == {s \in SUBSET S : Cardinality(s) <= g}
           large == {s \in SUBSET S : Cardinality(s) >= g}
           rest == [s \in small |-> S \ s]
<1>6. ASSUME NEW s \in SUBSET S
      PROVE  /\ Cardinality(s) \in Nat /\ Cardinality(S \ s) = n - Cardinality(s)
             /\ S \ s \in SUBSET S /\ S \ (S \ s) = s
  BY <1>3, CountOfPart
<1>7. IsFiniteSet(small) /\ IsFiniteSet(large)
  BY <1>4, FS_Subset
<1>8. Cardinality(large) = Cardinality(small)
  <2>1. \A s \in small : S \ s \in large
    BY <1>1, <1>6
  <2>2. \A s \in large : S \ s \in small /\ S \ (S \ s) = s
    BY <1>1, <1>6
  <2>3. \A s \in small : s \in SUBSET S
    OBVIOUS
  <2> HIDE DEF small, large
  <2>4. rest \in [small -> large]
    BY <2>1
  <2>5. \A s, u \in small : rest[s] = rest[u] => s = u
    <3>1. \A s \in small : S \ rest[s] = s
      BY <1>6, <2>3
    <3> HIDE DEF rest
    <3> QED BY <3>1
  <2>6. \A s \in large : \E u \in small : rest[u] = s
    BY <2>2
  <2> HIDE DEF rest
  <2>7. ExistsBijection(small, large)
    BY <2>4, <2>5, <2>6 DEF ExistsBijection, Bijection, Injection, Surjection, IsInjective
  <2> QED BY <1>7, <2>7, FS_Bijection
<1>9. PICK c \in Nat : c = Cardinality(small)
  BY <1>7, FS_CardinalityType
<1>10. 2 * c >= 2^n
  <2>1. small \cup large = SUBSET S
    <3>1. ASSUME NEW s \in SUBSET S PROVE Cardinality(s) <= g \/ Cardinality(s) >= g
      <4>1. PICK m \in Nat : m = Cardinality(s)
        BY <1>6
      <4> QED BY ONLY <4>1, m \in Nat, g \in Nat
    <3>2. \A s \in SUBSET S : s \in small \/ s \in large
      BY ONLY <3>1
    <3>3. \A s \in small \cup large : s \in SUBSET S
      BY ONLY TRUE
    <3> HIDE DEF small, large
    <3> QED BY ONLY <3>2, <3>3
  <2> HIDE DEF small, large
  <2>2. IsFiniteSet(small \cap large)
    BY <1>7, FS_Intersection
  <2>3. Cardinality(small \cap large) \in Nat
    BY <2>2, FS_CardinalityType
  <2>4. Cardinality(small \cup large)
          = Cardinality(small) + Cardinality(large) - Cardinality(small \cap large)
    BY <1>7, FS_Union
  <2>5. PICK m \in Nat, w \in Nat : m = Cardinality(small \cap large) /\ w = Cardinality(SUBSET S)
    BY <1>5, <2>3
  <2>6. w = c + c - m
    BY <1>8, <1>9, <2>1, <2>4, <2>5
  <2>7. 2 * c >= w
    BY ONLY <2>6, c \in Nat, m \in Nat, w \in Nat
  <2> QED BY <1>4, <2>5, <2>7
<1> DEFINE count == [i \in 0 .. g |-> choose(g + g, i)]
           size == [s \in SUBSET S |-> Cardinality(s)]
<1>11. \A i \in 0 .. g : count[i] = Cardinality(Fibre(SUBSET S, size, i))
  <2>1. ASSUME NEW i \in 0 .. g PROVE choose(n, i) = Cardinality(kSubset(i, S))
    BY <1>1, <1>3, ChooseCounts
  <2>2. \A i \in 0 .. g : Fibre(SUBSET S, size, i) = kSubset(i, S)
    BY DEF Fibre, kSubset
  <2> QED BY <1>1, <2>1, <2>2
<1>12. Within(SUBSET S, size, 0 .. g) = small
  <2>1. ASSUME NEW s \in SUBSET S PROVE size[s] \in 0 .. g <=> Cardinality(s) <= g
    <3>1. PICK m \in Nat : m = Cardinality(s) /\ m = size[s]
      BY <1>6
    <3> HIDE DEF size
    <3> QED BY ONLY <3>1, m \in Nat, g \in Nat
  <2> HIDE DEF size
  <2> QED BY ONLY <2>1 DEF Within
<1>13. IsFiniteSet(0 .. g)
  <2>1. 0 \in Int /\ g \in Int
    OBVIOUS
  <2> QED BY <2>1, FS_Interval
<1>14. DOMAIN count = 0 .. g
  OBVIOUS
<1> HIDE DEF count, size, small
<1>15. SumFunctionOnSet(count, 0 .. g) = c
  BY <1>4, <1>9, <1>11, <1>12, <1>13, FibresCount
<1>16. SumFunction(count) = c
  BY <1>14, <1>15 DEF SumFunction
<1> QED BY <1>1, <1>4, <1>5, <1>9, <1>10, <1>16 DEF count

\* As many gains as losses are not significant.
LEMMA EvenInsignificant ==
    ASSUME NEW counts, NEW g \in Nat, NEW alpha, Level(alpha),
           Cardinality(counts.only_after) = g, Cardinality(counts.only_before) = g
    PROVE  ~ McNemar(counts, alpha).significant
<1> DEFINE p == TwoSidedP(g, g + g)
<1>1. PICK w \in Nat : p[1] = w /\ p[2] = w
  <2>1. CASE g + g = 0
    BY <2>1 DEF TwoSidedP
  <2>2. CASE g + g # 0
    <3>1. PICK t \in Nat, e \in Nat :
            /\ t = SumFunction([i \in 0 .. g |-> choose(g + g, i)])
            /\ e = 2^(g + g) /\ 2 * t >= e
      BY SmallAreHalf
    <3>2. Min({g, (g + g) - g}) = g
      <4>1. (g + g) - g = g /\ g \in Int
        OBVIOUS
      <4> QED BY <4>1, OfTwo
    <3>3. Min({e, 2 * t}) = e
      <4>1. 2 * t \in Int /\ e \in Int /\ ~(2 * t < e)
        BY ONLY <3>1, t \in Nat, e \in Nat
      <4>2. Min({e, 2 * t}) = IF e < 2 * t THEN e ELSE 2 * t
        BY <4>1, OfTwo
      <4> QED BY ONLY <4>1, <4>2, t \in Nat, e \in Nat
    <3>4. p = <<e, e>>
      BY <2>2, <3>1, <3>2, <3>3 DEF TwoSidedP
    <3> QED BY <3>4
  <2> QED BY <2>1, <2>2
<1>2. McNemar(counts, alpha).significant <=> p[1] * alpha[2] < alpha[1] * p[2]
  BY DEF McNemar
<1> HIDE DEF p
<1>3. ~ (w * alpha[2] < alpha[1] * w)
  <2>1. PICK a \in Nat, b \in Nat : a = alpha[1] /\ b = alpha[2] /\ b >= a
    BY DEF Level
  <2>2. w * b >= w * a
    <3>1. a \in Int /\ b \in Int /\ b >= a
      BY <2>1
    <3> QED BY ONLY <3>1, w \in Nat, AtLeastTimes
  <2>3. ~ (w * b < a * w)
    <3>1. a * w = w * a /\ w * a \in Int /\ w * b \in Int
      OBVIOUS
    <3> QED BY ONLY <2>2, <3>1
  <2> QED BY <2>1, <2>3
<1> QED BY <1>1, <1>2, <1>3
-----------------------------------------------------------------------------
\* The cases that a comparison looks at, and the rates of a run at them.
Both(before, after) == Tallied(before) \cap Tallied(after)
RatesOf(run, cases) == [c \in cases |-> Rate(Tally(run, c))]
WonAt(run, cases) == {c \in cases : Majority(RatesOf(run, cases)[c])}
ChangesOf(before, after, cases) ==
    [c \in cases |-> RatesOf(after, cases)[c] - RatesOf(before, cases)[c]]
KindsOf(before, after, cases) ==
    [c \in cases |-> Kind(RatesOf(before, cases)[c], RatesOf(after, cases)[c])]
QuartersOf(before, after) ==
    LET both == Both(before, after)
    IN PairedCounts(both, WonAt(before, both), WonAt(after, both))

\* The table of a comparison.
LEMMA TableTells ==
    ASSUME NEW before, NEW after
    PROVE  Table(before, after) = QuartersOf(before, after)
<1>1. ASSUME NEW run, NEW cases
      PROVE  WonAt(run, cases) = {c \in cases : Majority(Rate(Tally(run, c)))}
  BY DEF WonAt, RatesOf
<1> QED BY <1>1 DEF Table, QuartersOf, Both

\* What compare() reports, field by field.
Reports(report, before, after, alpha, both) ==
    /\ report.shared = both
    /\ report.comparable <=> both # {} /\ Differences(before, after) = {}
    /\ report.test = McNemar(QuartersOf(before, after), alpha)
    /\ report.delta = SumFunction(RatesOf(after, both)) - SumFunction(RatesOf(before, both))
    /\ report.deltas = ChangesOf(before, after, both)
    /\ report.kinds = KindsOf(before, after, both)
    /\ report.asked = PowerQuestion(SumFunction(RatesOf(before, both)),
                                    SumFunction(RatesOf(after, both)),
                                    Max({1, Cardinality(both)}), alpha)

LEMMA CompareTells ==
    ASSUME NEW before, NEW after, NEW alpha
    PROVE  Reports(Compare(before, after, alpha), before, after, alpha, Both(before, after))
BY TableTells DEF Reports, Compare, Both, RatesOf, ChangesOf, KindsOf

\* A planned level is one.
LEMMA PlannedLevel ==
    ASSUME RunsWhole, NEW alpha \in Plan.alphas
    PROVE  Level(alpha)
BY OutcomesAssumption DEF RunsWhole, Plan

\* A run has completed attempts at planned cases only.
LEMMA TalliedPlanned ==
    ASSUME RunsWhole, NEW r \in Recorded
    PROVE  IsFiniteSet(Tallied(db[r])) /\ Tallied(db[r]) \subseteq Plan.cases
<1>1. Completed(db[r]) \subseteq Planned
  BY TallyTells
<1>2. Tallied(db[r]) \subseteq Plan.cases
  BY <1>1 DEF Tallied, Planned
<1> QED BY <1>2, PlanFinite, FS_Subset

\* Rates lie between zero and the unit, and so do sums of them over as many
\* units as there are cases.
LEMMA RatesSum ==
    ASSUME RunsWhole, NEW r \in Recorded, NEW cases \in SUBSET Tallied(db[r])
    PROVE  /\ IsFiniteSet(cases) /\ Cardinality(cases) \in Nat
           /\ \A c \in cases : RatesOf(db[r], cases)[c] \in 0 .. Unit
           /\ SumFunction(RatesOf(db[r], cases)) \in 0 .. Unit * Cardinality(cases)
<1> DEFINE rates == RatesOf(db[r], cases)
           units == [c \in cases |-> Unit]
<1>1. IsFiniteSet(cases) /\ Cardinality(cases) \in Nat
  BY TalliedPlanned, FS_Subset, FS_CardinalityType
<1>2. PICK u \in Nat \ {0} : u = Unit
  BY UnitExact
<1>3. ASSUME NEW c \in cases PROVE rates[c] \in 0 .. u
  <2>1. PICK p \in Nat, t \in Nat \ {0}, q \in Nat \ {0} :
          p <= t /\ u = q * t /\ Rate(Tally(db[r], c)) = q * p
    <3>1. c \in Tallied(db[r])
      OBVIOUS
    <3>2. PICK p \in Nat, t \in Nat \ {0}, q \in Nat \ {0} :
            /\ p = Tally(db[r], c).passed /\ t = Tally(db[r], c).total
            /\ p <= t /\ Unit = q * t /\ Rate(Tally(db[r], c)) = q * p
      BY <3>1, RateTells
    <3>3. u = q * t
      BY ONLY <1>2, <3>2
    <3> QED BY <3>2, <3>3
  <2>2. q * t >= q * p
    <3>1. p \in Int /\ t \in Int /\ t >= p /\ q \in Nat
      BY <2>1
    <3> QED BY ONLY <3>1, AtLeastTimes
  <2>3. q * p \in Nat
    OBVIOUS
  <2>4. rates[c] = q * p
    BY <2>1 DEF RatesOf
  <2>5. q * p <= u
    BY ONLY <2>1, <2>2, <2>3, u \in Nat \ {0}, q \in Nat \ {0}, t \in Nat \ {0}
  <2> QED BY ONLY <2>3, <2>4, <2>5, u \in Nat \ {0}
<1>4. DOMAIN rates = cases
  BY DEF RatesOf
<1>5. \A c \in cases : units[c] = u /\ units[c] \in Int
  BY <1>2
<1> HIDE DEF rates, units
<1>6. \A c \in cases : rates[c] \in Nat /\ rates[c] \in Int /\ units[c] \in Int /\ rates[c] <= units[c]
  BY <1>3, <1>5
<1>7. SumFunctionOnSet(rates, cases) \in Int /\ SumFunctionOnSet(rates, cases) >= 0
  BY <1>1, <1>6, SumOfNaturals
<1>8. SumFunctionOnSet(rates, cases) <= SumFunctionOnSet(units, cases)
  BY <1>1, <1>6, SumsOrdered
<1>9. SumFunctionOnSet(units, cases) = u * Cardinality(cases)
  BY <1>1, <1>5, SumOfEqual
<1>10. PICK n \in Nat : n = Cardinality(cases)
  BY <1>1
<1>11. u * n \in Nat
  OBVIOUS
<1>12. SumFunctionOnSet(rates, cases) \in 0 .. u * n
  BY ONLY <1>7, <1>8, <1>9, <1>10, <1>11
<1>13. SumFunction(rates) \in 0 .. Unit * Cardinality(cases)
  BY <1>2, <1>4, <1>10, <1>12 DEF SumFunction
<1> QED BY <1>1, <1>2, <1>3, <1>13 DEF rates

\* The shared cases of two recorded runs, with their rates.
LEMMA BothTell ==
    ASSUME RunsWhole, NEW b \in Recorded, NEW a \in Recorded
    PROVE  LET both == Both(db[b], db[a])
           IN /\ both = Both(db[a], db[b])
              /\ both \in SUBSET Tallied(db[b]) /\ both \in SUBSET Tallied(db[a])
              /\ IsFiniteSet(both) /\ Cardinality(both) \in Nat
              /\ Cardinality(both) = 0 <=> both = {}
<1> DEFINE both == Both(db[b], db[a])
<1>1. both = Both(db[a], db[b]) /\ both \in SUBSET Tallied(db[b]) /\ both \in SUBSET Tallied(db[a])
  BY DEF Both
<1>2. IsFiniteSet(both) /\ Cardinality(both) \in Nat
  BY <1>1, RatesSum
<1> QED BY <1>1, <1>2, FS_EmptySet

\* The quarters of the table, and how many cases they hold.
LEMMA QuartersTell ==
    ASSUME RunsWhole, NEW b \in Recorded, NEW a \in Recorded
    PROVE  LET q == QuartersOf(db[b], db[a])
               both == Both(db[b], db[a])
               back == QuartersOf(db[a], db[b])
           IN /\ q.only_after = WonAt(db[a], both) \ WonAt(db[b], both)
              /\ q.only_before = WonAt(db[b], both) \ WonAt(db[a], both)
              /\ back.only_after = q.only_before /\ back.only_before = q.only_after
              /\ IsFiniteSet(q.only_after) /\ Cardinality(q.only_after) \in Nat
              /\ IsFiniteSet(q.only_before) /\ Cardinality(q.only_before) \in Nat
<1> DEFINE q == QuartersOf(db[b], db[a])
           both == Both(db[b], db[a])
           back == QuartersOf(db[a], db[b])
<1>1. both = Both(db[a], db[b]) /\ IsFiniteSet(both)
  BY BothTell
<1>2. /\ q.only_after = WonAt(db[a], both) \ WonAt(db[b], both)
      /\ q.only_before = WonAt(db[b], both) \ WonAt(db[a], both)
  BY DEF QuartersOf, PairedCounts
<1>3. /\ back.only_after = WonAt(db[b], both) \ WonAt(db[a], both)
      /\ back.only_before = WonAt(db[a], both) \ WonAt(db[b], both)
  BY <1>1 DEF QuartersOf, PairedCounts
<1>4. WonAt(db[a], both) \in SUBSET both /\ WonAt(db[b], both) \in SUBSET both
  BY DEF WonAt
<1> HIDE DEF q, both, back
<1>5. q.only_after \in SUBSET both /\ q.only_before \in SUBSET both
  BY <1>2, <1>4
<1>6. /\ IsFiniteSet(q.only_after) /\ Cardinality(q.only_after) \in Nat
      /\ IsFiniteSet(q.only_before) /\ Cardinality(q.only_before) \in Nat
  BY <1>1, <1>5, FS_Subset, FS_CardinalityType
<1> QED BY <1>2, <1>3, <1>6 DEF q, both, back

-----------------------------------------------------------------------------
\* A run does not differ from itself.
LEMMA SelfAlwaysQuiet ==
    ASSUME RunsWhole
    PROVE  SelfQuiet
<1> SUFFICES ASSUME NEW r \in Recorded, NEW alpha \in Plan.alphas
             PROVE  LET self == Compare(db[r], db[r], alpha)
                    IN /\ ComparisonVerdict(self) \in {"no significant change", "not comparable"}
                       /\ self.delta = 0 /\ Range(self.kinds) \cap {"fixed", "broken"} = {}
  BY DEF SelfQuiet
<1> DEFINE self == Compare(db[r], db[r], alpha)
           both == Both(db[r], db[r])
           rates == RatesOf(db[r], both)
<1>0. PICK run : run = db[r]
  OBVIOUS
<1> HIDE DEF self, both, rates
<1>1. /\ self.test = McNemar(QuartersOf(db[r], db[r]), alpha)
      /\ self.delta = SumFunction(rates) - SumFunction(rates)
      /\ self.kinds = [c \in both |-> Kind(rates[c], rates[c])]
  <2>1. both = Both(run, run) /\ rates = RatesOf(run, both) /\ self = Compare(run, run, alpha)
    BY <1>0 DEF self, both, rates
  <2>2. /\ Compare(run, run, alpha).test = McNemar(QuartersOf(run, run), alpha)
        /\ Compare(run, run, alpha).delta = SumFunction(RatesOf(run, both)) - SumFunction(RatesOf(run, both))
        /\ Compare(run, run, alpha).kinds = KindsOf(run, run, both)
    <3>1. Reports(self, run, run, alpha, both)
      BY ONLY <2>1, CompareTells
    <3> QED BY ONLY <2>1, <3>1 DEF Reports
  <2> QED BY ONLY <1>0, <2>1, <2>2 DEF KindsOf
<1>2. self.delta = 0
  <2>1. both \in SUBSET Tallied(db[r])
    BY BothTell DEF both
  <2>2. SumFunction(rates) \in 0 .. Unit * Cardinality(both)
    BY <2>1, RatesSum DEF rates
  <2> QED BY <1>1, <2>2
<1>3. ~ self.test.significant
  <2>1. PICK q : q = QuartersOf(db[r], db[r])
    OBVIOUS
  <2>2. q.only_after = {} /\ q.only_before = {}
    BY <2>1, QuartersTell
  <2>3. Cardinality(q.only_after) = 0 /\ Cardinality(q.only_before) = 0 /\ 0 \in Nat
    BY <2>2, FS_EmptySet
  <2> QED BY <1>1, <2>1, <2>3, PlannedLevel, EvenInsignificant
<1>4. ASSUME NEW c \in both PROVE Kind(rates[c], rates[c]) \notin {"fixed", "broken"}
  <2>1. Unit # 0
    BY UnitExact
  <2>2. PICK x : x = rates[c]
    OBVIOUS
  <2>3. CASE x = 0
    BY <2>1, <2>2, <2>3 DEF Kind
  <2>4. CASE x = Unit
    BY <2>1, <2>2, <2>4 DEF Kind
  <2>5. CASE x # 0 /\ x # Unit
    BY <2>2, <2>5 DEF Kind
  <2> QED BY <2>3, <2>4, <2>5
<1>5. Range(self.kinds) \cap {"fixed", "broken"} = {}
  BY <1>1, <1>4 DEF Range
<1> QED BY <1>2, <1>3, <1>5 DEF ComparisonVerdict, self
-----------------------------------------------------------------------------
\* The other way round, as many attempts changed, and as surely.
LEMMA MirroredTest ==
    ASSUME NEW there, NEW back, NEW alpha, NEW g \in Nat, NEW l \in Nat,
           Cardinality(there.only_after) = g, Cardinality(there.only_before) = l,
           Cardinality(back.only_after) = l, Cardinality(back.only_before) = g
    PROVE  McNemar(there, alpha).significant <=> McNemar(back, alpha).significant
<1>1. g + l = l + g /\ (g + l) - g = l /\ (l + g) - l = g
  OBVIOUS
<1>2. {g, l} = {l, g}
  OBVIOUS
<1>3. TwoSidedP(g, g + l) = TwoSidedP(l, l + g)
  <2>1. Min({g, (g + l) - g}) = Min({l, (g + l) - l})
    <3>1. (g + l) - l = g /\ (g + l) - g = l
      OBVIOUS
    <3> QED BY <1>2, <3>1
  <2> QED BY <1>1, <2>1 DEF TwoSidedP
<1>4. McNemar(there, alpha).significant
        <=> TwoSidedP(g, g + l)[1] * alpha[2] < alpha[1] * TwoSidedP(g, g + l)[2]
  BY DEF McNemar
<1>5. McNemar(back, alpha).significant
        <=> TwoSidedP(l, l + g)[1] * alpha[2] < alpha[1] * TwoSidedP(l, l + g)[2]
  BY DEF McNemar
<1> QED BY <1>3, <1>4, <1>5

\* McNemar gives a Boolean answer.
LEMMA SignificantBoolean ==
    ASSUME NEW counts, NEW alpha
    PROVE  McNemar(counts, alpha).significant \in BOOLEAN
BY DEF McNemar

\* The difference between two runs is the same seen from both.
LEMMA AlwaysMirrored ==
    ASSUME RunsWhole, NEW b \in Recorded, NEW a \in Recorded, NEW alpha
    PROVE  Mirrored(Compare(db[b], db[a], alpha), Compare(db[a], db[b], alpha))
<1> DEFINE there == Compare(db[b], db[a], alpha)
           back == Compare(db[a], db[b], alpha)
<1>1. PICK both : both = Both(db[b], db[a]) /\ both = Both(db[a], db[b])
  BY BothTell
<1>2. both \in SUBSET Tallied(db[b]) /\ both \in SUBSET Tallied(db[a])
  BY <1>1, BothTell
<1>3. PICK x \in Int, y \in Int :
        /\ x = SumFunction(RatesOf(db[b], both)) /\ y = SumFunction(RatesOf(db[a], both))
  <2>1. /\ SumFunction(RatesOf(db[b], both)) \in 0 .. Unit * Cardinality(both)
        /\ SumFunction(RatesOf(db[a], both)) \in 0 .. Unit * Cardinality(both)
    BY <1>2, RatesSum
  <2> QED BY <2>1
<1>4. PICK q, p : q = QuartersOf(db[b], db[a]) /\ p = QuartersOf(db[a], db[b])
  OBVIOUS
<1>5. /\ there.test = McNemar(q, alpha) /\ there.delta = y - x
      /\ there.comparable <=> both # {} /\ Differences(db[b], db[a]) = {}
  <2>1. PICK before, after : before = db[b] /\ after = db[a]
    OBVIOUS
  <2>2. both = Both(before, after)
    BY <1>1, <2>1
  <2>3. /\ Compare(before, after, alpha).test = McNemar(QuartersOf(before, after), alpha)
        /\ Compare(before, after, alpha).delta
             = SumFunction(RatesOf(after, both)) - SumFunction(RatesOf(before, both))
        /\ Compare(before, after, alpha).comparable <=> both # {} /\ Differences(before, after) = {}
    <3>1. Reports(Compare(before, after, alpha), before, after, alpha, both)
      BY ONLY <2>2, CompareTells
    <3> QED BY ONLY <3>1 DEF Reports
  <2> HIDE DEF there, back
  <2>4. there = Compare(before, after, alpha)
    BY <2>1 DEF there
  <2> QED BY ONLY <1>3, <1>4, <2>1, <2>3, <2>4
<1>6. /\ back.test = McNemar(p, alpha) /\ back.delta = x - y
      /\ back.comparable <=> both # {} /\ Differences(db[a], db[b]) = {}
  <2>1. PICK before, after : before = db[a] /\ after = db[b]
    OBVIOUS
  <2>2. both = Both(before, after)
    BY <1>1, <2>1
  <2>3. /\ Compare(before, after, alpha).test = McNemar(QuartersOf(before, after), alpha)
        /\ Compare(before, after, alpha).delta
             = SumFunction(RatesOf(after, both)) - SumFunction(RatesOf(before, both))
        /\ Compare(before, after, alpha).comparable <=> both # {} /\ Differences(before, after) = {}
    <3>1. Reports(Compare(before, after, alpha), before, after, alpha, both)
      BY ONLY <2>2, CompareTells
    <3> QED BY ONLY <3>1 DEF Reports
  <2> HIDE DEF there, back
  <2>4. back = Compare(before, after, alpha)
    BY <2>1 DEF back
  <2> QED BY ONLY <1>3, <1>4, <2>1, <2>3, <2>4
<1> HIDE DEF there, back
<1>7. Differences(db[b], db[a]) = {} <=> Differences(db[a], db[b]) = {}
  BY DEF Differences
<1>8. McNemar(q, alpha).significant <=> McNemar(p, alpha).significant
  <2>1. /\ p.only_after = q.only_before /\ p.only_before = q.only_after
        /\ Cardinality(q.only_after) \in Nat /\ Cardinality(q.only_before) \in Nat
    BY <1>4, QuartersTell
  <2> QED BY <2>1, MirroredTest
<1>9. there.test.significant = back.test.significant
  <2>1. McNemar(q, alpha).significant = McNemar(p, alpha).significant
    BY <1>8, SignificantBoolean
  <2> QED BY <1>5, <1>6, <2>1
<1>10. back.delta = -there.delta
  BY <1>5, <1>6
<1>11. there.comparable <=> back.comparable
  BY <1>5, <1>6, <1>7
<1>12. PICK v, w : v = ComparisonVerdict(there) /\ w = ComparisonVerdict(back)
  OBVIOUS
<1>13. CASE ~ there.comparable
  <2>1. v = "not comparable" /\ w = "not comparable"
    BY <1>11, <1>12, <1>13 DEF ComparisonVerdict
  <2> QED BY <1>9, <1>10, <1>12, <2>1 DEF Mirrored, there, back
<1>14. CASE there.comparable /\ ~ there.test.significant
  <2>1. v = "no significant change" /\ w = "no significant change"
    BY <1>9, <1>11, <1>12, <1>14 DEF ComparisonVerdict
  <2> QED BY <1>9, <1>10, <1>12, <2>1 DEF Mirrored, there, back
<1>15. CASE there.comparable /\ there.test.significant
  <2>1. /\ v = IF there.delta < 0 THEN "regression" ELSE "improvement"
        /\ w = IF back.delta < 0 THEN "regression" ELSE "improvement"
    BY <1>9, <1>11, <1>12, <1>15 DEF ComparisonVerdict
  <2>2. PICK d \in Int : there.delta = d /\ back.delta = -d
    BY <1>5, <1>10
  <2>3. CASE d = 0
    <3>1. v = "improvement" /\ w = "improvement"
      BY ONLY <2>1, <2>2, <2>3
    <3> QED BY <1>9, <1>10, <1>12, <2>2, <2>3, <3>1 DEF Mirrored, there, back
  <2>4. CASE d # 0
    <3>1. <<v, w>> \in {<<"regression", "improvement">>, <<"improvement", "regression">>}
      BY ONLY <2>1, <2>2, <2>4, d \in Int
    <3> QED BY <1>9, <1>10, <1>12, <2>2, <2>4, <3>1 DEF Mirrored, there, back
  <2> QED BY <2>3, <2>4
<1> QED BY <1>13, <1>14, <1>15

-----------------------------------------------------------------------------
\* Without the attempts that did not complete, a run has the same completed
\* attempts and tallies.
LEMMA StrippedTells ==
    ASSUME RunsWhole, NEW r \in Recorded
    PROVE  /\ Completed(Stripped(db[r])) = Completed(db[r])
           /\ Tallied(Stripped(db[r])) = Tallied(db[r])
           /\ \A c : Tally(Stripped(db[r]), c) = Tally(db[r], c)
           /\ Stripped(db[r]).config = db[r].config
<1> DEFINE run == db[r]
           bare == Stripped(run)
           kept == {j \in DOMAIN run.results : run.results[j].status = "completed"}
           left == [k \in kept |-> run.results[k]]
<1>1. DOMAIN run = {"config", "results"}
  BY DEF RunsWhole, RunWhole
<1>2. bare.results = left /\ bare.config = run.config
  BY <1>1 DEF Stripped
<1>3. DOMAIN left = kept /\ \A k \in kept : left[k] = run.results[k]
  OBVIOUS
<1>4. Completed(run) = kept
  BY DEF Completed
<1> HIDE DEF run, bare, left
<1>5. Completed(bare) = kept
  BY <1>2, <1>3 DEF Completed
<1>6. Tallied(bare) = Tallied(run)
  BY <1>4, <1>5 DEF Tallied
<1>7. ASSUME NEW c PROVE Tally(bare, c) = Tally(run, c)
  <2>1. DoneOf(bare, c) = DoneOf(run, c) /\ DoneOf(run, c) \subseteq kept
    BY <1>4, <1>5 DEF DoneOf
  <2>2. PassedOf(bare, DoneOf(bare, c)) = PassedOf(run, DoneOf(run, c))
    <3> HIDE DEF kept
    <3> QED BY <1>2, <1>3, <2>1 DEF PassedOf
  <2>3. ASSUME NEW any
        PROVE  Tally(any, c) = [passed |-> Cardinality(PassedOf(any, DoneOf(any, c))),
                                total |-> Cardinality(DoneOf(any, c))]
    BY DEF Tally, DoneOf
  <2> QED BY <2>1, <2>2, <2>3
<1> QED BY <1>2, <1>4, <1>5, <1>6, <1>7 DEF bare, run

\* A comparison sees nothing of a run but its tallies and what it was configured
\* with.
LEMMA SameTallies ==
    ASSUME NEW before, NEW after, NEW less, NEW fewer, NEW alpha,
           Tallied(less) = Tallied(before), \A c : Tally(less, c) = Tally(before, c),
           Tallied(fewer) = Tallied(after), \A c : Tally(fewer, c) = Tally(after, c),
           less.config = before.config, fewer.config = after.config
    PROVE  Compare(before, after, alpha) = Compare(less, fewer, alpha)
<1>1. Differences(before, after) = Differences(less, fewer)
  BY DEF Differences
<1>2. Table(before, after) = Table(less, fewer)
  BY DEF Table
<1> QED BY <1>1, <1>2 DEF Compare

\* So it does not see the attempts that did not complete.
LEMMA AlwaysStripped ==
    ASSUME RunsWhole, NEW b \in Recorded, NEW a \in Recorded, NEW alpha
    PROVE  Compare(db[b], db[a], alpha) = Compare(Stripped(db[b]), Stripped(db[a]), alpha)
<1>1. PICK before, after, less, fewer :
        /\ before = db[b] /\ after = db[a]
        /\ less = Stripped(db[b]) /\ fewer = Stripped(db[a])
  OBVIOUS
<1>2. /\ Tallied(less) = Tallied(before) /\ Tallied(fewer) = Tallied(after)
      /\ \A c : Tally(less, c) = Tally(before, c)
      /\ \A c : Tally(fewer, c) = Tally(after, c)
      /\ less.config = before.config /\ fewer.config = after.config
  BY <1>1, StrippedTells
<1>3. Compare(before, after, alpha) = Compare(less, fewer, alpha)
  BY ONLY <1>2, SameTallies
<1> QED BY <1>1, <1>3

\* A load has the completed attempts and the tallies of its run, and of the
\* scores of each attempt all or none.
LEMMA TornTells ==
    ASSUME RunsWhole, NEW r \in Recorded, NEW late
    PROVE  LET run == db[r]
               load == Torn(db[r], late)
           IN /\ Completed(load) = Completed(run)
              /\ Tallied(load) = Tallied(run)
              /\ \A c : Tally(load, c) = Tally(run, c)
              /\ load.config = run.config
              /\ \A k \in Completed(run) :
                    DOMAIN load.results[k].evaluators
                        \in {{}, DOMAIN run.results[k].evaluators}
<1> DEFINE run == db[r]
           load == Torn(run, late)
           torn == [k \in DOMAIN run.results |->
                       IF k \in late THEN [run.results[k] EXCEPT !.evaluators = <<>>]
                       ELSE run.results[k]]
<1>1. RunWhole(run) /\ DOMAIN run = {"config", "results"}
  BY DEF RunsWhole, RunWhole
<1>2. load.results = torn /\ load.config = run.config
  BY <1>1 DEF Torn
<1>3. ASSUME NEW k \in DOMAIN run.results
      PROVE  /\ torn[k].status = run.results[k].status
             /\ torn[k].passed = run.results[k].passed
             /\ DOMAIN torn[k].evaluators \in {{}, DOMAIN run.results[k].evaluators}
  <2>1. PICK a : run.results[k] = ResultOf(Suites[run.config.suite], a)
    BY <1>1 DEF RunWhole
  <2>2. PICK result : result = run.results[k]
    OBVIOUS
  <2>3. {"status", "passed", "evaluators"} \subseteq DOMAIN result
    BY <2>1, <2>2 DEF ResultOf
  <2>4. torn[k] = IF k \in late THEN [result EXCEPT !.evaluators = <<>>] ELSE result
    BY <2>2
  <2>5. DOMAIN <<>> = {}
    OBVIOUS
  <2> HIDE DEF torn, run
  <2>6. /\ torn[k].status = result.status /\ torn[k].passed = result.passed
        /\ torn[k].evaluators \in {<<>>, result.evaluators}
    BY ONLY <2>3, <2>4
  <2> QED BY <2>2, <2>5, <2>6
<1>4. DOMAIN torn = DOMAIN run.results
  OBVIOUS
<1> HIDE DEF run, load, torn
<1>5. Completed(load) = Completed(run) /\ Completed(run) \subseteq DOMAIN run.results
  BY <1>2, <1>3, <1>4 DEF Completed
<1>6. Tallied(load) = Tallied(run)
  BY <1>5 DEF Tallied
<1>7. ASSUME NEW c PROVE Tally(load, c) = Tally(run, c)
  <2>1. DoneOf(load, c) = DoneOf(run, c) /\ DoneOf(run, c) \subseteq DOMAIN run.results
    BY <1>5 DEF DoneOf
  <2>2. PassedOf(load, DoneOf(load, c)) = PassedOf(run, DoneOf(run, c))
    BY <1>2, <1>3, <2>1 DEF PassedOf
  <2>3. ASSUME NEW any
        PROVE  Tally(any, c) = [passed |-> Cardinality(PassedOf(any, DoneOf(any, c))),
                                total |-> Cardinality(DoneOf(any, c))]
    BY DEF Tally, DoneOf
  <2> QED BY <2>1, <2>2, <2>3
<1>8. \A k \in Completed(run) :
        DOMAIN load.results[k].evaluators \in {{}, DOMAIN run.results[k].evaluators}
  BY <1>2, <1>3, <1>5
<1> QED BY <1>2, <1>5, <1>6, <1>7, <1>8 DEF run, load
-----------------------------------------------------------------------------
\* With one completed attempt of every case, a total counts the cases won.
LEMMA SinglesTotal ==
    ASSUME RunsWhole, NEW r \in Recorded, NEW cases \in SUBSET Tallied(db[r]),
           \A c \in cases : Tally(db[r], c).total = 1
    PROVE  SumFunction(RatesOf(db[r], cases)) = Unit * Cardinality(WonAt(db[r], cases))
<1> DEFINE rates == RatesOf(db[r], cases)
           ones == [c \in cases |-> IF c \in WonAt(db[r], cases) THEN 1 ELSE 0]
<1>1. IsFiniteSet(cases)
  BY RatesSum
<1>2. PICK u \in Nat \ {0} : u = Unit
  BY UnitExact
<1>3. ASSUME NEW c \in cases
      PROVE  rates[c] = u * ones[c]
  <2>0. c \in Tallied(db[r]) /\ Tally(db[r], c).total = 1
    OBVIOUS
  <2>1. PICK p \in Nat, t \in Nat \ {0}, q \in Nat \ {0} :
          /\ p = Tally(db[r], c).passed /\ t = Tally(db[r], c).total
          /\ p <= t /\ Unit = q * t /\ Rate(Tally(db[r], c)) = q * p
    BY <2>0, RateTells
  <2>2. u = q * 1 /\ p \in {0, 1}
    BY ONLY <1>2, <2>0, <2>1, p \in Nat, t \in Nat \ {0}
  <2>3. rates[c] = q * p
    BY <2>1 DEF RatesOf
  <2>4. c \in WonAt(db[r], cases) <=> 2 * rates[c] > u
    BY <1>2 DEF WonAt, Majority
  <2>5. ones[c] = IF c \in WonAt(db[r], cases) THEN 1 ELSE 0
    OBVIOUS
  <2> HIDE DEF rates, ones
  <2>6. CASE p = 0
    <3>1. rates[c] = 0
      BY ONLY <2>3, <2>6, q \in Nat \ {0}
    <3>2. ~ (2 * rates[c] > u)
      BY ONLY <3>1, u \in Nat \ {0}
    <3>3. ones[c] = 0
      BY ONLY <2>4, <2>5, <3>2
    <3> QED BY ONLY <3>1, <3>3, u \in Nat \ {0}
  <2>7. CASE p = 1
    <3>1. rates[c] = u
      BY ONLY <2>2, <2>3, <2>7, q \in Nat \ {0}
    <3>2. 2 * rates[c] > u
      BY ONLY <3>1, u \in Nat \ {0}
    <3>3. ones[c] = 1
      BY ONLY <2>4, <2>5, <3>2
    <3> QED BY ONLY <3>1, <3>3, u \in Nat \ {0}
  <2> QED BY <2>2, <2>6, <2>7
<1>4. \A c \in cases : ones[c] \in {0, 1} /\ ones[c] \in Int
  OBVIOUS
<1>5. Fibre(cases, ones, 1) = WonAt(db[r], cases)
  <2>1. WonAt(db[r], cases) \in SUBSET cases
    BY DEF WonAt
  <2>2. \A c \in cases : ones[c] = 1 <=> c \in WonAt(db[r], cases)
    OBVIOUS
  <2> HIDE DEF ones
  <2> QED BY ONLY <2>1, <2>2 DEF Fibre
<1>6. DOMAIN rates = cases
  BY DEF RatesOf
<1> HIDE DEF rates, ones
<1>7. SumFunctionOnSet(ones, cases) = Cardinality(WonAt(db[r], cases))
  BY <1>1, <1>4, <1>5, CountOfOnes
<1>8. SumFunctionOnSet(rates, cases) = u * SumFunctionOnSet(ones, cases)
  <2>1. u \in Int
    OBVIOUS
  <2> QED BY <1>1, <1>3, <1>4, <2>1, SumTimes
<1> QED BY <1>2, <1>6, <1>7, <1>8 DEF SumFunction, rates

\* Two sets differ by as much as one has more than the other.
LEMMA CountsDiffer ==
    ASSUME NEW S, IsFiniteSet(S), NEW T, IsFiniteSet(T)
    PROVE  /\ Cardinality(S) \in Nat /\ Cardinality(T) \in Nat
           /\ Cardinality(S \ T) \in Nat /\ Cardinality(T \ S) \in Nat
           /\ Cardinality(S) - Cardinality(T) = Cardinality(S \ T) - Cardinality(T \ S)
<1>1. S \cap T = T \cap S
  OBVIOUS
<1>2. /\ IsFiniteSet(S \ T) /\ IsFiniteSet(T \ S) /\ IsFiniteSet(S \cap T)
      /\ Cardinality(S \ T) = Cardinality(S) - Cardinality(S \cap T)
      /\ Cardinality(T \ S) = Cardinality(T) - Cardinality(S \cap T)
  <2>1. /\ IsFiniteSet(S \ T) /\ Cardinality(S \ T) = Cardinality(S) - Cardinality(S \cap T)
        /\ IsFiniteSet(S \cap T)
    BY ONLY IsFiniteSet(S), FS_Difference, FS_Intersection
  <2>2. IsFiniteSet(T \ S) /\ Cardinality(T \ S) = Cardinality(T) - Cardinality(T \cap S)
    BY ONLY IsFiniteSet(T), FS_Difference
  <2> QED BY ONLY <1>1, <2>1, <2>2
<1>3. /\ Cardinality(S) \in Nat /\ Cardinality(T) \in Nat
      /\ Cardinality(S \ T) \in Nat /\ Cardinality(T \ S) \in Nat
      /\ Cardinality(S \cap T) \in Nat
  BY <1>2, FS_CardinalityType
<1> QED BY <1>2, <1>3

\* The verdict follows the test when no case was sampled twice.
LEMMA AlwaysFollows ==
    ASSUME RunsWhole, NEW b \in Recorded, NEW a \in Recorded, NEW alpha \in Plan.alphas
    PROVE  FollowsTest(db[b], db[a], Compare(db[b], db[a], alpha))
<1> DEFINE report == Compare(db[b], db[a], alpha)
<1>1. PICK before, after, both :
        before = db[b] /\ after = db[a] /\ both = Both(db[b], db[a])
  OBVIOUS
<1>2. both \in SUBSET Tallied(before) /\ both \in SUBSET Tallied(after) /\ IsFiniteSet(both)
  BY <1>1, BothTell
<1>3. both = Both(before, after)
  BY <1>1
<1>4. report = Compare(before, after, alpha)
  BY <1>1
<1> HIDE DEF report
<1>5. PICK q : q = QuartersOf(before, after)
  OBVIOUS
<1>6. /\ report.shared = both /\ report.test = McNemar(q, alpha)
      /\ report.delta = SumFunction(RatesOf(after, both)) - SumFunction(RatesOf(before, both))
  <2>1. Reports(report, before, after, alpha, both)
    BY ONLY <1>3, <1>4, CompareTells
  <2> QED BY ONLY <1>5, <2>1 DEF Reports
<1>7. PICK wb, wa : wb = WonAt(before, both) /\ wa = WonAt(after, both)
  OBVIOUS
<1>8. q.only_after = wa \ wb /\ q.only_before = wb \ wa
  BY <1>1, <1>5, <1>7, QuartersTell
<1>9. IsFiniteSet(wb) /\ IsFiniteSet(wa)
  <2>1. wb \in SUBSET both /\ wa \in SUBSET both
    BY <1>7 DEF WonAt
  <2> QED BY <1>2, <2>1, FS_Subset
<1>10. PICK nb \in Nat, na \in Nat, g \in Nat, l \in Nat :
         /\ nb = Cardinality(wb) /\ na = Cardinality(wa)
         /\ g = Cardinality(q.only_after) /\ l = Cardinality(q.only_before)
         /\ na - nb = g - l
  <2>1. /\ Cardinality(wa) \in Nat /\ Cardinality(wb) \in Nat
        /\ Cardinality(wa \ wb) \in Nat /\ Cardinality(wb \ wa) \in Nat
        /\ Cardinality(wa) - Cardinality(wb) = Cardinality(wa \ wb) - Cardinality(wb \ wa)
    BY ONLY <1>9, CountsDiffer
  <2> QED BY ONLY <1>8, <2>1
<1>11. report.test.direction = IF g > l THEN "improvement"
                               ELSE IF g < l THEN "regression" ELSE "no change"
  <2>1. McNemar(q, alpha).direction
          = IF Cardinality(q.only_after) > Cardinality(q.only_before) THEN "improvement"
            ELSE IF Cardinality(q.only_after) < Cardinality(q.only_before) THEN "regression"
            ELSE "no change"
    BY ONLY TRUE DEF McNemar
  <2> QED BY ONLY <1>6, <1>10, <2>1
<1>12. g = l => ~ report.test.significant
  BY <1>6, <1>10, PlannedLevel, EvenInsignificant
<1> SUFFICES ASSUME \A c \in both : Tally(before, c).total = 1 /\ Tally(after, c).total = 1
             PROVE  ComparisonVerdict(report)
                      \in {"not comparable", "no significant change", report.test.direction}
  BY <1>1, <1>6 DEF FollowsTest, report
<1>13. PICK u \in Nat \ {0} : u = Unit
  BY UnitExact
<1>14. /\ SumFunction(RatesOf(after, both)) = u * na
       /\ SumFunction(RatesOf(before, both)) = u * nb
  <2>1. /\ \A c \in both : Tally(before, c).total = 1
        /\ \A c \in both : Tally(after, c).total = 1
    OBVIOUS
  <2> QED BY <1>1, <1>2, <1>7, <1>10, <1>13, <2>1, SinglesTotal
<1>15. report.delta = u * na - u * nb
  BY ONLY <1>6, <1>14
<1>16. report.delta < 0 <=> g < l
  <2>1. u * nb > u * na <=> nb > na
    BY FactorKept
  <2>2. u * nb \in Nat /\ u * na \in Nat
    OBVIOUS
  <2>3. u * na - u * nb < 0 <=> u * nb > u * na
    BY ONLY <2>2
  <2>4. nb > na <=> g < l
    BY ONLY <1>10, nb \in Nat, na \in Nat, g \in Nat, l \in Nat
  <2> QED BY ONLY <1>15, <2>1, <2>3, <2>4
<1>17. report.comparable /\ report.test.significant
         => ComparisonVerdict(report) = report.test.direction
  <2>1. SUFFICES ASSUME report.comparable, report.test.significant
                 PROVE  ComparisonVerdict(report) = report.test.direction
    OBVIOUS
  <2>2. ComparisonVerdict(report) = IF report.delta < 0 THEN "regression" ELSE "improvement"
    BY <2>1 DEF ComparisonVerdict
  <2>3. g # l
    BY <1>12, <2>1
  <2>4. CASE g < l
    BY ONLY <1>11, <1>16, <2>2, <2>4, g \in Nat, l \in Nat
  <2>5. CASE g > l
    BY ONLY <1>11, <1>16, <2>2, <2>5, g \in Nat, l \in Nat
  <2> QED BY ONLY <2>3, <2>4, <2>5, g \in Nat, l \in Nat
<1> QED BY <1>17 DEF ComparisonVerdict
-----------------------------------------------------------------------------
\* A twentieth of a whole number of units is something, and no more than all.
LEMMA TwentiethOfUnits ==
    ASSUME RunsWhole, NEW n \in Nat \ {0}
    PROVE  /\ Unit * n \in Nat /\ Unit * n > 0
           /\ (Unit * n) \div 20 \in Nat /\ (Unit * n) \div 20 > 0
           /\ (Unit * n) \div 20 <= Unit * n
<1>1. 1 \in 1 .. MaxSamples
  <2>1. study \in Studies
    BY DEF RunsWhole
  <2> QED BY <2>1, PlansAssumption, UnitExact
<1>2. Unit % 20 = 0 /\ 20 \in Nat \ {0}
  BY <1>1, UnitExact
<1>3. PICK q \in Nat \ {0} : Unit = q * 20
  BY <1>2, UnitShared
<1>4. PICK m \in Nat : m = q * n /\ m > 0
  <2>1. q * n \in Nat /\ q * n > 0
    OBVIOUS
  <2> QED BY <2>1
<1>5. Unit * n = m * 20
  <2>1. (q * 20) * n = (q * n) * 20
    BY ONLY q \in Nat \ {0}, n \in Nat \ {0}
  <2> QED BY ONLY <1>3, <1>4, <2>1
<1>6. (m * 20) \div 20 = m
  BY ONLY m \in Nat
<1> QED BY ONLY <1>4, <1>5, <1>6, m \in Nat

\* The question of required_sample_size has an answer, but at the ends of what
\* --alpha takes.
LEMMA PowerAlwaysDefined ==
    ASSUME RunsWhole, NEW b \in Recorded, NEW a \in Recorded, NEW alpha
    PROVE  PowerDefined(Compare(db[b], db[a], alpha), alpha)
<1>1. PICK before, after, both, report :
        /\ before = db[b] /\ after = db[a] /\ both = Both(db[b], db[a])
        /\ report = Compare(before, after, alpha)
  OBVIOUS
<1>2. both \in SUBSET Tallied(before) /\ both \in SUBSET Tallied(after) /\ Cardinality(both) \in Nat
  BY <1>1, BothTell
<1>3. both = Both(before, after)
  BY <1>1
<1>4. PICK n \in Nat \ {0}, c \in Nat :
        /\ n = Max({1, Cardinality(both)}) /\ c = Cardinality(both)
        /\ c <= n
  <2>1. PICK c \in Nat : c = Cardinality(both)
    BY <1>2
  <2>2. Max({1, c}) = IF 1 < c THEN c ELSE 1
    BY ONLY c \in Nat, OfTwo
  <2> QED BY ONLY <2>1, <2>2, c \in Nat
<1>5. PICK u \in Nat \ {0} : u = Unit
  BY UnitExact
<1>6. PICK whole \in Nat, part \in Nat :
        whole = Unit * n /\ whole > 0 /\ part = whole \div 20 /\ part > 0 /\ part <= whole
  BY TwentiethOfUnits
<1>7. PICK x \in Nat, y \in Nat :
        /\ x = SumFunction(RatesOf(before, both)) /\ x <= whole
        /\ y = SumFunction(RatesOf(after, both)) /\ y <= whole
  <2>1. /\ SumFunction(RatesOf(before, both)) \in 0 .. u * c
        /\ SumFunction(RatesOf(after, both)) \in 0 .. u * c
    BY <1>1, <1>2, <1>4, <1>5, RatesSum
  <2>2. u * n >= u * c
    <3>1. n \in Int /\ c \in Int /\ n >= c /\ u \in Nat
      BY ONLY <1>4, n \in Nat \ {0}, c \in Nat, u \in Nat \ {0}
    <3> QED BY ONLY <3>1, AtLeastTimes
  <2>3. u * c \in Nat /\ whole = u * n
    BY ONLY <1>5, <1>6, u \in Nat \ {0}, c \in Nat
  <2> QED BY ONLY <2>1, <2>2, <2>3, whole \in Nat
<1>8. report.shared = both /\ report.asked = PowerQuestion(x, y, n, alpha)
  <2>1. Reports(report, before, after, alpha, both)
    BY ONLY <1>1, <1>3, CompareTells
  <2> QED BY ONLY <1>4, <1>7, <2>1 DEF Reports
<1>9. PICK moved \in Nat : moved = (IF y >= x THEN y - x ELSE x - y) /\ moved <= whole
  BY ONLY <1>7, x \in Nat, y \in Nat, whole \in Nat
<1>10. PICK effect \in Nat :
         effect = (IF moved = 0 THEN part ELSE moved) /\ effect > 0 /\ effect <= whole
  BY ONLY <1>6, <1>9, moved \in Nat, part \in Nat, whole \in Nat
<1>11. report.asked = [effect |-> effect, whole |-> whole, alpha |-> alpha,
                       baseline |-> IF effect < whole THEN Min({x, whole - effect}) ELSE 0]
  BY ONLY <1>6, <1>8, <1>9, <1>10 DEF PowerQuestion
<1>12. report.asked.effect = effect /\ report.asked.whole = whole /\ report.asked.alpha = alpha
  BY ONLY <1>11
<1>13. report.asked.baseline = IF effect < whole THEN Min({x, whole - effect}) ELSE 0
  BY ONLY <1>11
<1>14. /\ 0 <= report.asked.baseline /\ report.asked.baseline <= whole
       /\ report.asked.baseline + effect <= whole
  <2>1. x \in Int /\ whole - effect \in Int
    OBVIOUS
  <2>2. Min({x, whole - effect}) = IF x < whole - effect THEN x ELSE whole - effect
    BY ONLY <2>1, OfTwo
  <2> QED BY ONLY <1>10, <1>13, <2>2, x \in Nat, effect \in Nat, whole \in Nat
<1>15. PowerDefined(report, alpha)
  BY <1>10, <1>12, <1>14 DEF PowerDefined, Answerable
<1> QED BY <1>1, <1>15

-----------------------------------------------------------------------------
\* What the cases that the generator drew moved by, together.
DrawnBy(diff, draw) == SumFunction([i \in DOMAIN draw |-> diff[draw[i]]])

\* A draw of as many cases as there are moves no further than the case that
\* moved furthest.
LEMMA DrawBounded ==
    ASSUME NEW cases, IsFiniteSet(cases), cases # {}, NEW n \in Nat, n = Cardinality(cases),
           NEW diff \in [cases -> Int],
           NEW draw \in [1 .. n -> cases]
    PROVE  /\ n * Min(Range(diff)) <= DrawnBy(diff, draw)
           /\ DrawnBy(diff, draw) <= n * Max(Range(diff))
<1> DEFINE drawn == [i \in DOMAIN draw |-> diff[draw[i]]]
<1>1. IsFiniteSet(1 .. n) /\ Cardinality(1 .. n) = n
  BY UpToFinite
<1>2. PICK R : R = Range(diff)
  OBVIOUS
<1>3. IsFiniteSet(R) /\ R \subseteq Int /\ R # {} /\ \A c \in cases : diff[c] \in R
  <2>1. R = {diff[c] : c \in cases}
    BY <1>2 DEF Range
  <2>2. diff \in Surjection(cases, R)
    BY <2>1 DEF Surjection
  <2>3. IsFiniteSet(R)
    BY ONLY <2>2, IsFiniteSet(cases), FS_Surjection
  <2> QED BY <2>1, <2>3
<1>4. PICK low \in Int, high \in Int :
        /\ low = Min(R) /\ high = Max(R)
        /\ \A y \in R : low <= y /\ y <= high
  <2>1. /\ Max(R) \in R /\ \A y \in R : Max(R) >= y
        /\ Min(R) \in R /\ \A y \in R : Min(R) <= y
    BY ONLY <1>3, Largest
  <2>2. Max(R) \in Int /\ Min(R) \in Int
    BY <1>3, <2>1
  <2>3. PICK low \in Int, high \in Int : low = Min(R) /\ high = Max(R)
    BY <2>2
  <2>4. \A y \in R : low <= y /\ y <= high
    BY <1>3, <2>1, <2>3
  <2> QED BY <2>3, <2>4
<1> DEFINE lows == [i \in 1 .. n |-> low]
           highs == [i \in 1 .. n |-> high]
<1>5. DOMAIN drawn = 1 .. n /\ \A i \in 1 .. n : drawn[i] = diff[draw[i]] /\ draw[i] \in cases
  OBVIOUS
<1>6. \A i \in 1 .. n : lows[i] = low /\ highs[i] = high
  OBVIOUS
<1> HIDE DEF drawn, lows, highs
<1>7. \A i \in 1 .. n : drawn[i] \in Int /\ lows[i] \in Int /\ lows[i] <= drawn[i]
  BY <1>3, <1>4, <1>5, <1>6
<1>8. \A i \in 1 .. n : drawn[i] \in Int /\ highs[i] \in Int /\ drawn[i] <= highs[i]
  BY <1>3, <1>4, <1>5, <1>6
<1>9. SumFunctionOnSet(lows, 1 .. n) <= SumFunctionOnSet(drawn, 1 .. n)
  BY <1>1, <1>7, SumsOrdered
<1>10. SumFunctionOnSet(drawn, 1 .. n) <= SumFunctionOnSet(highs, 1 .. n)
  BY <1>1, <1>8, SumsOrdered
<1>11. SumFunctionOnSet(lows, 1 .. n) = low * n /\ SumFunctionOnSet(highs, 1 .. n) = high * n
  <2>1. (\A i \in 1 .. n : lows[i] = low) /\ (\A i \in 1 .. n : highs[i] = high)
    BY <1>6
  <2>2. SumFunctionOnSet(lows, 1 .. n) = low * n
    BY ONLY <1>1, <2>1, low \in Int, SumOfEqual
  <2>3. SumFunctionOnSet(highs, 1 .. n) = high * n
    BY ONLY <1>1, <2>1, high \in Int, SumOfEqual
  <2> QED BY ONLY <2>2, <2>3
<1>12. SumFunction(drawn) = SumFunctionOnSet(drawn, 1 .. n)
  BY <1>5 DEF SumFunction
<1>13. low * n = n * low /\ high * n = n * high
  OBVIOUS
<1>14. n * Min(Range(diff)) <= SumFunction(drawn) /\ SumFunction(drawn) <= n * Max(Range(diff))
  BY ONLY <1>2, <1>4, <1>9, <1>10, <1>11, <1>12, <1>13
<1> QED BY <1>14 DEF drawn, DrawnBy

\* No draw of the bootstrap lies outside of what single cases did.
LEMMA AlwaysBounded ==
    ASSUME RunsWhole, NEW b \in Recorded, NEW a \in Recorded, NEW alpha
    PROVE  BootstrapBounded(Compare(db[b], db[a], alpha))
<1>1. PICK before, after, both, report :
        /\ before = db[b] /\ after = db[a] /\ both = Both(db[b], db[a])
        /\ report = Compare(before, after, alpha)
  OBVIOUS
<1>2. /\ both \in SUBSET Tallied(before) /\ both \in SUBSET Tallied(after)
      /\ IsFiniteSet(both) /\ Cardinality(both) \in Nat
  BY <1>1, BothTell
<1>3. both = Both(before, after)
  BY <1>1
<1>4. report.shared = both /\ report.deltas = ChangesOf(before, after, both)
  <2>1. Reports(report, before, after, alpha, both)
    BY ONLY <1>1, <1>3, CompareTells
  <2> QED BY ONLY <2>1 DEF Reports
<1>5. PICK diff : diff = report.deltas
  OBVIOUS
<1>6. diff \in [both -> Int]
  <2>1. \A c \in both : RatesOf(before, both)[c] \in 0 .. Unit /\ RatesOf(after, both)[c] \in 0 .. Unit
    BY <1>1, <1>2, RatesSum
  <2>2. \A c \in both : RatesOf(after, both)[c] - RatesOf(before, both)[c] \in Int
    BY <2>1, UnitExact
  <2>3. diff = [c \in both |-> RatesOf(after, both)[c] - RatesOf(before, both)[c]]
    BY <1>4, <1>5 DEF ChangesOf
  <2> QED BY ONLY <2>2, <2>3
<1>7. PICK n \in Nat : n = Cardinality(both)
  BY <1>2
<1>8. ASSUME both # {}, NEW draw \in [1 .. n -> both]
      PROVE  /\ n * Min(Range(diff)) <= DrawnBy(diff, draw)
             /\ DrawnBy(diff, draw) <= n * Max(Range(diff))
  BY ONLY <1>2, <1>6, <1>7, <1>8, n \in Nat, DrawBounded
<1>9. ASSUME both # {}, NEW mean \in BootstrapMeans(both, diff)
      PROVE  n * Min(Range(diff)) <= mean /\ mean <= n * Max(Range(diff))
  <2>1. PICK draw \in [1 .. n -> both] : mean = DrawnBy(diff, draw)
    BY <1>7, <1>9 DEF BootstrapMeans, DrawnBy
  <2> QED BY <1>8, <1>9, <2>1
<1>10. BootstrapBounded(report)
  BY <1>4, <1>5, <1>7, <1>9 DEF BootstrapBounded
<1> QED BY <1>1, <1>10
-----------------------------------------------------------------------------
\* A load with the scores of one attempt has a mean for every evaluator of the
\* suite.
LEMMA ScoresOfSuite ==
    ASSUME RunsWhole, NEW r \in Recorded, NEW late, WithScores(Torn(db[r], late)) # {}
    PROVE  DOMAIN EvaluatorScores(Torn(db[r], late)) = Suites[db[r].config.suite].evaluators
<1>1. PICK run, load : run = db[r] /\ load = Torn(db[r], late)
  OBVIOUS
<1>2. /\ RunWhole(run) /\ WithScores(load) # {}
      /\ Completed(load) = Completed(run)
      /\ \A k \in Completed(run) :
            DOMAIN load.results[k].evaluators \in {{}, DOMAIN run.results[k].evaluators}
  BY <1>1, TornTells DEF RunsWhole
<1>3. PICK names : names = Suites[run.config.suite].evaluators
  OBVIOUS
<1>4. ASSUME NEW k \in Completed(run) PROVE DOMAIN run.results[k].evaluators = names
  <2>1. k \in DOMAIN run.results /\ run.results[k].status = "completed"
    BY DEF Completed
  <2>2. PICK a : a = RealOf(run.results[k])
    OBVIOUS
  <2>3. run.results[k].evaluators = Evaluate(Suites[run.config.suite], a)
    BY <1>2, <2>1, <2>2, ResultTells
  <2>4. DOMAIN Evaluate(Suites[run.config.suite], a) = names
    BY <1>3 DEF Evaluate
  <2> QED BY <2>3, <2>4
<1>5. DOMAIN EvaluatorScores(load) = UNION {DOMAIN load.results[k].evaluators : k \in Completed(load)}
  BY DEF EvaluatorScores
<1>6. \A k \in Completed(load) : DOMAIN load.results[k].evaluators \in {{}, names}
  BY <1>2, <1>4
<1>7. \E k \in Completed(load) : DOMAIN load.results[k].evaluators = names
  BY <1>2, <1>6 DEF WithScores
<1>8. UNION {DOMAIN load.results[k].evaluators : k \in Completed(load)} = names
  BY ONLY <1>6, <1>7
<1> QED BY <1>1, <1>3, <1>5, <1>8

\* So two loads of one suite have the same dimensions.
LEMMA DimensionsAlwaysReal ==
    ASSUME RunsWhole, NEW b \in Recorded, NEW a \in Recorded, NEW late, NEW later
    PROVE  DimensionsReal(Torn(db[b], late), Torn(db[a], later))
<1>1. PICK before, after : before = Torn(db[b], late) /\ after = Torn(db[a], later)
  OBVIOUS
<1>2. /\ DOMAIN Dimensions(before, after)
            = DOMAIN EvaluatorScores(before) \cup DOMAIN EvaluatorScores(after)
  BY DEF Dimensions
<1>3. before.config = db[b].config /\ after.config = db[a].config
  BY <1>1, TornTells
<1>4. WithScores(before) # {} => DOMAIN EvaluatorScores(before) = Suites[before.config.suite].evaluators
  BY <1>1, <1>3, ScoresOfSuite
<1>5. WithScores(after) # {} => DOMAIN EvaluatorScores(after) = Suites[after.config.suite].evaluators
  BY <1>1, <1>3, ScoresOfSuite
<1>6. DimensionsReal(before, after)
  BY <1>2, <1>4, <1>5 DEF DimensionsReal
<1> QED BY <1>1, <1>6

\* `compare --fail-on-regression` fails for a loss only, and raises where
\* required_sample_size does.
LEMMA FailsForLoss ==
    ASSUME NEW loaded, NEW b \in DOMAIN loaded, NEW a \in DOMAIN loaded, NEW alpha, NEW report,
           report = Compare(loaded[b], loaded[a], alpha)
    PROVE  LET exit == CompareCommand(loaded, b, a, alpha)
           IN /\ exit = "traceback" <=> ~ Answerable(report.asked)
              /\ exit = "check_failed" => report.delta < 0
<1>1. CompareCommand(loaded, b, a, alpha)
        = IF ~ Answerable(report.asked) THEN "traceback"
          ELSE IF ComparisonVerdict(report) = "regression" THEN "check_failed" ELSE "ok"
  BY DEF CompareCommand, WithRun
<1>2. ComparisonVerdict(report) = "regression" => report.delta < 0
  BY DEF ComparisonVerdict
<1> QED BY <1>1, <1>2

\* What was recorded during the loads does not show in a comparison.
LEMMA LoadsAlwaysAgree ==
    ASSUME RunsWhole, NEW b \in Recorded, NEW a \in Recorded, b # a, NEW alpha
    PROVE  LoadsAgree(b, a, alpha, Compare(db[b], db[a], alpha))
<1> DEFINE there == Compare(db[b], db[a], alpha)
<1>1. ASSUME NEW before \in Loads(db[b], Plan.late), NEW after \in Loads(db[a], Plan.late)
      PROVE  LET loaded == [db EXCEPT ![b] = before, ![a] = after]
                 exit == CompareCommand(loaded, b, a, alpha)
             IN /\ Compare(before, after, alpha) = there
                /\ DimensionsReal(before, after)
                /\ exit = "traceback" <=> ~ Answerable(there.asked)
                /\ exit = "check_failed" => there.delta < 0
  <2> DEFINE loaded == [db EXCEPT ![b] = before, ![a] = after]
  <2>1. PICK late, later : before = Torn(db[b], late) /\ after = Torn(db[a], later)
    BY DEF Loads
  <2>2. PICK report : report = there
    OBVIOUS
  <2>3. Compare(before, after, alpha) = report
    <3>1. PICK whole, other : whole = db[b] /\ other = db[a]
      OBVIOUS
    <3>2. /\ Tallied(before) = Tallied(whole) /\ Tallied(after) = Tallied(other)
          /\ \A c : Tally(before, c) = Tally(whole, c)
          /\ \A c : Tally(after, c) = Tally(other, c)
          /\ before.config = whole.config /\ after.config = other.config
      BY <2>1, <3>1, TornTells
    <3>3. Compare(whole, other, alpha) = Compare(before, after, alpha)
      BY ONLY <3>2, SameTallies
    <3> QED BY <2>2, <3>1, <3>3
  <2>4. DimensionsReal(before, after)
    BY <2>1, DimensionsAlwaysReal
  <2>5. /\ b \in DOMAIN loaded /\ a \in DOMAIN loaded
        /\ loaded[b] = before /\ loaded[a] = after
    BY DEF Recorded
  <2> HIDE DEF loaded, there
  <2>6. report = Compare(loaded[b], loaded[a], alpha)
    BY <2>3, <2>5
  <2>7. PICK exit : exit = CompareCommand(loaded, b, a, alpha)
    OBVIOUS
  <2>8. /\ exit = "traceback" <=> ~ Answerable(report.asked)
        /\ exit = "check_failed" => report.delta < 0
    BY ONLY <2>5, <2>6, <2>7, FailsForLoss
  <2> QED BY <2>2, <2>3, <2>4, <2>7, <2>8 DEF loaded
<1> QED BY <1>1 DEF LoadsAgree

\* Whatever is in the database, comparisons mean what they say.
LEMMA ComparisonAlwaysSound ==
    ASSUME RunsWhole
    PROVE  ComparisonSound
<1>1. SelfQuiet
  BY SelfAlwaysQuiet
<1>2. \A r \in Recorded : EstimatorsCount(db[r])
  BY EstimatorsAlwaysCount
<1>3. ASSUME NEW b \in Recorded, NEW a \in Recorded, NEW alpha \in Plan.alphas, b # a
      PROVE  LET there == Compare(db[b], db[a], alpha)
             IN /\ Mirrored(there, Compare(db[a], db[b], alpha))
                /\ there = Compare(Stripped(db[b]), Stripped(db[a]), alpha)
                /\ FollowsTest(db[b], db[a], there)
                /\ PowerDefined(there, alpha)
                /\ BootstrapBounded(there)
                /\ LoadsAgree(b, a, alpha, there)
  BY <1>3, AlwaysMirrored, AlwaysStripped, AlwaysFollows, PowerAlwaysDefined, AlwaysBounded,
     LoadsAlwaysAgree
<1> QED BY <1>1, <1>2, <1>3 DEF ComparisonSound
-----------------------------------------------------------------------------
\* A trace is a sequence of the events that there are.
Events == {[kind |-> "TaskStarted"]} \cup UNION {Range(es) : es \in EventGroups}
TraceKept == trace \in Seq(Events)

\* One trace goes on where another ends.
Continues(es, more) ==
    /\ Len(es) \in Nat /\ DOMAIN es = 1 .. Len(es)
    /\ Len(more) \in Nat /\ DOMAIN more = 1 .. Len(more)
    /\ Len(es) <= Len(more)
    /\ \A i \in 1 .. Len(es) : more[i] = es[i]

\* It is one at first.
LEMMA InitTrace == Init => TraceKept
<1>1. [kind |-> "TaskStarted"] \in Events
  BY DEF Events
<1>2. ASSUME NEW e, e \in Events PROVE <<e>> \in Seq(Events)
  BY <1>2
<1> QED BY <1>1, <1>2 DEF Init, TraceKept

\* What a tool call leaves is appended to it, and nothing else changes it.
LEMMA NextTrace ==
    ASSUME TraceKept, [Next]_vars
    PROVE  TraceKept' /\ (trace' # trace => Continues(trace, trace'))
<1>1. CASE \E es \in EventGroups : RecordEvents(es)
  <2>1. PICK es \in EventGroups : RecordEvents(es)
    BY <1>1
  <2>2. es \in Seq(Range(es)) /\ Range(es) \subseteq Events
    BY EventsAssumption DEF Events
  <2>3. es \in Seq(Events)
    BY ONLY <2>2, SeqMonotonic
  <2>4. trace' = trace \o es
    BY <2>1 DEF RecordEvents
  <2>5. /\ trace \in Seq(Events) /\ trace \o es \in Seq(Events)
        /\ Len(trace \o es) = Len(trace) + Len(es)
        /\ \A i \in 1 .. Len(trace) + Len(es) :
             (trace \o es)[i] = IF i <= Len(trace) THEN trace[i] ELSE es[i - Len(trace)]
    BY ONLY TraceKept, <2>3, ConcatProperties DEF TraceKept
  <2>6. /\ Len(trace) \in Nat /\ DOMAIN trace = 1 .. Len(trace)
        /\ Len(es) \in Nat
    BY ONLY <2>3, <2>5, LenProperties
  <2>7. Len(trace \o es) \in Nat /\ DOMAIN (trace \o es) = 1 .. Len(trace \o es)
    BY ONLY <2>5, LenProperties
  <2>8. PICK m : m = trace \o es
    OBVIOUS
  <2>9. Continues(trace, m)
    BY ONLY <2>5, <2>6, <2>7, <2>8 DEF Continues
  <2>10. m \in Seq(Events) /\ trace' = m
    BY ONLY <2>4, <2>5, <2>8
  <2> QED BY ONLY <2>9, <2>10 DEF TraceKept, Events
<1>2. ASSUME trace' = trace PROVE TraceKept'
  BY <1>2 DEF TraceKept, Events
<1>3. Next => \/ \E es \in EventGroups : RecordEvents(es)
              \/ trace' = trace
  BY DEF Next, StartRun, RecordResult, RefuseResult, RecordVerdict, RecordPair, records
<1>4. UNCHANGED vars => trace' = trace
  BY DEF vars, records
<1> QED BY <1>1, <1>2, <1>3, <1>4

-----------------------------------------------------------------------------
\* A trace is long by so many events.
LEMMA TraceLength ==
    ASSUME TraceKept
    PROVE  Len(trace) \in Nat /\ DOMAIN trace = 1 .. Len(trace)
BY LenProperties DEF TraceKept

\* Of each kind there are finitely many events, and of paths that they name no
\* more than that.
LEMMA EventsFinite ==
    ASSUME NEW es, NEW n \in Nat, DOMAIN es = 1 .. n
    PROVE  /\ \A kind : IsFiniteSet(OfType(es, kind)) /\ OfType(es, kind) \subseteq 1 .. n
           /\ \A tool : IsFiniteSet(CallsTo(es, tool)) /\ CallsTo(es, tool) \subseteq 1 .. n
           /\ IsFiniteSet(ReadPaths(es)) /\ IsFiniteSet(EditedPaths(es))
           /\ Cardinality(ReadPaths(es)) <= Cardinality(CallsTo(es, "read_file"))
<1>1. IsFiniteSet(1 .. n)
  BY UpToFinite
<1>2. \A kind : OfType(es, kind) \in SUBSET (1 .. n)
  BY DEF OfType
<1>3. \A tool : CallsTo(es, tool) \in SUBSET (1 .. n)
  BY <1>2 DEF CallsTo
<1>4. ASSUME NEW T \in SUBSET (1 .. n) PROVE IsFiniteSet(T)
  BY <1>1, FS_Subset
<1>5. IsFiniteSet(ReadPaths(es)) /\ Cardinality(ReadPaths(es)) <= Cardinality(CallsTo(es, "read_file"))
  <2> DEFINE T == CallsTo(es, "read_file")
             f == [i \in T |-> es[i].call.path]
  <2>1. f \in Surjection(T, ReadPaths(es))
    BY DEF Surjection, ReadPaths
  <2>2. IsFiniteSet(T)
    BY <1>3, <1>4
  <2> HIDE DEF f, T
  <2>3. IsFiniteSet(ReadPaths(es)) /\ Cardinality(ReadPaths(es)) <= Cardinality(T)
    BY ONLY <2>1, <2>2, FS_Surjection
  <2> QED BY <2>3 DEF T
<1>6. IsFiniteSet(EditedPaths(es))
  <2> DEFINE T == OfType(es, "FileEdit")
             f == [i \in T |-> es[i].path]
  <2>1. f \in Surjection(T, EditedPaths(es))
    BY DEF Surjection, EditedPaths
  <2>2. IsFiniteSet(T)
    BY <1>2, <1>4
  <2> HIDE DEF f, T
  <2> QED BY ONLY <2>1, <2>2, FS_Surjection
<1> QED BY <1>2, <1>3, <1>4, <1>5, <1>6

\* A score is clamped into its range, and clamping keeps the order.
LEMMA ClampTells ==
    ASSUME NEW x \in Int, NEW y \in Int
    PROVE  /\ Clamp(x) \in 0 .. Full
           /\ x <= y => Clamp(x) <= Clamp(y)
<1>1. ASSUME NEW z \in Int
      PROVE  Clamp(z) = IF z < 0 THEN 0 ELSE IF z > 300 THEN 300 ELSE z
  <2>1. Min({300, z}) = IF 300 < z THEN 300 ELSE z
    BY OfTwo
  <2>2. PICK m \in Int : m = Min({300, z})
    BY <2>1
  <2>3. Max({0, m}) = IF 0 < m THEN m ELSE 0
    BY OfTwo
  <2>4. Clamp(z) = Max({0, m})
    BY <2>2 DEF Clamp, Full
  <2> QED BY ONLY <2>1, <2>2, <2>3, <2>4, m \in Int, z \in Int
<1>2. Full = 300
  BY DEF Full
<1> QED BY <1>1, <1>2

\* An axis of the efficiency is worth at most a hundred points.
LEMMA AxisInRange ==
    ASSUME NEW used \in Nat, NEW budget \in Nat \ {0}
    PROVE  AgainstBudget(used, budget) \in 0 .. 100
<1>1. CASE used <= budget
  BY <1>1 DEF AgainstBudget
<1>2. CASE ~(used <= budget)
  <2>1. PICK m \in Nat : m = 100 * (used - budget)
    BY <1>2
  <2>2. PICK d \in Nat : d = m \div budget
    OBVIOUS
  <2>3. Max({0, 100 - d}) = IF 0 < 100 - d THEN 100 - d ELSE 0
    <3>1. 0 \in Int /\ 100 - d \in Int
      OBVIOUS
    <3> QED BY ONLY <3>1, OfTwo
  <2>4. AgainstBudget(used, budget) = Max({0, 100 - d})
    BY <1>2, <2>1, <2>2 DEF AgainstBudget
  <2> QED BY ONLY <2>3, <2>4, d \in Nat
<1> QED BY <1>1, <1>2
-----------------------------------------------------------------------------
\* What TrajectoryEvaluator takes off and adds.
FailedResults(es) == {i \in OfType(es, "ToolResult") : ~es[i].ok}
Redundant(es) == Cardinality(CallsTo(es, "read_file")) - Cardinality(ReadPaths(es))
Blind(es) == Cardinality(EditedPaths(es) \ ReadPaths(es))
Excess(es) == Max({0, Cardinality(OfType(es, "ToolCall")) - Weights.tool_call_budget})
PenaltyOf(es) ==
    Weights.redundant_read * Redundant(es) + Weights.failed_tool_call * Cardinality(FailedResults(es))
    + Weights.blind_edit * Blind(es) + Weights.excess_tool_call * Excess(es)
CreditOf(es) == IF Recovered(es) THEN Weights.recovery_credit ELSE 0

\* What the trajectory evaluator says of a trace.
LEMMA TrajectoryTells ==
    ASSUME NEW es
    PROVE  Trajectory(es).score = Clamp(Full - PenaltyOf(es) + CreditOf(es))
<1>1. /\ Signals(es).tool_calls = Cardinality(OfType(es, "ToolCall"))
      /\ Signals(es).redundant_reads = Redundant(es)
      /\ Signals(es).failed_tool_calls = Cardinality(FailedResults(es))
      /\ Signals(es).blind_edits = Blind(es)
      /\ Signals(es).recovered = Recovered(es)
  BY DEF Signals, Redundant, FailedResults, Blind
<1> DEFINE s == Signals(es)
           penalty == Weights.redundant_read * s.redundant_reads
                      + Weights.failed_tool_call * s.failed_tool_calls
                      + Weights.blind_edit * s.blind_edits
                      + Weights.excess_tool_call * Max({0, s.tool_calls - Weights.tool_call_budget})
           credit == IF s.recovered THEN Weights.recovery_credit ELSE 0
           score == Clamp(Full - penalty + credit)
<1>2. penalty = PenaltyOf(es) /\ credit = CreditOf(es)
  BY <1>1 DEF PenaltyOf, CreditOf, Excess
<1>3. Trajectory(es) = Scored(score, score >= Weights.pass_threshold, s)
  BY DEF Trajectory
<1> HIDE DEF score
<1>4. Trajectory(es).score = score
  BY <1>3, ScoredFields
<1> QED BY <1>2, <1>4 DEF score

\* What is counted is a number, and so are the penalty and the credit.
LEMMA PenaltyCounts ==
    ASSUME NEW es, NEW n \in Nat, DOMAIN es = 1 .. n
    PROVE  /\ Redundant(es) \in Nat /\ Cardinality(FailedResults(es)) \in Nat
           /\ Blind(es) \in Nat /\ Excess(es) \in Nat
           /\ PenaltyOf(es) \in Nat /\ CreditOf(es) \in Nat
<1>1. Redundant(es) \in Nat
  <2>1. Cardinality(ReadPaths(es)) \in Nat /\ Cardinality(CallsTo(es, "read_file")) \in Nat
        /\ Cardinality(ReadPaths(es)) <= Cardinality(CallsTo(es, "read_file"))
    BY EventsFinite, FS_CardinalityType
  <2> QED BY <2>1 DEF Redundant
<1>2. Cardinality(FailedResults(es)) \in Nat
  <2>1. FailedResults(es) \in SUBSET OfType(es, "ToolResult") /\ IsFiniteSet(OfType(es, "ToolResult"))
    BY EventsFinite DEF FailedResults
  <2> QED BY ONLY <2>1, FS_Subset, FS_CardinalityType
<1>3. Blind(es) \in Nat
  <2>1. IsFiniteSet(EditedPaths(es) \ ReadPaths(es))
    BY EventsFinite, FS_Difference
  <2> QED BY <2>1, FS_CardinalityType DEF Blind
<1>4. Excess(es) \in Nat
  <2>1. PICK t \in Nat, w \in Nat :
          t = Cardinality(OfType(es, "ToolCall")) /\ w = Weights.tool_call_budget
    BY EventsFinite, FS_CardinalityType, BudgetsExact
  <2>2. 0 \in Int /\ t - w \in Int
    OBVIOUS
  <2>3. Max({0, t - w}) = IF 0 < t - w THEN t - w ELSE 0
    BY ONLY <2>2, OfTwo
  <2> QED BY <2>1, <2>3 DEF Excess
<1>5. PICK a \in Nat, b \in Nat, c \in Nat, d \in Nat, e \in Nat :
        /\ a = Weights.redundant_read /\ b = Weights.failed_tool_call /\ c = Weights.blind_edit
        /\ d = Weights.excess_tool_call /\ e = Weights.recovery_credit
  BY BudgetsExact
<1>6. PenaltyOf(es) \in Nat
  <2>1. \A x \in Nat, y \in Nat : x * y \in Nat /\ x + y \in Nat
    OBVIOUS
  <2> QED BY ONLY <1>1, <1>2, <1>3, <1>4, <1>5, <2>1 DEF PenaltyOf
<1>7. CreditOf(es) \in Nat
  BY <1>5 DEF CreditOf
<1> QED BY <1>1, <1>2, <1>3, <1>4, <1>6, <1>7

-----------------------------------------------------------------------------
\* A longer trace has the events of the shorter one.
LEMMA EventsStay ==
    ASSUME NEW es, NEW more, Continues(es, more)
    PROVE  /\ \A kind : OfType(es, kind) \subseteq OfType(more, kind)
           /\ \A tool : CallsTo(es, tool) \subseteq CallsTo(more, tool)
           /\ FailedResults(es) \subseteq FailedResults(more)
           /\ ReadPaths(es) \subseteq ReadPaths(more)
           /\ EditedPaths(es) \subseteq EditedPaths(more)
           /\ Findings(es) \subseteq Findings(more)
<1>1. \A i \in DOMAIN es : i \in DOMAIN more /\ more[i] = es[i]
  BY DEF Continues
<1>2. \A kind : OfType(es, kind) \subseteq OfType(more, kind) /\ OfType(es, kind) \subseteq DOMAIN es
  BY <1>1 DEF OfType
<1>3. \A tool : CallsTo(es, tool) \subseteq CallsTo(more, tool) /\ CallsTo(es, tool) \subseteq DOMAIN es
  BY <1>1, <1>2 DEF CallsTo
<1>4. FailedResults(es) \subseteq FailedResults(more)
  BY <1>1, <1>2 DEF FailedResults
<1>5. ReadPaths(es) \subseteq ReadPaths(more)
  BY <1>1, <1>3 DEF ReadPaths
<1>6. EditedPaths(es) \subseteq EditedPaths(more)
  BY <1>1, <1>2 DEF EditedPaths
<1>7. Findings(es) \subseteq Findings(more)
  BY <1>1, <1>2 DEF Findings
<1> QED BY <1>2, <1>3, <1>4, <1>5, <1>6, <1>7

\* Reading on, no read becomes less redundant: a new path takes a new call.
LEMMA RedundantGrows ==
    ASSUME NEW es, NEW more, Continues(es, more)
    PROVE  Redundant(es) <= Redundant(more)
<1>1. PICK c, d, r, s :
        /\ c = CallsTo(es, "read_file") /\ d = CallsTo(more, "read_file")
        /\ r = ReadPaths(es) /\ s = ReadPaths(more)
  OBVIOUS
<1>2. /\ IsFiniteSet(c) /\ IsFiniteSet(d) /\ IsFiniteSet(r) /\ IsFiniteSet(s)
  BY <1>1, EventsFinite DEF Continues
<1>3. c \in SUBSET d /\ r \in SUBSET s
  BY <1>1, EventsStay
<1> DEFINE Fresh == d \ c
           f == [i \in Fresh |-> more[i].call.path]
           paths == {more[i].call.path : i \in Fresh}
<1>4. s \ r \in SUBSET paths
  <2>1. ASSUME NEW p \in s, p \notin r PROVE p \in paths
    <3>1. PICK i \in d : p = more[i].call.path
      BY <1>1, <2>1 DEF ReadPaths
    <3>2. i \notin c
      <4>1. SUFFICES ASSUME i \in c PROVE FALSE
        OBVIOUS
      <4>2. i \in DOMAIN es /\ es[i].call.path \in r
        BY <1>1, <4>1 DEF ReadPaths, CallsTo, OfType
      <4>3. more[i] = es[i]
        BY <4>2 DEF Continues
      <4> QED BY <2>1, <3>1, <4>2, <4>3
    <3> QED BY <3>1, <3>2
  <2> QED BY <2>1
<1>5. f \in Surjection(Fresh, paths)
  BY DEF Surjection
<1>6. IsFiniteSet(Fresh) /\ Cardinality(Fresh) = Cardinality(d) - Cardinality(c)
      /\ Cardinality(Fresh) \in Nat
  BY <1>2, <1>3, CountOfPart, FS_Difference, FS_CardinalityType
<1> HIDE DEF Fresh, f, paths
<1>7. IsFiniteSet(paths) /\ Cardinality(paths) <= Cardinality(Fresh)
  BY ONLY <1>5, <1>6, FS_Surjection
<1>8. Cardinality(s \ r) <= Cardinality(paths) /\ Cardinality(s \ r) \in Nat /\ Cardinality(paths) \in Nat
  BY ONLY <1>4, <1>7, CountOfPart
<1>9. Cardinality(s \ r) = Cardinality(s) - Cardinality(r)
      /\ Cardinality(s) \in Nat /\ Cardinality(r) \in Nat
  BY ONLY <1>2, <1>3, CountOfPart
<1>10. Cardinality(c) \in Nat /\ Cardinality(d) \in Nat
  BY <1>2, FS_CardinalityType
<1>11. Cardinality(c) - Cardinality(r) <= Cardinality(d) - Cardinality(s)
  BY ONLY <1>6, <1>7, <1>8, <1>9, <1>10
<1> QED BY <1>1, <1>11 DEF Redundant
-----------------------------------------------------------------------------
\* The penalty of a trajectory only grows, unless a file is read that was edited
\* unread.
LEMMA PenaltyGrows ==
    ASSUME NEW es, NEW more, Continues(es, more),
           (ReadPaths(more) \ ReadPaths(es)) \cap EditedPaths(es) = {}
    PROVE  PenaltyOf(es) <= PenaltyOf(more)
<1>1. /\ Len(es) \in Nat /\ DOMAIN es = 1 .. Len(es)
      /\ Len(more) \in Nat /\ DOMAIN more = 1 .. Len(more)
  BY DEF Continues
<1>2. /\ Redundant(es) \in Nat /\ Cardinality(FailedResults(es)) \in Nat
      /\ Blind(es) \in Nat /\ Excess(es) \in Nat
  BY ONLY <1>1, PenaltyCounts
<1>3. /\ Redundant(more) \in Nat /\ Cardinality(FailedResults(more)) \in Nat
      /\ Blind(more) \in Nat /\ Excess(more) \in Nat
  BY ONLY <1>1, PenaltyCounts
<1>4. Redundant(es) <= Redundant(more)
  BY RedundantGrows
<1>5. Cardinality(FailedResults(es)) <= Cardinality(FailedResults(more))
  <2>1. FailedResults(es) \in SUBSET FailedResults(more)
    BY EventsStay
  <2>2. FailedResults(more) \in SUBSET OfType(more, "ToolResult") /\ IsFiniteSet(OfType(more, "ToolResult"))
    BY <1>1, EventsFinite DEF FailedResults
  <2> QED BY ONLY <2>1, <2>2, FS_Subset
<1>6. Blind(es) <= Blind(more)
  <2>1. EditedPaths(es) \ ReadPaths(es) \in SUBSET (EditedPaths(more) \ ReadPaths(more))
    BY EventsStay
  <2>2. IsFiniteSet(EditedPaths(more) \ ReadPaths(more))
    BY <1>1, EventsFinite, FS_Difference
  <2> QED BY ONLY <2>1, <2>2, FS_Subset DEF Blind
<1>7. Excess(es) <= Excess(more)
  <2>1. OfType(es, "ToolCall") \in SUBSET OfType(more, "ToolCall") /\ IsFiniteSet(OfType(more, "ToolCall"))
    BY <1>1, EventsStay, EventsFinite
  <2>2. PICK t \in Nat, u \in Nat, w \in Nat :
          /\ t = Cardinality(OfType(es, "ToolCall")) /\ u = Cardinality(OfType(more, "ToolCall"))
          /\ t <= u /\ w = Weights.tool_call_budget
    BY <2>1, CountOfPart, BudgetsExact
  <2>3. 0 \in Int /\ t - w \in Int /\ u - w \in Int
    OBVIOUS
  <2>4. /\ Max({0, t - w}) = IF 0 < t - w THEN t - w ELSE 0
        /\ Max({0, u - w}) = IF 0 < u - w THEN u - w ELSE 0
    BY ONLY <2>3, OfTwo
  <2>5. Max({0, t - w}) <= Max({0, u - w})
    BY ONLY <2>2, <2>4, t \in Nat, u \in Nat, w \in Nat
  <2> QED BY <2>2, <2>5 DEF Excess
<1>8. PICK a \in Nat, b \in Nat, c \in Nat, d \in Nat :
        /\ a = Weights.redundant_read /\ b = Weights.failed_tool_call /\ c = Weights.blind_edit
        /\ d = Weights.excess_tool_call
  BY BudgetsExact
<1>9. ASSUME NEW m \in Nat, NEW x \in Nat, NEW y \in Nat, x <= y
      PROVE  m * x \in Nat /\ m * y \in Nat /\ m * x <= m * y
  <2>1. y \in Int /\ x \in Int /\ y >= x
    BY <1>9
  <2>2. m * y >= m * x
    BY ONLY <2>1, m \in Nat, AtLeastTimes
  <2>3. m * x \in Nat /\ m * y \in Nat
    OBVIOUS
  <2> QED BY ONLY <2>2, <2>3
<1>10. /\ a * Redundant(es) \in Nat /\ a * Redundant(more) \in Nat
       /\ a * Redundant(es) <= a * Redundant(more)
  BY ONLY <1>2, <1>3, <1>4, <1>9, a \in Nat
<1>11. /\ b * Cardinality(FailedResults(es)) \in Nat /\ b * Cardinality(FailedResults(more)) \in Nat
       /\ b * Cardinality(FailedResults(es)) <= b * Cardinality(FailedResults(more))
  BY ONLY <1>2, <1>3, <1>5, <1>9, b \in Nat
<1>12. /\ c * Blind(es) \in Nat /\ c * Blind(more) \in Nat
       /\ c * Blind(es) <= c * Blind(more)
  BY ONLY <1>2, <1>3, <1>6, <1>9, c \in Nat
<1>13. /\ d * Excess(es) \in Nat /\ d * Excess(more) \in Nat
       /\ d * Excess(es) <= d * Excess(more)
  BY ONLY <1>2, <1>3, <1>7, <1>9, d \in Nat
<1> QED BY ONLY <1>8, <1>10, <1>11, <1>12, <1>13 DEF PenaltyOf

\* So the score of a trajectory rises only with a recovery or such a reading, and
\* what was found is found for ever.
LEMMA ScoreAlwaysMoves ==
    ASSUME TraceKept, [Next]_vars, trace' # trace
    PROVE  ScoreMoves
<1>1. PICK es, more : es = trace /\ more = trace'
  OBVIOUS
<1>2. Continues(es, more)
  BY <1>1, NextTrace
<1>3. ~ Safety(es).passed => ~ Safety(more).passed
  <2>1. ASSUME NEW any PROVE Safety(any).passed = (Findings(any) = {})
    <3>1. PICK d : d = [finding_count |-> Cardinality(Findings(any))]
      OBVIOUS
    <3>2. Safety(any) = Scored(IF Findings(any) = {} THEN Full ELSE 0, Findings(any) = {}, d)
      BY <3>1 DEF Safety
    <3> QED BY <3>2, ScoredFields
  <2>2. Findings(es) \subseteq Findings(more)
    BY <1>2, EventsStay
  <2> QED BY <2>1, <2>2
<1>4. Trajectory(more).score > Trajectory(es).score =>
        \/ Recovered(more) /\ ~Recovered(es)
        \/ (ReadPaths(more) \ ReadPaths(es)) \cap EditedPaths(es) # {}
  <2>1. SUFFICES ASSUME ~ (Recovered(more) /\ ~Recovered(es)),
                        (ReadPaths(more) \ ReadPaths(es)) \cap EditedPaths(es) = {}
                 PROVE  ~ (Trajectory(more).score > Trajectory(es).score)
    OBVIOUS
  <2>2. PenaltyOf(es) <= PenaltyOf(more)
    BY <1>2, <2>1, PenaltyGrows
  <2>3. /\ PenaltyOf(es) \in Nat /\ CreditOf(es) \in Nat
        /\ PenaltyOf(more) \in Nat /\ CreditOf(more) \in Nat
    <3>1. /\ Len(es) \in Nat /\ DOMAIN es = 1 .. Len(es)
          /\ Len(more) \in Nat /\ DOMAIN more = 1 .. Len(more)
      BY <1>2 DEF Continues
    <3> QED BY ONLY <3>1, PenaltyCounts
  <2>4. CreditOf(more) <= CreditOf(es)
    <3>1. CASE Recovered(more)
      BY <2>1, <2>3, <3>1 DEF CreditOf
    <3>2. CASE ~Recovered(more)
      BY <2>3, <3>2 DEF CreditOf
    <3> QED BY <3>1, <3>2
  <2>5. PICK x \in Int, y \in Int :
          /\ x = Full - PenaltyOf(more) + CreditOf(more)
          /\ y = Full - PenaltyOf(es) + CreditOf(es) /\ x <= y
    BY <2>2, <2>3, <2>4 DEF Full
  <2>6. Clamp(x) <= Clamp(y) /\ Clamp(x) \in 0 .. Full /\ Clamp(y) \in 0 .. Full
    BY <2>5, ClampTells
  <2>7. Trajectory(more).score = Clamp(x) /\ Trajectory(es).score = Clamp(y)
    BY <2>5, TrajectoryTells
  <2>8. PICK p \in Int, q \in Int : p = Clamp(x) /\ q = Clamp(y) /\ p <= q
    <3>1. Full = 300
      BY DEF Full
    <3>2. PICK p, q : p = Clamp(x) /\ q = Clamp(y)
      OBVIOUS
    <3>3. p \in 0 .. 300 /\ q \in 0 .. 300 /\ p <= q
      BY ONLY <2>6, <3>1, <3>2
    <3> QED BY ONLY <3>2, <3>3
  <2> QED BY ONLY <2>7, <2>8, p \in Int, q \in Int
<1> QED BY <1>1, <1>3, <1>4 DEF ScoreMoves

-----------------------------------------------------------------------------
\* No score leaves its range.
LEMMA ScoresAlwaysInRange ==
    ASSUME TraceKept
    PROVE  ScoresInRange
<1>0. PICK es : es = trace
  BY Zenon
<1>1. PICK n \in Nat : DOMAIN es = 1 .. n /\ n = Len(es)
  BY Zenon, <1>0, TraceLength
<1>2. PatchLocality(EditedPaths(es), ReadPaths(es)).score \in 0 .. Full
  <2>1. PICK touched, targets : touched = EditedPaths(es) /\ targets = ReadPaths(es)
    OBVIOUS
  <2>2. IsFiniteSet(touched \ targets)
    BY <1>1, <2>1, EventsFinite, FS_Difference
  <2> DEFINE unrelated == touched \ targets
             untouched == targets \ touched
             penalty == Weights.unrelated_file * Cardinality(unrelated)
                        + (IF untouched # {} THEN Weights.untouched_target ELSE 0)
             details == [touched |-> touched, unrelated_files |-> unrelated,
                         untouched_targets |-> untouched]
  <2>3. penalty \in Nat
    <3>1. PICK a \in Nat, b \in Nat, c \in Nat :
            a = Weights.unrelated_file /\ b = Weights.untouched_target /\ c = Cardinality(unrelated)
      BY <2>2, FS_CardinalityType, BudgetsExact
    <3>2. a * c \in Nat
      OBVIOUS
    <3> QED BY <3>1, <3>2
  <2>4. PatchLocality(touched, targets) =
          IF touched = {} THEN Scored(0, FALSE, details)
          ELSE Scored(Clamp(Full - penalty), unrelated = {} /\ untouched = {}, details)
    BY DEF PatchLocality
  <2> HIDE DEF penalty, details, unrelated, untouched
  <2>5. Full - penalty \in Int /\ 0 \in 0 .. Full
    BY <2>3 DEF Full
  <2>6. Clamp(Full - penalty) \in 0 .. Full
    BY <2>5, ClampTells
  <2>7. Scored(0, FALSE, details).score = 0
    <3>1. PICK no : no = FALSE
      OBVIOUS
    <3>2. Scored(0, no, details).score = 0
      BY ScoredFields
    <3> QED BY <3>1, <3>2, Zenon
  <2>8. PICK points, ok : points = Clamp(Full - penalty) /\ ok = (unrelated = {} /\ untouched = {})
    OBVIOUS
  <2>9. Scored(points, ok, details).score = points
    BY ScoredFields
  <2>10. PatchLocality(touched, targets).score \in 0 .. Full
    BY ONLY <2>4, <2>5, <2>6, <2>7, <2>8, <2>9
  <2> QED BY <2>1, <2>10
<1>3. Trajectory(es).score \in 0 .. Full
  <2>1. PenaltyOf(es) \in Nat /\ CreditOf(es) \in Nat
    BY <1>1, PenaltyCounts
  <2>2. Full - PenaltyOf(es) + CreditOf(es) \in Int
    BY <2>1 DEF Full
  <2> QED BY <2>2, TrajectoryTells, ClampTells
<1>4. Safety(es).score \in 0 .. Full
  <2>1. PICK d : d = [finding_count |-> Cardinality(Findings(es))]
    OBVIOUS
  <2>2. Safety(es) = Scored(IF Findings(es) = {} THEN Full ELSE 0, Findings(es) = {}, d)
    BY <2>1 DEF Safety
  <2>3. Safety(es).score = IF Findings(es) = {} THEN Full ELSE 0
    BY <2>2, ScoredFields
  <2> QED BY <2>3 DEF Full
<1>5. Efficiency(es, Len(es), Len(es)).score \in 0 .. Full
  <2>1. PICK a, b, c :
          /\ a = AgainstBudget(Len(es), Allowance.tokens)
          /\ b = AgainstBudget(Cardinality(OfType(es, "ModelCall")), Allowance.model_calls)
          /\ c = AgainstBudget(Len(es), Allowance.seconds)
    OBVIOUS
  <2>2. /\ Cardinality(OfType(es, "ModelCall")) \in Nat /\ Len(es) \in Nat
        /\ Allowance.tokens \in Nat \ {0} /\ Allowance.model_calls \in Nat \ {0}
        /\ Allowance.seconds \in Nat \ {0}
    BY <1>1, EventsFinite, FS_CardinalityType, BudgetsExact
  <2>3. a \in 0 .. 100 /\ b \in 0 .. 100 /\ c \in 0 .. 100
    BY ONLY <2>1, <2>2, AxisInRange
  <2>4. Efficiency(es, Len(es), Len(es))
          = Scored(a + b + c, a + b + c >= Allowance.pass_threshold, NoDetails)
    BY <2>1 DEF Efficiency
  <2>5. Efficiency(es, Len(es), Len(es)).score = a + b + c
    BY <2>4, ScoredFields
  <2> QED BY <2>3, <2>5 DEF Full
<1> QED BY <1>0, <1>2, <1>3, <1>4, <1>5 DEF ScoresInRange
-----------------------------------------------------------------------------
\* The loop over the test runs, step by step.
Unseen == [red |-> 0, recovered |-> FALSE]
TestStep(es, before, i) ==
    IF i \in TestResults(es, FALSE) THEN [before EXCEPT !.red = i]
    ELSE IF i \in TestResults(es, TRUE) /\ before.red > 0
         THEN [before EXCEPT !.recovered = EditBetween(es, before.red, i)]
         ELSE before
Seeing(g, es) ==
    g = [i \in 0 .. Len(es) |-> IF i = 0 THEN Unseen ELSE TestStep(es, g[i - 1], i)]
SeenStates == [red : Nat, recovered : BOOLEAN]

\* The largest of a set.
LastOf(S, m) == m \in S /\ \A y \in S : y <= m

\* The red runs, and the green ones after a red one, among the first i events.
RedsUpTo(es, i) == {r \in TestResults(es, FALSE) : r <= i}
GreensUpTo(es, i) == {g \in TestResults(es, TRUE) : g <= i /\ \E r \in TestResults(es, FALSE) : r < g}
RedsBefore(es, i) == {r \in TestResults(es, FALSE) : r < i}

\* What the loop knows after i events.
Judged(x, es, i) ==
    /\ x \in SeenStates
    /\ IF RedsUpTo(es, i) = {} THEN x.red = 0 ELSE LastOf(RedsUpTo(es, i), x.red)
    /\ IF GreensUpTo(es, i) = {} THEN ~x.recovered
       ELSE \E red, green :
                /\ LastOf(GreensUpTo(es, i), green) /\ LastOf(RedsBefore(es, green), red)
                /\ x.recovered <=> EditBetween(es, red, green)

\* What one turn of the loop over the test results does.
LEMMA TestStepTells ==
    ASSUME NEW es, NEW n \in Nat, DOMAIN es = 1 .. n, NEW i \in 1 .. n,
           NEW x, Judged(x, es, i - 1)
    PROVE  Judged(TestStep(es, x, i), es, i)
<1>1. /\ \A ok : TestResults(es, ok) \subseteq 1 .. n
      /\ TestResults(es, TRUE) \cap TestResults(es, FALSE) = {}
  BY DEF TestResults, OfType
<1>2. PICK reds, greens : reds = TestResults(es, FALSE) /\ greens = TestResults(es, TRUE)
  OBVIOUS
<1>3. /\ reds \subseteq 1 .. n /\ greens \subseteq 1 .. n /\ reds \cap greens = {}
  BY <1>1, <1>2
<1>4. PICK y : y = TestStep(es, x, i)
  OBVIOUS
<1>5. x \in SeenStates /\ x.red \in Nat /\ x.recovered \in BOOLEAN
  BY DEF Judged, SeenStates
<1>6. /\ \A j : RedsUpTo(es, j) = {r \in reds : r <= j}
      /\ \A j : GreensUpTo(es, j) = {g \in greens : g <= j /\ \E r \in reds : r < g}
      /\ \A j : RedsBefore(es, j) = {r \in reds : r < j}
  BY <1>2 DEF RedsUpTo, GreensUpTo, RedsBefore
<1>8. CASE i \in reds
  <2>1. y = [x EXCEPT !.red = i]
    BY <1>2, <1>4, <1>8 DEF TestStep
  <2>2. y \in SeenStates /\ y.red = i /\ y.recovered = x.recovered
    BY <1>5, <2>1 DEF SeenStates
  <2>3. i \in RedsUpTo(es, i) /\ \A r \in RedsUpTo(es, i) : r <= i
    BY <1>6, <1>8
  <2>4. GreensUpTo(es, i) = GreensUpTo(es, i - 1)
    <3>1. \A g \in greens : g <= i <=> g <= i - 1
      BY <1>3, <1>8
    <3> QED BY ONLY <1>6, <3>1
  <2>5. LastOf(RedsUpTo(es, i), y.red)
    BY <2>2, <2>3 DEF LastOf
  <2>6. Judged(y, es, i)
    BY <2>2, <2>3, <2>4, <2>5 DEF Judged
  <2> QED BY <1>4, <2>6
<1>9. CASE i \notin reds /\ i \in greens /\ x.red > 0
  <2>1. y = [x EXCEPT !.recovered = EditBetween(es, x.red, i)]
    BY <1>2, <1>4, <1>9 DEF TestStep
  <2>2. EditBetween(es, x.red, i) \in BOOLEAN
    BY DEF EditBetween
  <2>3. y \in SeenStates /\ y.red = x.red /\ y.recovered = EditBetween(es, x.red, i)
    BY <1>5, <2>1, <2>2 DEF SeenStates
  <2>4. RedsUpTo(es, i) = RedsUpTo(es, i - 1) /\ RedsBefore(es, i) = RedsUpTo(es, i - 1)
    <3>1. \A r \in reds : r # i /\ (r <= i <=> r <= i - 1) /\ (r < i <=> r <= i - 1)
      BY <1>3, <1>9
    <3> QED BY ONLY <1>6, <3>1
  <2>5. LastOf(RedsUpTo(es, i - 1), x.red)
    BY <1>9 DEF Judged
  <2>6. i \in GreensUpTo(es, i) /\ \A g \in GreensUpTo(es, i) : g <= i
    <3>1. x.red \in reds /\ x.red < i
      <4>1. x.red \in RedsUpTo(es, i - 1)
        BY ONLY <2>5 DEF LastOf
      <4>2. x.red \in reds /\ x.red <= i - 1
        BY ONLY <1>6, <4>1
      <4> QED BY ONLY <1>5, <4>2, i \in 1 .. n, n \in Nat
    <3> QED BY <1>6, <1>9, <3>1
  <2>7. LastOf(GreensUpTo(es, i), i) /\ LastOf(RedsBefore(es, i), x.red)
    BY <2>4, <2>5, <2>6 DEF LastOf
  <2>8. RedsUpTo(es, i) # {} /\ LastOf(RedsUpTo(es, i), y.red)
    BY <2>3, <2>4, <2>5 DEF LastOf
  <2>9. GreensUpTo(es, i) # {}
    BY <2>6
  <2>10. y.recovered <=> EditBetween(es, x.red, i)
    BY <2>3
  <2>11. Judged(y, es, i)
    BY <2>3, <2>7, <2>8, <2>9, <2>10 DEF Judged
  <2> QED BY <1>4, <2>11
<1>10. CASE i \notin reds /\ ~(i \in greens /\ x.red > 0)
  <2>1. y = x
    BY <1>2, <1>4, <1>10 DEF TestStep
  <2>2. RedsUpTo(es, i) = RedsUpTo(es, i - 1)
    <3>1. \A r \in reds : r <= i <=> r <= i - 1
      BY <1>3, <1>10
    <3> QED BY ONLY <1>6, <3>1
  <2>3. GreensUpTo(es, i) = GreensUpTo(es, i - 1)
    <3>1. ASSUME i \in greens PROVE \A r \in reds : ~(r < i)
      <4>1. x.red = 0
        BY <1>5, <1>10, <3>1
      <4>2. RedsUpTo(es, i - 1) = {}
        BY <1>3, <1>6, <4>1 DEF Judged, LastOf
      <4> QED BY <1>3, <1>6, <4>2
    <3>2. \A g \in greens : g # i => (g <= i <=> g <= i - 1)
      BY <1>3
    <3> QED BY ONLY ZenonT(60), <1>6, <3>1, <3>2, i \in 1 .. n, n \in Nat
  <2>4. Judged(y, es, i)
    BY <2>1, <2>2, <2>3 DEF Judged
  <2> QED BY <1>4, <2>4
<1> QED BY <1>8, <1>9, <1>10
-----------------------------------------------------------------------------
\* What extract_signals makes of a whole trace.
LEMMA RecoveredJudged ==
    ASSUME NEW es, NEW n \in Nat, DOMAIN es = 1 .. n, n = Len(es)
    PROVE  \E x : Judged(x, es, n) /\ (Recovered(es) <=> x.recovered)
<1> DEFINE X == SeenStates
           step == [p \in X \X (1 .. n) |-> TestStep(es, p[1], p[2])]
<1>1. Unseen \in X
  BY DEF Unseen, SeenStates
<1>2. ASSUME NEW x \in X, NEW i \in 1 .. n PROVE TestStep(es, x, i) \in X
  <2>1. EditBetween(es, x.red, i) \in BOOLEAN /\ i \in Nat
    BY DEF EditBetween
  <2>2. PICK b : b = EditBetween(es, x.red, i)
    OBVIOUS
  <2>3. [x EXCEPT !.red = i] \in X /\ [x EXCEPT !.recovered = b] \in X
    BY <2>1, <2>2 DEF SeenStates
  <2> HIDE DEF X
  <2> QED BY <2>2, <2>3 DEF TestStep
<1>3. step \in [X \X (1 .. n) -> X]
  <2>1. \A p \in X \X (1 .. n) : p[1] \in X /\ p[2] \in 1 .. n
    OBVIOUS
  <2> HIDE DEF X
  <2> QED BY <1>2, <2>1
<1>4. \A x \in X, i \in 1 .. n : step[<<x, i>>] = TestStep(es, x, i)
  <2> HIDE DEF X
  <2> QED OBVIOUS
<1> HIDE DEF step, X
<1>5. PICK g : /\ g \in [0 .. n -> X] /\ g[0] = Unseen
               /\ \A i \in 1 .. n : g[i] = step[<<g[i - 1], i>>]
  <2>1. PICK base, Y, next : base = Unseen /\ Y = X /\ next = step
    OBVIOUS
  <2>2. base \in Y /\ next \in [Y \X (1 .. n) -> Y]
    BY <1>1, <1>3, <2>1
  <2>3. PICK g : Stepwise(g, n, Y, base, next)
    BY ONLY n \in Nat, <2>2, StepsExist
  <2> QED BY <2>1, <2>3 DEF Stepwise
<1>6. Seeing(g, es)
  <2>1. ASSUME NEW i \in 0 .. n
        PROVE  g[i] = IF i = 0 THEN Unseen ELSE TestStep(es, g[i - 1], i)
    <3>1. CASE i = 0
      BY <1>5, <3>1
    <3>2. CASE i # 0
      <4>1. i \in 1 .. n /\ i - 1 \in 0 .. n
        BY <3>2
      <4>2. g[i - 1] \in X
        BY <1>5, <4>1
      <4> QED BY <1>4, <1>5, <3>2, <4>1, <4>2
    <3> QED BY <3>1, <3>2
  <2>2. g = [i \in 0 .. n |-> g[i]]
    BY <1>5
  <2> QED BY <2>1, <2>2 DEF Seeing
<1> DEFINE f == CHOOSE h : Seeing(h, es)
<1>7. Seeing(f, es)
  BY <1>6, Zenon
<1>8. Recovered(es) = f[n].recovered
  BY Zenon DEF Recovered, Seeing, Unseen, TestStep
<1> HIDE DEF f
<1>9. f[0] = Unseen /\ \A i \in 1 .. n : f[i] = TestStep(es, f[i - 1], i)
  <2>1. \A i \in 0 .. n : f[i] = IF i = 0 THEN Unseen ELSE TestStep(es, f[i - 1], i)
    BY <1>7 DEF Seeing
  <2>2. \A i \in 1 .. n : i \in 0 .. n /\ i # 0
    OBVIOUS
  <2>3. 0 \in 0 .. n
    OBVIOUS
  <2> QED BY <2>1, <2>2, <2>3
<1> DEFINE T == {i \in 0 .. n : ~ Judged(f[i], es, i)}
<1>10. ASSUME T # {} PROVE FALSE
  <2>1. PICK i \in T : \A j \in T : i <= j
    <3>1. T \subseteq Nat
      OBVIOUS
    <3> HIDE DEF T
    <3> QED BY <1>10, <3>1, LeastNumber
  <2>2. CASE i = 0
    <3>1. f[i] = Unseen
      BY <1>9, <2>2
    <3>2. RedsUpTo(es, i) = {} /\ GreensUpTo(es, i) = {}
      BY <2>2 DEF RedsUpTo, GreensUpTo, TestResults, OfType
    <3>3. Unseen \in SeenStates /\ Unseen.red = 0 /\ ~Unseen.recovered
      BY DEF Unseen, SeenStates
    <3>4. Judged(Unseen, es, i)
      BY <3>2, <3>3 DEF Judged
    <3> QED BY <2>1, <3>1, <3>4
  <2>3. CASE i # 0
    <3>1. i \in 1 .. n /\ i - 1 \in 0 .. n /\ ~(i <= i - 1)
      BY <2>1, <2>3
    <3>2. Judged(f[i - 1], es, i - 1)
      BY <2>1, <3>1
    <3>3. Judged(TestStep(es, f[i - 1], i), es, i)
      BY <3>1, <3>2, TestStepTells
    <3>4. Judged(f[i], es, i)
      BY <1>9, <3>1, <3>3
    <3> QED BY <2>1, <3>4
  <2> QED BY <2>2, <2>3
<1>11. Judged(f[n], es, n)
  BY <1>10
<1>12. f[n].recovered \in BOOLEAN
  BY <1>11 DEF Judged, SeenStates
<1> QED BY <1>8, <1>11, <1>12

\* The largest of a finite set is its maximum.
LEMMA LastIsMax ==
    ASSUME NEW S, IsFiniteSet(S), S \subseteq Int, NEW m, LastOf(S, m)
    PROVE  Max(S) = m
<1>1. S # {} /\ m \in S /\ \A y \in S : y <= m
  BY DEF LastOf
<1>2. Max(S) \in S /\ \A y \in S : Max(S) >= y
  BY <1>1, Largest
<1>3. PICK x \in Int : x = Max(S)
  BY <1>2
<1>4. x <= m /\ x >= m /\ m \in Int
  BY <1>1, <1>2, <1>3
<1> QED BY <1>3, <1>4

\* Recovery is credited for exactly the runs that the loop means.
LEMMA RecoveryAlwaysEarned ==
    ASSUME TraceKept
    PROVE  RecoveryEarned
<1>0. PICK es : es = trace
  OBVIOUS
<1>1. PICK n \in Nat : DOMAIN es = 1 .. n /\ n = Len(es)
  BY <1>0, TraceLength
<1>2. PICK reds : reds = TestResults(es, FALSE)
  OBVIOUS
<1>3. PICK greens : greens = {g \in TestResults(es, TRUE) : \E r \in reds : r < g}
  OBVIOUS
<1>4. /\ TestResults(es, FALSE) \subseteq 1 .. n /\ TestResults(es, TRUE) \subseteq 1 .. n
      /\ IsFiniteSet(1 .. n)
  BY <1>1, UpToFinite DEF TestResults, OfType
<1>5. PICK x : Judged(x, es, n) /\ (Recovered(es) <=> x.recovered)
  BY <1>1, RecoveredJudged
<1>6. GreensUpTo(es, n) = greens
  <2>1. ASSUME NEW g, g \in TestResults(es, TRUE) PROVE g <= n
    <3>1. g \in 1 .. n
      BY ONLY <1>4, <2>1
    <3> QED BY ONLY <3>1, n \in Nat
  <2> QED BY <1>2, <1>3, <2>1 DEF GreensUpTo
<1>7. CASE greens = {}
  BY <1>0, <1>2, <1>3, <1>5, <1>6, <1>7 DEF Judged, RecoveryEarned
<1>8. CASE greens # {}
  <2>0. PICK red, green :
          /\ LastOf(greens, green) /\ LastOf(RedsBefore(es, green), red)
          /\ x.recovered <=> EditBetween(es, red, green)
    BY <1>5, <1>6, <1>8 DEF Judged
  <2>1. greens \in SUBSET (1 .. n) /\ RedsBefore(es, green) \in SUBSET (1 .. n)
    BY <1>3, <1>4 DEF RedsBefore
  <2>2. ASSUME NEW S, S \in SUBSET (1 .. n)
        PROVE  IsFiniteSet(S) /\ S \subseteq Int
    <3>1. IsFiniteSet(S)
      BY ONLY <1>4, <2>2, FS_Subset
    <3>2. S \subseteq Int
      BY ONLY <2>2
    <3> QED BY ONLY <3>1, <3>2
  <2>3. IsFiniteSet(greens) /\ greens \subseteq Int
    BY ONLY <2>1, <2>2
  <2>4. IsFiniteSet(RedsBefore(es, green)) /\ RedsBefore(es, green) \subseteq Int
    BY ONLY <2>1, <2>2
  <2>5. Max(greens) = green
    BY ONLY <2>0, <2>3, LastIsMax
  <2>6. Max(RedsBefore(es, green)) = red
    BY ONLY <2>0, <2>4, LastIsMax
  <2>7. RedsBefore(es, green) = {r \in reds : r < Max(greens)}
    BY <1>2, <2>5 DEF RedsBefore
  <2>8. Recovered(es) <=> EditBetween(es, Max({r \in reds : r < Max(greens)}), Max(greens))
    BY <1>5, <2>0, <2>5, <2>6, <2>7
  <2> QED BY <1>0, <1>2, <1>3, <1>8, <2>8 DEF RecoveryEarned
<1> QED BY <1>7, <1>8

-----------------------------------------------------------------------------
\* The result of one evaluator by name.
ResultBy(name, a) ==
    CASE name = "tests" -> SuiteOutcome(a.exit)
      [] name = "patch_locality" -> PatchLocality(a.touched, a.targets)
      [] name = "trajectory" -> Trajectory(a.trace)
      [] name = "efficiency" -> Efficiency(a.trace, a.tokens, a.seconds)
      [] name = "safety" -> Safety(a.trace)
      [] name = "llm_judge" -> Judge(a.response)

\* Every evaluator of a suite is run on the attempt.
LEMMA EvaluateIs ==
    ASSUME NEW suite, NEW a
    PROVE  Evaluate(suite, a) = [name \in suite.evaluators |-> ResultBy(name, a)]
BY Zenon DEF Evaluate, ResultBy

\* The verdict goes by the gating evaluators, wherever they are run.
LEMMA VerdictIs ==
    ASSUME NEW suite, NEW a, suite.gating \subseteq suite.evaluators
    PROVE  Verdict(suite, Evaluate(suite, a)) = \A name \in suite.gating : ResultBy(name, a).passed
<1>1. PICK results : results = Evaluate(suite, a)
  OBVIOUS
<1>2. results = [name \in suite.evaluators |-> ResultBy(name, a)]
  BY <1>1, EvaluateIs
<1>3. \A name \in suite.gating : results[name] = ResultBy(name, a)
  BY <1>2
<1>4. Verdict(suite, results) = \A name \in suite.gating : ResultBy(name, a).passed
  BY <1>3 DEF Verdict
<1> QED BY <1>1, <1>4

\* A suite that gates on more passes less, and a judge has no say.
LEMMA GatesAlwaysOrdered == GatesOrdered
<1>1. ASSUME NEW name \in DOMAIN Suites
      PROVE  /\ Suites[name].gating \subseteq Suites[name].evaluators
             /\ WithJudge(Suites[name]).gating = Suites[name].gating
             /\ Suites[name].evaluators \subseteq WithJudge(Suites[name]).evaluators
  <2>1. name \in {"default", "strict", "outcome_only"}
    BY DEF Suites
  <2>2. PICK suite : suite = Suites[name]
    OBVIOUS
  <2>3. DOMAIN suite = {"evaluators", "gating"} /\ suite.gating \subseteq suite.evaluators
    BY <2>1, <2>2 DEF Suites
  <2>4. WithJudge(suite).gating = suite.gating
        /\ WithJudge(suite).evaluators = suite.evaluators \cup {"llm_judge"}
    BY <2>3 DEF WithJudge
  <2> QED BY <2>2, <2>3, <2>4
<1>2. ASSUME NEW a, NEW name \in DOMAIN Suites
      PROVE  Verdict(WithJudge(Suites[name]), Evaluate(WithJudge(Suites[name]), a))
               = Verdict(Suites[name], Evaluate(Suites[name], a))
  <2>1. PICK suite, judged : suite = Suites[name] /\ judged = WithJudge(Suites[name])
    OBVIOUS
  <2>2. /\ suite.gating \subseteq suite.evaluators /\ judged.gating = suite.gating
        /\ judged.gating \subseteq judged.evaluators
    BY <1>1, <2>1
  <2>3. /\ Verdict(suite, Evaluate(suite, a)) = \A each \in suite.gating : ResultBy(each, a).passed
        /\ Verdict(judged, Evaluate(judged, a)) = \A each \in judged.gating : ResultBy(each, a).passed
    BY <2>2, VerdictIs
  <2> QED BY <2>1, <2>2, <2>3
<1>3. ASSUME NEW a, Verdict(Suites.strict, Evaluate(Suites.strict, a))
      PROVE  Verdict(Suites.default, Evaluate(Suites.default, a))
  <2>1. /\ "strict" \in DOMAIN Suites /\ "default" \in DOMAIN Suites
        /\ Suites.default.gating = {"tests"} /\ Suites.strict.gating = {"tests", "safety"}
    BY DEF Suites
  <2>2. PICK strict, default : strict = Suites.strict /\ default = Suites.default
    OBVIOUS
  <2>3. strict.gating \subseteq strict.evaluators /\ default.gating \subseteq default.evaluators
    BY <1>1, <2>1, <2>2
  <2>4. /\ Verdict(strict, Evaluate(strict, a)) = \A each \in strict.gating : ResultBy(each, a).passed
        /\ Verdict(default, Evaluate(default, a)) = \A each \in default.gating : ResultBy(each, a).passed
    BY <2>3, VerdictIs
  <2> QED BY <1>3, <2>1, <2>2, <2>4
<1> QED BY <1>2, <1>3 DEF GatesOrdered
-----------------------------------------------------------------------------
\* Verdicts are recorded in full.
VerdictsKept ==
    /\ examples \in Seq([human : HumanLabels, judge : JudgeLabels])
    /\ pairs \in Seq([forward : Preferences, swapped : Preferences, own : BOOLEAN])

\* There are no verdicts at first.
LEMMA InitVerdicts == Init => VerdictsKept
  BY DEF Init, VerdictsKept

\* Verdicts are appended one by one.
LEMMA NextVerdicts == VerdictsKept /\ [Next]_vars => VerdictsKept'
<1> SUFFICES ASSUME VerdictsKept, [Next]_vars PROVE VerdictsKept'
  OBVIOUS
<1>1. CASE \E h \in HumanLabels, j \in JudgeLabels : RecordVerdict(h, j)
  BY <1>1 DEF RecordVerdict, VerdictsKept
<1>2. CASE \E f, s \in Preferences, own \in BOOLEAN : RecordPair(f, s, own)
  BY <1>2 DEF RecordPair, VerdictsKept
<1>3. CASE UNCHANGED <<examples, pairs>>
  BY <1>3 DEF VerdictsKept
<1> QED
  BY <1>1, <1>2, <1>3
  DEF Next, RecordEvents, StartRun, RecordResult, RefuseResult, records, vars

\* The positions of a sequence are finitely many.
LEMMA PositionsFinite ==
  ASSUME NEW S, NEW s \in Seq(S)
  PROVE  /\ Len(s) \in Nat /\ DOMAIN s = 1 .. Len(s)
         /\ IsFiniteSet(DOMAIN s) /\ Cardinality(DOMAIN s) = Len(s)
         /\ \A i \in DOMAIN s : s[i] \in S
<1>1. Len(s) \in Nat /\ DOMAIN s = 1 .. Len(s) /\ \A i \in DOMAIN s : s[i] \in S
  OBVIOUS
<1>2. IsFiniteSet(1 .. Len(s)) /\ Cardinality(1 .. Len(s)) = Len(s)
  <2>1. PICK n \in Nat : n = Len(s)
    BY Zenon, <1>1
  <2>2. IsFiniteSet(1 .. n) /\ Cardinality(1 .. n) = n
    BY UpToFinite
  <2> QED BY ONLY <2>1, <2>2
<1> QED BY <1>1, <1>2

\* A function over the positions of a sequence is one.
LEMMA MappedSequence ==
  ASSUME NEW S, NEW s \in Seq(S), NEW T, NEW t, t = [i \in DOMAIN s |-> t[i]],
         \A i \in DOMAIN s : t[i] \in T
  PROVE  t \in Seq(T) /\ Len(t) = Len(s) /\ DOMAIN t = DOMAIN s
<1>1. Len(s) \in Nat /\ DOMAIN s = 1 .. Len(s)
  OBVIOUS
<1>2. DOMAIN t = 1 .. Len(s)
  BY <1>1
<1>3. t \in [1 .. Len(s) -> T]
  BY <1>1
<1>4. t \in Seq(T)
  BY <1>1, <1>3
<1> QED BY <1>1, <1>2, <1>4

\* The range of a sequence is finite.
LEMMA RangeFinite ==
  ASSUME NEW S, NEW s \in Seq(S)
  PROVE  IsFiniteSet(Range(s)) /\ \A x \in Range(s) : \E i \in DOMAIN s : s[i] = x
<1> DEFINE n == Len(s)
<1>1. n \in Nat /\ DOMAIN s = 1 .. n
  OBVIOUS
<1> HIDE DEF n
<1>2. Range(s) = {s[i] : i \in 1 .. n}
  BY <1>1 DEF Range
<1>3. s \in [1 .. n -> Range(s)]
  <2>1. s = [i \in 1 .. n |-> s[i]]
    BY <1>1
  <2> QED BY <2>1, <1>2
<1>4. s \in Surjection(1 .. n, Range(s))
  BY <1>2, <1>3 DEF Surjection
<1>5. IsFiniteSet(1 .. n)
  BY <1>1, UpToFinite
<1> QED BY <1>1, <1>2, <1>4, <1>5, FS_Surjection

-----------------------------------------------------------------------------
\* Agreement of two people - or a person and a judge - over the same examples.

\* How often each label is used, and how often by both at once.
ShareOf(s, l) == {i \in DOMAIN s : s[i] = l}
Shares(s, L) == [l \in L |-> Cardinality(ShareOf(s, l))]
BothOf(h, j, l) == {i \in DOMAIN h : h[i] = l /\ j[i] = l}
Boths(h, j, L) == [l \in L |-> Cardinality(BothOf(h, j, l))]
Products(h, j, L) == [l \in L |-> Cardinality(ShareOf(h, l)) * Cardinality(ShareOf(j, l))]

\* Agreement by chance, as a sum over the labels that either uses.
LEMMA ByChanceIsSum ==
  ASSUME NEW h, NEW j
  PROVE  ByChance(h, j) = SumFunctionOnSet(Products(h, j, LabelsOf(h, j)), LabelsOf(h, j))
<1> DEFINE L == LabelsOf(h, j)
           products == [l \in L |-> Cardinality({i \in DOMAIN h : h[i] = l}) * Cardinality({i \in DOMAIN j : j[i] = l})]
<1>1. ByChance(h, j) = SumFunction(products)
  BY DEF ByChance
<1>2. products = Products(h, j, L)
  BY DEF Products, ShareOf
<1>3. DOMAIN products = L
  OBVIOUS
<1> HIDE DEF products, L
<1> QED BY <1>1, <1>2, <1>3 DEF SumFunction, L

\* Every example has a label.
LEMMA SharesSum ==
  ASSUME NEW s, NEW n \in Nat, DOMAIN s = 1 .. n, NEW L, IsFiniteSet(L), \A i \in 1 .. n : s[i] \in L
  PROVE  SumFunctionOnSet(Shares(s, L), L) = n
<1> DEFINE D == 1 .. n
<1>1. IsFiniteSet(D) /\ Cardinality(D) = n
  BY UpToFinite
<1>2. \A l \in L : Shares(s, L)[l] = Cardinality(Fibre(D, s, l))
  BY DEF Shares, ShareOf, Fibre
<1>3. Within(D, s, L) = D
  BY DEF Within
<1> HIDE DEF D
<1>4. SumFunctionOnSet(Shares(s, L), L) = Cardinality(Within(D, s, L))
  BY ONLY <1>1, <1>2, IsFiniteSet(L), FibresCount
<1> QED BY <1>1, <1>3, <1>4

\* The counts are numbers, and what they come to.
LEMMA SharesCount ==
  ASSUME NEW S, NEW T, NEW h \in Seq(S), NEW j \in Seq(T), Len(h) = Len(j)
  PROVE  LET n == Len(h)
             L == LabelsOf(h, j)
         IN /\ n \in Nat /\ IsFiniteSet(L)
            /\ \A l \in L : /\ Shares(h, L)[l] \in 0 .. n /\ Shares(j, L)[l] \in 0 .. n
                            /\ Boths(h, j, L)[l] \in 0 .. n
                            /\ Boths(h, j, L)[l] >= Shares(h, L)[l] + Shares(j, L)[l] - n
                            /\ Products(h, j, L)[l] = Shares(h, L)[l] * Shares(j, L)[l]
            /\ SumFunctionOnSet(Shares(h, L), L) = n
            /\ SumFunctionOnSet(Shares(j, L), L) = n
            /\ SumFunctionOnSet(Boths(h, j, L), L) = Agreed(h, j)
            /\ Agreed(h, j) \in 0 .. n
            /\ Agreed(h, j) = n <=> \A i \in 1 .. n : h[i] = j[i]
<1> DEFINE n == Len(h)
           L == LabelsOf(h, j)
           D == 1 .. n
           A == {i \in D : h[i] = j[i]}
<1>1. n \in Nat /\ DOMAIN h = D /\ DOMAIN j = D /\ IsFiniteSet(D) /\ Cardinality(D) = n
  BY PositionsFinite
<1>2. IsFiniteSet(L)
  BY RangeFinite, FS_Union DEF LabelsOf
<1>3. \A i \in D : h[i] \in L /\ j[i] \in L
  BY <1>1 DEF LabelsOf, Range
<1> HIDE DEF n, L
<1>4. Agreed(h, j) = Cardinality(A) /\ A \subseteq D
  BY <1>1 DEF Agreed
<1>5. ASSUME NEW l \in L
      PROVE /\ Shares(h, L)[l] \in 0 .. n /\ Shares(j, L)[l] \in 0 .. n
            /\ Boths(h, j, L)[l] \in 0 .. n
            /\ Boths(h, j, L)[l] >= Shares(h, L)[l] + Shares(j, L)[l] - n
            /\ Products(h, j, L)[l] = Shares(h, L)[l] * Shares(j, L)[l]
  <2> DEFINE P == ShareOf(h, l)
             Q == ShareOf(j, l)
             B == BothOf(h, j, l)
  <2>1. P \subseteq D /\ Q \subseteq D /\ B = P \cap Q /\ P \cup Q \subseteq D /\ B \subseteq D
    BY <1>1 DEF ShareOf, BothOf
  <2>2. /\ Shares(h, L)[l] = Cardinality(P) /\ Shares(j, L)[l] = Cardinality(Q)
        /\ Boths(h, j, L)[l] = Cardinality(B)
        /\ Products(h, j, L)[l] = Cardinality(P) * Cardinality(Q)
    BY DEF Shares, Boths, Products
  <2> HIDE DEF P, Q, B, D
  <2>3. /\ IsFiniteSet(P) /\ Cardinality(P) \in Nat /\ Cardinality(P) <= n
        /\ IsFiniteSet(Q) /\ Cardinality(Q) \in Nat /\ Cardinality(Q) <= n
        /\ Cardinality(B) \in Nat /\ Cardinality(B) <= n
        /\ Cardinality(P \cup Q) \in Nat /\ Cardinality(P \cup Q) <= n
    BY <1>1, <2>1, CountOfPart
  <2>4. Cardinality(P \cup Q) = Cardinality(P) + Cardinality(Q) - Cardinality(B)
    BY <2>1, <2>3, FS_Union
  <2> QED BY <1>1, <2>2, <2>3, <2>4
<1>6. SumFunctionOnSet(Shares(h, L), L) = n
  BY <1>1, <1>2, <1>3, SharesSum
<1>7. SumFunctionOnSet(Shares(j, L), L) = n
  BY <1>1, <1>2, <1>3, SharesSum
<1>8. SumFunctionOnSet(Boths(h, j, L), L) = Cardinality(A)
  <2>1. \A l \in L : Boths(h, j, L)[l] = Cardinality(Fibre(A, h, l))
    <3> TAKE l \in L
    <3>1. BothOf(h, j, l) = Fibre(A, h, l)
      BY <1>1 DEF BothOf, Fibre
    <3> QED BY <3>1 DEF Boths
  <2>2. IsFiniteSet(A)
    BY <1>1, <1>4, FS_Subset
  <2> HIDE DEF A
  <2>3. SumFunctionOnSet(Boths(h, j, L), L) = Cardinality(Within(A, h, L))
    BY ONLY <2>1, <2>2, <1>2, FibresCount
  <2>4. Within(A, h, L) = A
    BY <1>3 DEF A, Within
  <2> QED BY <2>3, <2>4
<1>9. /\ Agreed(h, j) \in 0 .. n
      /\ Agreed(h, j) = n <=> \A i \in 1 .. n : h[i] = j[i]
  <2>1. /\ Cardinality(A) \in Nat /\ Cardinality(A) <= n
        /\ Cardinality(A) = n => A = D
    <3> HIDE DEF A, D
    <3> QED BY <1>1, <1>4, CountOfPart
  <2>2. (\A i \in D : h[i] = j[i]) => A = D
    OBVIOUS
  <2>3. A = D => \A i \in D : h[i] = j[i]
    OBVIOUS
  <2>4. Cardinality(D) = n /\ Agreed(h, j) = Cardinality(A) /\ n \in Nat
    BY <1>1, <1>4
  <2>5. Agreed(h, j) \in 0 .. n
    BY <2>1, <2>4
  <2>6. (\A i \in D : h[i] = j[i]) <=> A = D
    BY <2>2, <2>3
  <2>7. Agreed(h, j) = n <=> A = D
    BY <2>1, <2>4
  <2> QED BY <2>5, <2>6, <2>7
<1>10. SumFunctionOnSet(Boths(h, j, L), L) = Agreed(h, j)
  BY <1>4, <1>8
<1> QED BY <1>1, <1>2, <1>5, <1>6, <1>7, <1>9, <1>10 DEF n, L

\* No label is shared by chance more than twice as often as it is shared.
LEMMA LabelByChance ==
  ASSUME NEW n \in Nat, NEW p \in 0 .. n, NEW q \in 0 .. n, NEW b \in 0 .. n, b >= p + q - n
  PROVE  /\ p * q \in 0 .. n * n /\ p * q <= n * p
         /\ 4 * (p * q) <= n * p + n * q + 2 * (n * b)
<1>1. p * q >= 0 /\ n * p >= 0 /\ n * q >= 0 /\ n * b >= 0 /\ p * (n - q) >= 0 /\ n * (n - p) >= 0
  BY Z3
<1>2. p * (n - q) = n * p - p * q /\ n * (n - p) = n * n - n * p
  BY Z3
<1>3. p * q \in Int /\ n * p \in Int /\ n * n \in Int /\ n * q \in Int /\ n * b \in Int
  OBVIOUS
<1>4. p * q <= n * p /\ p * q <= n * n
  BY <1>1, <1>2, <1>3
<1>5. 4 * (p * q) = (p + q) * (p + q) - (p - q) * (p - q) /\ (p - q) * (p - q) >= 0
  BY Z3
<1> DEFINE s == p + q
<1>6. s \in Int /\ 0 <= s /\ s <= 2 * n /\ b >= s - n
  OBVIOUS
<1>7. 4 * (p * q) <= s * s
  <2>1. (p - q) * (p - q) \in Int /\ (p + q) * (p + q) \in Int
    OBVIOUS
  <2> QED BY <1>3, <1>5, <2>1
<1>8. n * p + n * q = n * s
  BY Z3
<1> HIDE DEF s
<1>9. s * s <= n * s + 2 * (n * b)
  <2>0. s * s \in Int /\ n * s \in Int /\ n * b \in Int
    BY <1>6
  <2>1. CASE s <= n
    <3>1. s * (n - s) >= 0 /\ s * (n - s) = n * s - s * s
      BY <1>6, <2>1, Z3
    <3> QED BY <2>0, <3>1, <1>1
  <2>2. CASE s > n
    <3>1. (s - n) * (2 * n - s) >= 0
      BY <1>6, <2>2, Z3
    <3>2. (s - n) * (2 * n - s) = 3 * (n * s) - s * s - 2 * (n * n)
      BY <1>6, Z3
    <3>3. n * (b - (s - n)) >= 0
      BY <1>6, Z3
    <3>4. n * (b - (s - n)) = n * b - n * s + n * n
      BY <1>6, Z3
    <3>5. n * n \in Int
      OBVIOUS
    <3> QED BY <2>0, <3>1, <3>2, <3>3, <3>4, <3>5
  <2> QED BY <1>6, <2>1, <2>2
<1> QED BY <1>1, <1>3, <1>4, <1>7, <1>8, <1>9

\* Agreement by chance against agreement: what makes kappa at least -1.
LEMMA ChanceBounded ==
  ASSUME NEW S, NEW T, NEW h \in Seq(S), NEW j \in Seq(T), Len(h) = Len(j)
  PROVE  LET n == Len(h)
             e == ByChance(h, j)
         IN /\ e \in 0 .. n * n
            /\ 2 * e <= n * n + n * Agreed(h, j)
<1> DEFINE L == LabelsOf(h, j)
           P == Shares(h, L)
           Q == Shares(j, L)
           B == Boths(h, j, L)
           E == Products(h, j, L)
<1>1. PICK n : n = Len(h)
  OBVIOUS
<1>2. PICK o : o = Agreed(h, j)
  OBVIOUS
<1>3. /\ n \in Nat /\ IsFiniteSet(L)
      /\ \A l \in L : /\ P[l] \in 0 .. n /\ Q[l] \in 0 .. n /\ B[l] \in 0 .. n
                      /\ B[l] >= P[l] + Q[l] - n /\ E[l] = P[l] * Q[l]
      /\ SumFunctionOnSet(P, L) = n /\ SumFunctionOnSet(Q, L) = n
      /\ SumFunctionOnSet(B, L) = o /\ o \in 0 .. n
  BY <1>1, <1>2, SharesCount
<1>4. ByChance(h, j) = SumFunctionOnSet(E, L)
  BY ByChanceIsSum
<1> HIDE DEF L, P, Q, B, E
<1>5. \A l \in L : /\ E[l] \in 0 .. n * n /\ E[l] <= n * P[l]
                   /\ 4 * E[l] <= n * P[l] + n * Q[l] + 2 * (n * B[l])
  BY <1>3, LabelByChance
<1> DEFINE X == [l \in L |-> n * P[l]]
           Y == [l \in L |-> n * Q[l]]
           Z == [l \in L |-> (2 * n) * B[l]]
           F == [l \in L |-> 4 * E[l]]
           XY == [l \in L |-> X[l] + Y[l]]
           XYZ == [l \in L |-> XY[l] + Z[l]]
           N == [l \in L |-> 0]
<1>6. /\ \A l \in L : X[l] = n * P[l] /\ Y[l] = n * Q[l] /\ Z[l] = (2 * n) * B[l] /\ F[l] = 4 * E[l]
      /\ \A l \in L : XY[l] = X[l] + Y[l] /\ XYZ[l] = XY[l] + Z[l] /\ N[l] = 0
  OBVIOUS
<1> HIDE DEF X, Y, Z, F, XY, XYZ, N
<1>7. /\ \A l \in L : P[l] \in Int /\ Q[l] \in Int /\ B[l] \in Int /\ E[l] \in Int
      /\ \A l \in L : X[l] \in Int /\ Y[l] \in Int /\ Z[l] \in Int /\ F[l] \in Int
      /\ \A l \in L : XY[l] \in Int /\ XYZ[l] \in Int
  <2>1. \A l \in L : P[l] \in Int /\ Q[l] \in Int /\ B[l] \in Int /\ E[l] \in Int
    BY SMTT(30), <1>3, <1>5
  <2>2. \A l \in L : X[l] \in Int /\ Y[l] \in Int /\ Z[l] \in Int /\ F[l] \in Int
    <3> TAKE l \in L
    <3>1. PICK p \in Int, q \in Int, b \in Int, e \in Int : p = P[l] /\ q = Q[l] /\ b = B[l] /\ e = E[l]
      BY <2>1
    <3>2. n * p \in Int /\ n * q \in Int /\ (2 * n) * b \in Int /\ 4 * e \in Int
      BY ONLY <1>3, p \in Int, q \in Int, b \in Int, e \in Int
    <3> QED BY <1>6, <3>1, <3>2
  <2>3. \A l \in L : XY[l] \in Int
    BY ONLY <1>6, <2>2
  <2>4. \A l \in L : XYZ[l] \in Int
    BY ONLY <1>6, <2>2, <2>3
  <2> QED BY ONLY <2>1, <2>2, <2>3, <2>4
<1>8. /\ SumFunctionOnSet(X, L) = n * n /\ SumFunctionOnSet(Y, L) = n * n
      /\ SumFunctionOnSet(Z, L) = (2 * n) * o
      /\ SumFunctionOnSet(F, L) = 4 * SumFunctionOnSet(E, L)
  <2>1. SumFunctionOnSet(X, L) = n * SumFunctionOnSet(P, L)
    <3>1. \A l \in L : P[l] \in Int /\ X[l] = n * P[l]
      BY <1>6, <1>7
    <3>2. n \in Int /\ IsFiniteSet(L)
      BY <1>3
    <3> QED BY ONLY <3>1, <3>2, SumTimes
  <2>2. SumFunctionOnSet(Y, L) = n * SumFunctionOnSet(Q, L)
    <3>1. \A l \in L : Q[l] \in Int /\ Y[l] = n * Q[l]
      BY <1>6, <1>7
    <3>2. n \in Int /\ IsFiniteSet(L)
      BY <1>3
    <3> QED BY ONLY <3>1, <3>2, SumTimes
  <2>3. SumFunctionOnSet(Z, L) = (2 * n) * SumFunctionOnSet(B, L)
    <3>1. \A l \in L : B[l] \in Int /\ Z[l] = (2 * n) * B[l]
      BY <1>6, <1>7
    <3>2. (2 * n) \in Int /\ IsFiniteSet(L)
      BY <1>3
    <3> QED BY ONLY <3>1, <3>2, SumTimes
  <2>4. SumFunctionOnSet(F, L) = 4 * SumFunctionOnSet(E, L)
    BY <1>3, <1>6, <1>7, SumTimes
  <2> QED BY <1>3, <2>1, <2>2, <2>3, <2>4
<1>9. SumFunctionOnSet(XYZ, L) = n * n + n * n + (2 * n) * o
  <2>1. SumFunctionOnSet(XY, L) = SumFunctionOnSet(X, L) + SumFunctionOnSet(Y, L)
    <3>1. \A l \in L : X[l] \in Int /\ Y[l] \in Int /\ XY[l] = X[l] + Y[l]
      BY <1>6, <1>7
    <3> QED BY ONLY <1>3, <3>1, SumsAdd
  <2>2. SumFunctionOnSet(XYZ, L) = SumFunctionOnSet(XY, L) + SumFunctionOnSet(Z, L)
    <3>1. \A l \in L : XY[l] \in Int /\ Z[l] \in Int /\ XYZ[l] = XY[l] + Z[l]
      BY <1>6, <1>7
    <3> QED BY ONLY <1>3, <3>1, SumsAdd
  <2> QED BY <1>8, <2>1, <2>2
<1>10. SumFunctionOnSet(F, L) <= SumFunctionOnSet(XYZ, L)
  <2>1. \A l \in L : F[l] \in Int /\ XYZ[l] \in Int /\ F[l] <= XYZ[l]
    <3> TAKE l \in L
    <3>1. PICK b \in Int : b = B[l]
      BY <1>7
    <3>2. (2 * n) * b = 2 * (n * b)
      BY <1>3
    <3> QED BY <1>5, <1>6, <1>7, <3>1, <3>2
  <2> QED BY <1>3, <2>1, SumsOrdered
<1>11. 0 <= SumFunctionOnSet(E, L) /\ SumFunctionOnSet(E, L) <= n * n /\ SumFunctionOnSet(E, L) \in Int
  <2>0. SumFunctionOnSet(N, L) = 0 * Cardinality(L)
    BY <1>3, <1>6, SumOfEqual
  <2>1. \A l \in L : N[l] \in Int /\ E[l] \in Int /\ N[l] <= E[l]
    BY <1>5, <1>6, <1>7
  <2>2. SumFunctionOnSet(N, L) <= SumFunctionOnSet(E, L)
    BY <1>3, <2>1, SumsOrdered
  <2>3. \A l \in L : E[l] \in Int /\ X[l] \in Int /\ E[l] <= X[l]
    BY <1>5, <1>6, <1>7
  <2>4. SumFunctionOnSet(E, L) <= SumFunctionOnSet(X, L)
    BY <1>3, <2>3, SumsOrdered
  <2>5. SumFunctionOnSet(E, L) \in Int
    BY <1>3, <1>7, SumOver
  <2>6. Cardinality(L) \in Nat
    BY <1>3, FS_CardinalityType
  <2> QED BY <1>8, <2>0, <2>2, <2>4, <2>5, <2>6
<1>12. PICK e \in Int : e = ByChance(h, j)
  BY <1>4, <1>11
<1>13. e \in 0 .. n * n /\ 2 * e <= n * n + n * o
  <2>1. n * n \in Int /\ n * o \in Int /\ (2 * n) * o = 2 * (n * o)
    BY <1>3
  <2>2. 4 * e <= n * n + n * n + (2 * n) * o
    BY <1>4, <1>8, <1>9, <1>10, <1>12
  <2> QED BY <1>4, <1>11, <1>12, <2>1, <2>2
<1> QED BY <1>1, <1>2, <1>12, <1>13

\* Who is compared with whom does not matter.
LEMMA KappaMirrors ==
  ASSUME NEW S, NEW T, NEW h \in Seq(S), NEW j \in Seq(T), Len(h) = Len(j)
  PROVE  Kappa(h, j) = Kappa(j, h)
<1> DEFINE L == LabelsOf(h, j)
           K == LabelsOf(j, h)
<1>1. K = L
  BY DEF LabelsOf
<1>2. DOMAIN h = DOMAIN j
  OBVIOUS
<1>3. Agreed(h, j) = Agreed(j, h)
  <2>1. {i \in DOMAIN h : h[i] = j[i]} = {i \in DOMAIN j : j[i] = h[i]}
    BY <1>2
  <2> QED BY <2>1 DEF Agreed
<1>4. ByChance(h, j) = ByChance(j, h)
  <2>1. Products(h, j, L) = Products(j, h, L)
    <3>1. ASSUME NEW l \in L
          PROVE Cardinality(ShareOf(h, l)) * Cardinality(ShareOf(j, l))
                = Cardinality(ShareOf(j, l)) * Cardinality(ShareOf(h, l))
      <4>1. Cardinality(ShareOf(h, l)) \in Nat /\ Cardinality(ShareOf(j, l)) \in Nat
        <5>1. ShareOf(h, l) \subseteq DOMAIN h /\ ShareOf(j, l) \subseteq DOMAIN j
          BY DEF ShareOf
        <5> QED BY <5>1, PositionsFinite, CountOfPart
      <4> QED BY <4>1
    <3> HIDE DEF L
    <3> QED BY <3>1 DEF Products
  <2>2. ByChance(h, j) = SumFunctionOnSet(Products(h, j, L), L)
    BY ByChanceIsSum
  <2>3. ByChance(j, h) = SumFunctionOnSet(Products(j, h, K), K)
    BY ByChanceIsSum
  <2> HIDE DEF L, K
  <2> QED BY <1>1, <2>1, <2>2, <2>3
<1> QED BY <1>3, <1>4 DEF Kappa

\* A judge that always says the same agrees as often as chance does.
LEMMA KappaOfConstant ==
  ASSUME NEW S, NEW T, NEW h \in Seq(S), NEW j \in Seq(T), Len(h) = Len(j), Len(h) # 0,
         Cardinality(Range(j)) = 1, Range(j) # Range(h)
  PROVE  /\ ByChance(h, j) = Len(h) * Agreed(h, j)
         /\ Agreed(h, j) # Len(h)
<1> DEFINE L == LabelsOf(h, j)
           E == Products(h, j, L)
<1>1. PICK n \in Nat : n = Len(h) /\ DOMAIN h = 1 .. n /\ DOMAIN j = 1 .. n
  BY PositionsFinite
<1>2. PICK c : Range(j) = {c}
  BY RangeFinite, FS_Singleton
<1>3. \A i \in 1 .. n : j[i] = c
  <2>1. \A i \in 1 .. n : j[i] \in Range(j)
    BY <1>1 DEF Range
  <2> QED BY <1>2, <2>1
<1>4. c \in L
  BY <1>2 DEF LabelsOf
<1>5. ShareOf(j, c) = 1 .. n /\ \A l \in L \ {c} : ShareOf(j, l) = {}
  BY <1>1, <1>3 DEF ShareOf
<1>6. Cardinality(1 .. n) = n /\ IsFiniteSet(1 .. n) /\ Cardinality({}) = 0
  BY UpToFinite, FS_EmptySet
<1>7. Agreed(h, j) = Cardinality(ShareOf(h, c)) /\ Cardinality(ShareOf(h, c)) \in Nat
  <2>1. {i \in DOMAIN h : h[i] = j[i]} = ShareOf(h, c)
    BY <1>1, <1>3 DEF ShareOf
  <2>2. ShareOf(h, c) \subseteq 1 .. n
    BY <1>1 DEF ShareOf
  <2> QED BY <1>6, <2>1, <2>2, CountOfPart DEF Agreed
<1>8. \A l \in L : Cardinality(ShareOf(h, l)) \in Nat
  <2> TAKE l \in L
  <2>2. ShareOf(h, l) \subseteq 1 .. n
    BY <1>1 DEF ShareOf
  <2> QED BY <1>6, <2>2, CountOfPart
<1>9. IsFiniteSet(L)
  BY SharesCount
<1>10. E[c] = n * Agreed(h, j) /\ E[c] \in Int /\ \A l \in L \ {c} : E[l] = 0
  <2> HIDE DEF L
  <2>1. E[c] = Cardinality(ShareOf(h, c)) * n
    BY <1>4, <1>5, <1>6 DEF Products
  <2>2. Cardinality(ShareOf(h, c)) * n = n * Cardinality(ShareOf(h, c))
    BY <1>7
  <2>3. n * Cardinality(ShareOf(h, c)) \in Int
    BY <1>7
  <2>4. ASSUME NEW l \in L \ {c} PROVE E[l] = 0
    <3>1. E[l] = Cardinality(ShareOf(h, l)) * 0
      BY <1>5, <1>6 DEF Products
    <3> QED BY <1>8, <3>1
  <2> QED BY <1>7, <2>1, <2>2, <2>3, <2>4
<1> HIDE DEF L, E
<1>11. SumFunctionOnSet(E, L) = E[c]
  <2>1. \A l \in L : E[l] \in Int
    BY <1>10
  <2>2. SumFunctionOnSet(E, L) = E[c] + SumFunctionOnSet(E, L \ {c})
    BY <1>4, <1>9, <2>1, SumOver
  <2>3. IsFiniteSet(L \ {c})
    BY <1>9, FS_Subset
  <2>4. SumFunctionOnSet(E, L \ {c}) = 0 * Cardinality(L \ {c})
    BY <1>10, <2>3, SumOfEqual
  <2>5. Cardinality(L \ {c}) \in Nat
    BY <2>3, FS_CardinalityType
  <2> QED BY <1>10, <2>2, <2>4, <2>5
<1>12. ByChance(h, j) = Len(h) * Agreed(h, j)
  BY <1>1, <1>10, <1>11, ByChanceIsSum DEF E, L
<1>13. ASSUME Agreed(h, j) = Len(h) PROVE FALSE
  <2>1. \A i \in 1 .. n : h[i] = c
    BY <1>1, <1>3, <1>13, SharesCount
  <2>2. Range(h) = {c}
    <3>1. 1 \in 1 .. n
      BY <1>1
    <3> QED BY <1>1, <2>1, <3>1 DEF Range
  <2> QED BY <1>2, <2>2
<1> QED BY <1>12, <1>13

\* Kappa is a fraction from minus one to one; it is one when all agree, and a
\* labeller who only ever says one thing gets no credit.
LEMMA KappaTells ==
  ASSUME NEW S, NEW T, NEW h \in Seq(S), NEW j \in Seq(T), Len(h) = Len(j), Len(h) # 0
  PROVE  LET k == Kappa(h, j)
         IN /\ k[1] \in Int /\ k[2] \in Int
            /\ k[2] > 0 /\ k[1] <= k[2] /\ k[1] >= -k[2]
            /\ k[1] = k[2] <=> Agreed(h, j) = Len(h)
            /\ Cardinality(Range(j)) = 1 /\ Range(j) # Range(h) => k[1] <= 0
<1>1. PICK n \in Nat, o \in Nat, e \in Nat :
        /\ n = Len(h) /\ o = Agreed(h, j) /\ e = ByChance(h, j)
        /\ n > 0 /\ o <= n /\ e <= n * n /\ 2 * e <= n * n + n * o
  <2>1. PICK n \in Nat : n = Len(h)
    BY PositionsFinite
  <2>2. n * n \in Int
    OBVIOUS
  <2>3. ByChance(h, j) \in 0 .. n * n /\ 2 * ByChance(h, j) <= n * n + n * Agreed(h, j)
    BY <2>1, ChanceBounded
  <2>4. Agreed(h, j) \in 0 .. n
    BY <2>1, SharesCount
  <2> QED BY <2>1, <2>2, <2>3, <2>4
<1>2. o * n = n * o /\ n * o \in Int /\ n * n \in Int /\ n * o <= n * n
  <2>0. o <= n
    BY <1>1
  <2>1. n * (n - o) >= 0 /\ n * (n - o) = n * n - n * o
    BY ONLY <2>0, n \in Nat, o \in Nat, Z3
  <2>2. o * n = n * o /\ n * o \in Int /\ n * n \in Int
    OBVIOUS
  <2> QED BY <2>1, <2>2
<1>3. n * o = n * n <=> o = n
  <2>1. ASSUME o # n PROVE n * o # n * n
    <3>0. o < n
      BY <1>1, <2>1
    <3>1. n * (n - o) > 0
      BY ONLY <3>0, n \in Nat, o \in Nat, Z3
    <3>2. n * (n - o) = n * n - n * o
      BY ONLY n \in Nat, o \in Nat, Z3
    <3> QED BY <1>2, <3>1, <3>2
  <2> QED BY <2>1
<1>4. CASE e >= n * n
  <2>1. Kappa(h, j) = <<IF o >= n THEN 1 ELSE 0, 1>>
    BY <1>1, <1>4 DEF Kappa
  <2>2. Cardinality(Range(j)) = 1 /\ Range(j) # Range(h) => FALSE
    <3>1. SUFFICES ASSUME Cardinality(Range(j)) = 1, Range(j) # Range(h) PROVE FALSE
      OBVIOUS
    <3>2. e = n * o /\ o # n
      BY <1>1, <3>1, KappaOfConstant
    <3> QED BY SMTT(20), <1>1, <1>2, <1>3, <1>4, <3>2
  <2> QED BY <1>1, <2>1, <2>2
<1>5. CASE ~(e >= n * n)
  <2>1. Kappa(h, j) = <<o * n - e, n * n - e>>
    BY <1>1, <1>5 DEF Kappa
  <2>2. Cardinality(Range(j)) = 1 /\ Range(j) # Range(h) => e = n * o
    BY <1>1, KappaOfConstant
  <2>3. PICK a \in Int, b \in Int : a = n * o /\ b = n * n
    BY <1>2
  <2>4. /\ Kappa(h, j)[1] = a - e /\ Kappa(h, j)[2] = b - e
        /\ a <= b /\ ~(e >= b) /\ 2 * e <= b + a /\ (a = b <=> o = n)
    BY <1>1, <1>2, <1>3, <1>5, <2>1, <2>3
  <2>5. Cardinality(Range(j)) = 1 /\ Range(j) # Range(h) => e = a
    BY <2>2, <2>3
  <2>6. PICK k1, k2 : k1 = Kappa(h, j)[1] /\ k2 = Kappa(h, j)[2]
    OBVIOUS
  <2>7. /\ k1 \in Int /\ k2 \in Int /\ k2 > 0 /\ k1 <= k2 /\ k1 >= -k2
        /\ (k1 = k2 <=> o = n)
        /\ (e = a => k1 <= 0)
    BY ONLY <2>4, <2>6, a \in Int, b \in Int, e \in Nat
  <2> QED BY <1>1, <2>5, <2>6, <2>7
<1> QED BY <1>4, <1>5

-----------------------------------------------------------------------------
\* The verdicts of people and of the judge are sequences of one length.
LEMMA VerdictSequences ==
  ASSUME VerdictsKept
  PROVE  /\ Humans \in Seq(HumanLabels) /\ Judges \in Seq(JudgeLabels)
         /\ Len(Humans) = Len(examples) /\ Len(Judges) = Len(examples)
         /\ Len(examples) \in Nat
         /\ examples # <<>> => Len(examples) # 0
<1>1. examples \in Seq([human : HumanLabels, judge : JudgeLabels])
  BY DEF VerdictsKept
<1>2. \A i \in DOMAIN examples : examples[i] \in [human : HumanLabels, judge : JudgeLabels]
  BY <1>1, PositionsFinite
<1>3. Humans = [i \in DOMAIN examples |-> Humans[i]] /\ \A i \in DOMAIN examples : Humans[i] \in HumanLabels
  BY <1>2 DEF Humans
<1>4. Judges = [i \in DOMAIN examples |-> Judges[i]] /\ \A i \in DOMAIN examples : Judges[i] \in JudgeLabels
  BY <1>2 DEF Judges
<1>5. Humans \in Seq(HumanLabels) /\ Len(Humans) = Len(examples)
  BY ONLY <1>1, <1>3, MappedSequence
<1>6. Judges \in Seq(JudgeLabels) /\ Len(Judges) = Len(examples)
  BY ONLY <1>1, <1>4, MappedSequence
<1>7. Len(examples) \in Nat /\ (examples # <<>> => Len(examples) # 0)
  BY <1>1
<1> QED BY <1>5, <1>6, <1>7

\* cohens_kappa of the examples so far.
LEMMA KappaAlwaysMeans == VerdictsKept => KappaMeans
<1> SUFFICES ASSUME VerdictsKept, examples # <<>>
             PROVE LET k == Kappa(Humans, Judges)
                       n == Len(examples)
                   IN /\ k[2] > 0 /\ k[1] <= k[2] /\ k[1] >= -k[2]
                      /\ k[1] = k[2] <=> Agreed(Humans, Judges) = n
                      /\ Equal(k, Kappa(Judges, Humans))
                      /\ Cardinality(Range(Judges)) = 1 /\ Range(Judges) # Range(Humans) => k[1] <= 0
                      /\ JudgeCommand(Humans, Judges) = "ok" => 100 * k[1] >= Threshold * k[2]
  BY DEF KappaMeans
<1>1. /\ Humans \in Seq(HumanLabels) /\ Judges \in Seq(JudgeLabels)
      /\ Len(Humans) = Len(examples) /\ Len(Judges) = Len(examples) /\ Len(Humans) = Len(Judges)
      /\ Len(Humans) # 0
  BY VerdictSequences
<1>2. PICK k : k = Kappa(Humans, Judges)
  OBVIOUS
<1>3. /\ k[1] \in Int /\ k[2] \in Int
      /\ k[2] > 0 /\ k[1] <= k[2] /\ k[1] >= -k[2]
      /\ k[1] = k[2] <=> Agreed(Humans, Judges) = Len(Humans)
      /\ Cardinality(Range(Judges)) = 1 /\ Range(Judges) # Range(Humans) => k[1] <= 0
  BY <1>1, <1>2, KappaTells
<1>4. Kappa(Judges, Humans) = k
  BY <1>1, <1>2, KappaMirrors
<1>5. Equal(k, Kappa(Judges, Humans))
  <2>1. k[1] * k[2] = k[1] * k[2]
    OBVIOUS
  <2> QED BY <1>4, <2>1 DEF Equal
<1>6. JudgeCommand(Humans, Judges) = "ok" => 100 * k[1] >= Threshold * k[2]
  <2>1. SUFFICES ASSUME JudgeCommand(Humans, Judges) = "ok" PROVE 100 * k[1] >= Threshold * k[2]
    OBVIOUS
  <2>2. ValidateJudge(Humans, Judges, <<>>).passed
    BY <2>1 DEF JudgeCommand
  <2>3. ValidateJudge(Humans, Judges, <<>>).passed = Usable(k)
    BY <1>2 DEF ValidateJudge
  <2> QED BY <2>2, <2>3 DEF Usable
<1> QED BY <1>1, <1>2, <1>3, <1>5, <1>6

-----------------------------------------------------------------------------
\* What a judge got wrong, by the label that it gave or should have given.
Missed(h, j) == {x \in DOMAIN h : h[x] # j[x]}

\* ClassMetrics of label l: by the label it should have been, and was.
Wrongs(h, j, L, l) == [o \in L \ {l} |-> CountOf(h, j, o, l)]
Lacks(h, j, L, l) == [o \in L \ {l} |-> CountOf(h, j, l, o)]

\* The false positives and false negatives of a label are the misses that got it
\* and those that should have got it.
LEMMA MissesCount ==
  ASSUME NEW n \in Nat, NEW h, NEW j, DOMAIN h = 1 .. n, DOMAIN j = 1 .. n,
         NEW L, IsFiniteSet(L), \A i \in 1 .. n : h[i] \in L /\ j[i] \in L,
         NEW l \in L
  PROVE  /\ SumFunction(Wrongs(h, j, L, l)) = Cardinality(Fibre(Missed(h, j), j, l))
         /\ SumFunction(Lacks(h, j, L, l)) = Cardinality(Fibre(Missed(h, j), h, l))
<1> DEFINE D == 1 .. n
           M == Missed(h, j)
           F == Wrongs(h, j, L, l)
           G == Lacks(h, j, L, l)
           A == Fibre(D, j, l)
           B == Fibre(D, h, l)
<1>1. IsFiniteSet(D) /\ IsFiniteSet(L \ {l}) /\ IsFiniteSet(A) /\ IsFiniteSet(B)
  BY UpToFinite, FS_Subset DEF Fibre
<1>2. \A o \in L \ {l} : F[o] = Cardinality(Fibre(A, h, o))
  <2> TAKE o \in L \ {l}
  <2>1. {i \in DOMAIN h : h[i] = o /\ j[i] = l} = Fibre(A, h, o)
    BY DEF Fibre
  <2> QED BY <2>1 DEF CountOf, Wrongs, Lacks
<1>3. \A o \in L \ {l} : G[o] = Cardinality(Fibre(B, j, o))
  <2> TAKE o \in L \ {l}
  <2>1. {i \in DOMAIN h : h[i] = l /\ j[i] = o} = Fibre(B, j, o)
    BY DEF Fibre
  <2> QED BY <2>1 DEF CountOf, Wrongs, Lacks
<1>4. Within(A, h, L \ {l}) = Fibre(M, j, l)
  BY DEF Fibre, Within, Missed
<1>5. Within(B, j, L \ {l}) = Fibre(M, h, l)
  BY DEF Fibre, Within, Missed
<1>6. DOMAIN F = L \ {l} /\ DOMAIN G = L \ {l}
  BY DEF Wrongs, Lacks
<1> HIDE DEF F, G, A, B, M, D
<1>7. SumFunctionOnSet(F, L \ {l}) = Cardinality(Within(A, h, L \ {l}))
  BY ONLY <1>1, <1>2, FibresCount
<1>8. SumFunctionOnSet(G, L \ {l}) = Cardinality(Within(B, j, L \ {l}))
  BY ONLY <1>1, <1>3, FibresCount
<1>9. SumFunction(F) = Cardinality(Fibre(M, j, l)) /\ SumFunction(G) = Cardinality(Fibre(M, h, l))
  BY <1>4, <1>5, <1>6, <1>7, <1>8 DEF SumFunction
<1> QED BY <1>9 DEF F, G, M, D

\* per_class of the examples so far.
LEMMA ClassesAlwaysCount == VerdictsKept => ClassesCount
<1> SUFFICES ASSUME VerdictsKept PROVE ClassesCount
  OBVIOUS
<1> DEFINE h == Humans
           j == Judges
           L == LabelsOf(h, j)
           C == PerClass(h, j)
           P == [l \in DOMAIN C |-> C[l]["false_positives"]]
           N == [l \in DOMAIN C |-> C[l]["false_negatives"]]
           U == [l \in DOMAIN C |-> Support(C[l])]
           TP(l) == CountOf(h, j, l, l)
           FP(l) == SumFunction(Wrongs(h, j, L, l))
           FN(l) == SumFunction(Lacks(h, j, L, l))
<1>1. PICK n \in Nat : n = Len(examples)
  BY VerdictSequences
<1>2. /\ h \in Seq(HumanLabels) /\ j \in Seq(JudgeLabels)
      /\ Len(h) = n /\ Len(j) = n /\ DOMAIN h = 1 .. n /\ DOMAIN j = 1 .. n
  BY <1>1, VerdictSequences, PositionsFinite
<1> HIDE DEF h, j
<1>3. IsFiniteSet(L) /\ Agreed(h, j) \in 0 .. n
  BY <1>2, SharesCount
<1>4. \A i \in 1 .. n : h[i] \in L /\ j[i] \in L
  BY <1>2 DEF LabelsOf, Range
<1> HIDE DEF L
<1>5. DOMAIN C = L /\ \A l \in L : C[l] = [true_positives |-> TP(l), false_positives |-> FP(l), false_negatives |-> FN(l)]
  BY DEF PerClass, L, Wrongs, Lacks
<1> HIDE DEF C, TP, FP, FN
<1>6. /\ DOMAIN P = L /\ DOMAIN N = L /\ DOMAIN U = L
      /\ \A l \in L : P[l] = FP(l) /\ N[l] = FN(l) /\ U[l] = TP(l) + FN(l)
  BY <1>5 DEF Support
<1> HIDE DEF P, N, U
<1> DEFINE D == 1 .. n
           M == Missed(h, j)
           A == {x \in D : h[x] = j[x]}
<1>7. \A l \in L : FP(l) = Cardinality(Fibre(M, j, l)) /\ FN(l) = Cardinality(Fibre(M, h, l))
  <2> TAKE l \in L
  <2>1. /\ SumFunction(Wrongs(h, j, L, l)) = Cardinality(Fibre(Missed(h, j), j, l))
        /\ SumFunction(Lacks(h, j, L, l)) = Cardinality(Fibre(Missed(h, j), h, l))
    <3> HIDE DEF M, D, A
    <3>1. IsFiniteSet(L) /\ DOMAIN h = 1 .. n /\ DOMAIN j = 1 .. n
      BY <1>2, <1>3
    <3> QED BY ONLY <3>1, <1>4, n \in Nat, l \in L, MissesCount
  <2> QED BY <2>1 DEF FP, FN
<1>8. IsFiniteSet(D) /\ Cardinality(D) = n /\ M \subseteq D /\ A \subseteq D /\ D \ A = M
  <2>1. M = {x \in D : h[x] # j[x]}
    BY <1>2 DEF Missed
  <2> HIDE DEF M
  <2>2. M \subseteq D /\ A \subseteq D /\ D \ A = M
    BY <2>1
  <2> QED BY <2>2, UpToFinite
<1>9. Agreed(h, j) = Cardinality(A)
  BY <1>2 DEF Agreed
<1>10. \A i \in M : h[i] \in L /\ j[i] \in L
  BY <1>2, <1>4 DEF Missed
<1>11. \A l \in L : TP(l) = Cardinality(Fibre(A, h, l))
  <2> TAKE l \in L
  <2>1. {i \in DOMAIN h : h[i] = l /\ j[i] = l} = Fibre(A, h, l)
    BY <1>2 DEF Fibre
  <2> QED BY <2>1 DEF TP, CountOf
<1>12. \A i \in A : h[i] \in L
  BY <1>4
<1> HIDE DEF D, M, A
<1>13. /\ IsFiniteSet(M) /\ IsFiniteSet(A) /\ Cardinality(M) = n - Agreed(h, j)
       /\ Cardinality(M) \in Nat /\ Cardinality(A) \in Nat
  <2>1. Cardinality(D \ A) = Cardinality(D) - Cardinality(A)
    BY <1>8, CountOfPart
  <2> QED BY <1>8, <1>9, <2>1, CountOfPart
<1>14. SumFunctionOnSet(P, L) = Cardinality(M)
  <2>1. \A l \in L : P[l] = Cardinality(Fibre(M, j, l))
    BY <1>6, <1>7
  <2>2. SumFunctionOnSet(P, L) = Cardinality(Within(M, j, L))
    BY ONLY <2>1, <1>13, <1>3, FibresCount
  <2>3. Within(M, j, L) = M
    BY <1>10 DEF Within
  <2> QED BY <2>2, <2>3
<1>15. SumFunctionOnSet(N, L) = Cardinality(M)
  <2>1. \A l \in L : N[l] = Cardinality(Fibre(M, h, l))
    BY <1>6, <1>7
  <2>2. SumFunctionOnSet(N, L) = Cardinality(Within(M, h, L))
    BY ONLY <2>1, <1>13, <1>3, FibresCount
  <2>3. Within(M, h, L) = M
    BY <1>10 DEF Within
  <2> QED BY <2>2, <2>3
<1>16. SumFunctionOnSet(U, L) = n
  <2> DEFINE T == [l \in L |-> TP(l)]
  <2>1. \A l \in L : T[l] = Cardinality(Fibre(A, h, l))
    BY <1>11
  <2>2. \A l \in L : T[l] = TP(l)
    OBVIOUS
  <2> HIDE DEF T
  <2>3. SumFunctionOnSet(T, L) = Cardinality(Within(A, h, L))
    BY ONLY <2>1, <1>13, <1>3, FibresCount
  <2>4. Within(A, h, L) = A
    BY <1>12 DEF Within
  <2>5. \A l \in L : T[l] \in Int /\ N[l] \in Int /\ U[l] = T[l] + N[l]
    <3> TAKE l \in L
    <3>1. Fibre(A, h, l) \in SUBSET A /\ Fibre(M, h, l) \in SUBSET M
      BY DEF Fibre
    <3>2. Cardinality(Fibre(A, h, l)) \in Nat /\ Cardinality(Fibre(M, h, l)) \in Nat
      BY ONLY <3>1, <1>13, CountOfPart
    <3>3. T[l] \in Nat
      BY <3>2, <2>1
    <3>4. FN(l) \in Nat
      BY <3>2, <1>7
    <3> QED BY <1>6, <2>2, <3>3, <3>4
  <2>6. SumFunctionOnSet(U, L) = SumFunctionOnSet(T, L) + SumFunctionOnSet(N, L)
    BY ONLY <2>5, <1>3, SumsAdd
  <2>7. SumFunctionOnSet(U, L) = Cardinality(A) + Cardinality(M)
    BY <1>15, <2>3, <2>4, <2>6
  <2> QED BY <1>3, <1>9, <1>13, <2>7
<1>17. SumFunction(U) = n /\ SumFunction(P) = n - Agreed(h, j) /\ SumFunction(N) = n - Agreed(h, j)
  BY <1>6, <1>13, <1>14, <1>15, <1>16 DEF SumFunction
<1> QED BY <1>1, <1>17 DEF ClassesCount, U, P, N, C, h, j

-----------------------------------------------------------------------------
\* The pairs of a probe.
LEMMA PairsTell ==
  ASSUME VerdictsKept
  PROVE  /\ IsFiniteSet(DOMAIN pairs) /\ Cardinality(DOMAIN pairs) = Len(pairs) /\ Len(pairs) \in Nat
         /\ pairs # <<>> => Len(pairs) > 0
         /\ \A i \in DOMAIN pairs : /\ pairs[i].forward \in {"a", "b", "tie"}
                                    /\ pairs[i].swapped \in {"a", "b", "tie"}
                                    /\ pairs[i].own \in BOOLEAN
<1>1. pairs \in Seq([forward : Preferences, swapped : Preferences, own : BOOLEAN])
  BY DEF VerdictsKept
<1>2. \A i \in DOMAIN pairs : pairs[i] \in [forward : Preferences, swapped : Preferences, own : BOOLEAN]
  BY <1>1, PositionsFinite
<1>3. pairs # <<>> => Len(pairs) > 0
  BY <1>1
<1> QED BY <1>1, <1>2, <1>3, PositionsFinite, VerdictsAssumption

\* position_bias of the pairs so far.
LEMMA PositionAlwaysTells == VerdictsKept => PositionTells
<1> SUFFICES ASSUME VerdictsKept PROVE PositionTells
  OBVIOUS
<1> DEFINE D == DOMAIN pairs
           forward == [i \in D |-> pairs[i].forward]
           swapped == [i \in D |-> pairs[i].swapped]
           bias == PositionBias(forward, swapped)
           same == {i \in D : forward[i] = Undone(swapped[i])}
           one == {i \in D \ same : forward[i] = "a" /\ swapped[i] = "a"}
           two == {i \in D \ same : forward[i] = "b" /\ swapped[i] = "b"}
<1>1. bias = [consistent |-> same, first |-> one, second |-> two]
  BY DEF PositionBias
<1>8. bias.consistent = same /\ bias.first = one /\ bias.second = two
  <2> HIDE DEF bias, same, one, two
  <2> QED BY <1>1
<1>2. \A i \in D : forward[i] \in {"a", "b", "tie"} /\ swapped[i] \in {"a", "b", "tie"}
  BY PairsTell
<1>3. \A v \in {"a", "b", "tie"} : Undone(v) = IF v = "a" THEN "b" ELSE IF v = "b" THEN "a" ELSE "tie"
  BY DEF Undone
<1>4. same \cap (one \cup two) = {}
  OBVIOUS
<1>5. D \ (same \cup one \cup two) = {i \in D : (forward[i] = "tie") # (swapped[i] = "tie")}
  <2> HIDE DEF forward, swapped
  <2>1. ASSUME NEW i \in D
        PROVE (i \notin same \cup one \cup two) <=> ((forward[i] = "tie") # (swapped[i] = "tie"))
    <3>1. PICK f \in {"a", "b", "tie"}, s \in {"a", "b", "tie"} : f = forward[i] /\ s = swapped[i]
      BY <1>2
    <3>2. i \in same <=> f = Undone(s)
      BY <3>1
    <3>3. i \notin same \cup one \cup two <=> f # Undone(s) /\ ~(f = "a" /\ s = "a") /\ ~(f = "b" /\ s = "b")
      BY <3>1, <3>2
    <3>4. Undone(s) = IF s = "a" THEN "b" ELSE IF s = "b" THEN "a" ELSE "tie"
      BY <1>3
    <3>5. (f # Undone(s) /\ ~(f = "a" /\ s = "a") /\ ~(f = "b" /\ s = "b")) <=> ((f = "tie") # (s = "tie"))
      BY <3>4
    <3> QED BY <3>1, <3>3, <3>5
  <2> QED BY <2>1
<1>6. ASSUME \A i \in D : forward[i] = "a" /\ swapped[i] = "a"
      PROVE  one = D /\ (pairs # <<>> => PositionalSkew(bias) = <<Len(pairs), Len(pairs)>>)
  <2>1. same = {}
    BY <1>3, <1>6
  <2>2. one = D /\ two = {}
    BY <1>6, <2>1
  <2>3. Cardinality(one) = Len(pairs) /\ Cardinality(two) = 0 /\ Len(pairs) \in Nat
        /\ (pairs # <<>> => Len(pairs) > 0)
    BY <2>2, PairsTell, FS_EmptySet
  <2> HIDE DEF bias, one, two, same
  <2> QED BY <1>8, <2>2, <2>3 DEF PositionalSkew
<1>7. ASSUME \A i \in D : {forward[i], swapped[i]} = {"a", "b"}
      PROVE  same = D /\ PositionalSkew(bias)[1] = 0
  <2>1. same = D
    <3>1. ASSUME NEW i \in D PROVE forward[i] = Undone(swapped[i])
      <4>1. PICK f, s : f = forward[i] /\ s = swapped[i]
        OBVIOUS
      <4>2. {f, s} = {"a", "b"}
        BY <1>7, <4>1
      <4>3. (f = "a" /\ s = "b") \/ (f = "b" /\ s = "a")
        BY <4>2
      <4> QED BY <4>1, <4>3 DEF Undone
    <3> QED BY <3>1
  <2>2. one = {} /\ two = {}
    BY <2>1
  <2> HIDE DEF bias, one, two
  <2>3. bias.first = {} /\ bias.second = {}
    BY <1>8, <2>2
  <2> QED BY <2>1, <2>3, FS_EmptySet DEF PositionalSkew
<1> HIDE DEF bias, same, one, two
<1> QED BY <1>4, <1>5, <1>6, <1>7, <1>8 DEF PositionTells, bias

\* self_preference of the pairs so far.
LEMMA PreferenceAlwaysMirrors == VerdictsKept => PreferenceMirrors
<1> SUFFICES ASSUME VerdictsKept PROVE PreferenceMirrors
  OBVIOUS
<1> DEFINE D == DOMAIN pairs
           verdicts == [i \in D |-> IF pairs[i].forward = "a" THEN "pass" ELSE "fail"]
           own == [i \in D |-> pairs[i].own]
           other == [i \in D |-> ~pairs[i].own]
           p == SelfPreference(verdicts, own)
           q == SelfPreference(verdicts, other)
<1>1. /\ DOMAIN verdicts = D /\ \A i \in D : other[i] = ~own[i] /\ own[i] \in BOOLEAN
      /\ IsFiniteSet(D)
  BY PairsTell
<1> HIDE DEF verdicts, own, other
<1> DEFINE Side(o, flag) == {i \in DOMAIN verdicts : o[i] = flag}
           Good(o, flag) == {i \in Side(o, flag) : verdicts[i] = "pass"}
           Rated(o, flag) == IF Side(o, flag) = {} THEN <<0, 1>>
                             ELSE <<Cardinality(Good(o, flag)), Cardinality(Side(o, flag))>>
<1>2. p = [own |-> Rated(own, TRUE), other |-> Rated(own, FALSE),
           comparable |-> Side(own, TRUE) # {} /\ Side(own, FALSE) # {}]
  BY DEF SelfPreference
<1>3. q = [own |-> Rated(other, TRUE), other |-> Rated(other, FALSE),
           comparable |-> Side(other, TRUE) # {} /\ Side(other, FALSE) # {}]
  BY DEF SelfPreference
<1>4. Side(other, TRUE) = Side(own, FALSE) /\ Side(other, FALSE) = Side(own, TRUE)
  BY <1>1
<1>5. Rated(other, TRUE) = Rated(own, FALSE) /\ Rated(other, FALSE) = Rated(own, TRUE)
  BY <1>4
<1>6. ASSUME NEW flag PROVE Rated(own, flag)[1] \in Int /\ Rated(own, flag)[2] \in Int
  <2>1. Side(own, flag) \in SUBSET D /\ Good(own, flag) \in SUBSET D
    BY <1>1
  <2>2. Cardinality(Side(own, flag)) \in Nat /\ Cardinality(Good(own, flag)) \in Nat
    BY <1>1, <2>1, CountOfPart
  <2> QED BY <2>2
<1>7. /\ p.own = q.other /\ p.other = q.own /\ (p.comparable <=> q.comparable)
      /\ p.own[1] \in Int /\ p.own[2] \in Int /\ p.other[1] \in Int /\ p.other[2] \in Int
  <2> HIDE DEF p, q, Rated, Side
  <2>1. /\ p.own = Rated(own, TRUE) /\ p.other = Rated(own, FALSE)
        /\ q.own = Rated(other, TRUE) /\ q.other = Rated(other, FALSE)
    BY <1>2, <1>3
  <2>2. /\ p.comparable <=> Side(own, TRUE) # {} /\ Side(own, FALSE) # {}
        /\ q.comparable <=> Side(other, TRUE) # {} /\ Side(other, FALSE) # {}
    <3> DEFINE pc == Side(own, TRUE) # {} /\ Side(own, FALSE) # {}
               qc == Side(other, TRUE) # {} /\ Side(other, FALSE) # {}
    <3>1. p.comparable = pc /\ q.comparable = qc
      <4> HIDE DEF pc, qc
      <4> QED BY <1>2, <1>3 DEF pc, qc
    <3> QED BY <3>1
  <2> QED BY <1>4, <1>5, <1>6, <2>1, <2>2
<1> HIDE DEF p, q
<1>8. PICK a \in Int, b \in Int, c \in Int, d \in Int :
        a = p.own[1] /\ b = p.own[2] /\ c = p.other[1] /\ d = p.other[2]
  BY <1>7
<1>9. q.own[1] = c /\ q.own[2] = d /\ q.other[1] = a /\ q.other[2] = b
  BY <1>7, <1>8
<1>10. PICK x \in Int, y \in Int, z \in Int : x = a * d /\ y = c * b /\ z = b * d
  OBVIOUS
<1>11. b * d = d * b /\ a * d = d * a /\ c * b = b * c
  OBVIOUS
<1>12. Prefers(p) <=> p.comparable /\ (100 * (x - y) >= 15 * z \/ -100 * (x - y) >= 15 * z)
  BY <1>8, <1>10 DEF Prefers
<1>13. Prefers(q) <=> q.comparable /\ (100 * (y - x) >= 15 * z \/ -100 * (y - x) >= 15 * z)
  BY <1>9, <1>10, <1>11 DEF Prefers
<1>14. Prefers(p) <=> Prefers(q)
  BY <1>7, <1>12, <1>13
<1>15. Prefers(p) \in BOOLEAN /\ Prefers(q) \in BOOLEAN
  BY DEF Prefers
<1> QED BY <1>14, <1>15 DEF PreferenceMirrors, p, q, verdicts, own, other

\* All that is said of judge_eval/.
LEMMA JudgesAlwaysMeasured == VerdictsKept => JudgesMeasured
  BY KappaAlwaysMeans, ClassesAlwaysCount, PositionAlwaysTells, PreferenceAlwaysMirrors
  DEF JudgesMeasured
-----------------------------------------------------------------------------
\* Division with a remainder, and back.
LEMMA Divided ==
    ASSUME NEW n \in Nat, NEW d \in Nat \ {0}
    PROVE  n % d \in 0 .. d - 1 /\ \E q \in Nat : n = q * d + (n % d)
<1>1. n % d \in 0 .. d - 1 /\ n \div d \in Nat
  OBVIOUS
<1>2. n = (n \div d) * d + (n % d)
  OBVIOUS
<1> QED BY <1>1, <1>2

\* The remainder of what is put together from a quotient and a remainder.
LEMMA Remainder ==
    ASSUME NEW q \in Nat, NEW d \in Nat \ {0}, NEW r \in 0 .. d - 1
    PROVE  (q * d + r) % d = r
OBVIOUS

\* A multiple of d does not change a remainder.
LEMMA AddMultiple ==
    ASSUME NEW q \in Nat, NEW d \in Nat \ {0}, NEW n \in Nat
    PROVE  (q * d + n) % d = n % d
<1>1. PICK v \in Nat : n = v * d + (n % d)
  BY Divided
<1>2. PICK r : r = n % d /\ r \in 0 .. d - 1
  BY Divided
<1>3. q * d + n = (q + v) * d + r
  BY <1>1, <1>2
<1>4. q + v \in Nat
  OBVIOUS
<1>5. ((q + v) * d + r) % d = r
  BY <1>2, <1>4, Remainder
<1> QED BY <1>2, <1>3, <1>5

\* Numbers with the same remainder are a multiple apart.
LEMMA ApartByMultiple ==
    ASSUME NEW m \in Nat, NEW n \in Nat, m < n, NEW d \in Nat \ {0}, m % d = n % d
    PROVE  (n - m) % d = 0
<1>1. PICK p \in Nat, q \in Nat : m = p * d + (m % d) /\ n = q * d + (n % d)
  BY Divided
<1>2. PICK r : r = m % d /\ r \in 0 .. d - 1
  BY Divided
<1>3. m = p * d + r /\ n = q * d + r
  BY <1>1, <1>2
<1>4. n - m = (q - p) * d
  <2>1. r \in Int /\ (q - p) * d = q * d - p * d /\ q * d \in Int /\ p * d \in Int
    BY <1>2
  <2>2. (q * d + r) - (p * d + r) = q * d - p * d
    BY ONLY <2>1
  <2> QED BY ONLY <1>3, <2>1, <2>2
<1>5. q - p \in Nat
  <2>1. ~(q < p)
    <3>1. ASSUME q < p PROVE FALSE
      <4>1. PICK e \in Nat : p = q + e
        BY <3>1
      <4>2. m = n + e * d
        BY <1>2, <1>3, <4>1
      <4>3. e * d \in Nat
        BY <4>1
      <4> QED BY <4>2, <4>3
    <3> QED BY <3>1
  <2> QED BY <2>1
<1>6. ((q - p) * d + 0) % d = 0
  BY <1>5, Remainder
<1>7. (q - p) * d + 0 = (q - p) * d
  BY <1>5
<1> QED BY <1>4, <1>6, <1>7

\* The place in a list of n entries that is cycled.
LEMMA CycledPlace ==
    ASSUME NEW n \in Nat \ {0}, NEW i \in Nat \ {0}
    PROVE  ((i - 1) % n) + 1 \in 1 .. n /\ i - 1 \in Nat
<1>1. i - 1 \in Nat
  OBVIOUS
<1>2. (i - 1) % n \in 0 .. n - 1
  BY <1>1, Divided
<1> QED BY <1>1, <1>2

\* An injection from one finite set into another.
LEMMA NoLarger ==
    ASSUME NEW S, NEW T, IsFiniteSet(T), NEW f, f \in [S -> T], IsInjective(f)
    PROVE  IsFiniteSet(S) /\ Cardinality(S) <= Cardinality(T)
<1>1. f \in Injection(S, T)
  BY DEF Injection
<1> QED BY <1>1, FS_Injection

\* How often two entries of a cycled list occur: the positions of the one, moved
\* by their distance, are positions of the other.
LEMMA CycleBalanced ==
    ASSUME NEW n \in Nat \ {0}, NEW N \in Nat, NEW a \in 1 .. n, NEW b \in 1 .. n,
           NEW A, A = {i \in 1 .. N : ((i - 1) % n) + 1 = a},
           NEW B, B = {i \in 1 .. N : ((i - 1) % n) + 1 = b}
    PROVE  Cardinality(A) <= Cardinality(B) + 1
<1>0. IsFiniteSet(1 .. N)
  BY UpToFinite
<1>1. IsFiniteSet(A) /\ IsFiniteSet(B) /\ Cardinality(A) \in Nat /\ Cardinality(B) \in Nat
  <2>1. A \in SUBSET (1 .. N) /\ B \in SUBSET (1 .. N)
    OBVIOUS
  <2> QED BY <1>0, <2>1, FS_Subset, FS_CardinalityType
<1>2. ASSUME NEW i \in A
      PROVE  i \in Nat /\ i <= N /\ \E q \in Nat : i = q * n + a
  <2>1. i \in Nat /\ i - 1 \in Nat /\ i <= N /\ (i - 1) % n = a - 1
    <3>1. i \in 1 .. N /\ ((i - 1) % n) + 1 = a
      OBVIOUS
    <3>2. i - 1 \in Nat
      BY <3>1
    <3>3. (i - 1) % n \in Int
      BY <3>2, Divided
    <3> QED BY <3>1, <3>2, <3>3
  <2>2. PICK q \in Nat : i - 1 = q * n + (a - 1)
    BY ONLY ZenonT(90), <2>1, n \in Nat \ {0}, Divided
  <2>3. q * n \in Int
    BY <2>2
  <2>4. i = q * n + a
    BY ONLY <2>1, <2>2, <2>3, a \in 1 .. n
  <2> QED BY <2>1, <2>4
<1>3. ASSUME NEW q \in Nat, NEW j, j = q * n + b, j <= N
      PROVE  j \in B
  <2>1. q * n \in Nat
    OBVIOUS
  <2>2. j \in 1 .. N /\ j - 1 = q * n + (b - 1) /\ b - 1 \in 0 .. n - 1
    BY <1>3, <2>1
  <2>3. (j - 1) % n = b - 1
    BY <2>2, Remainder
  <2>4. ((j - 1) % n) + 1 = b
    BY <2>3
  <2> QED BY <2>2, <2>4
<1>4. CASE b <= a
  <2> DEFINE f == [i \in A |-> i - (a - b)]
  <2>1. \A i \in A : f[i] \in B
    <3>1. TAKE i \in A
    <3>2. PICK q \in Nat : i = q * n + a /\ i <= N /\ i \in Nat
      BY <1>2
    <3>3. q * n \in Nat
      BY <3>2
    <3>4. i - (a - b) = q * n + b /\ i - (a - b) <= N
      BY ONLY <1>4, <3>2, <3>3, a \in 1 .. n, b \in 1 .. n, N \in Nat
    <3> QED BY <1>3, <3>4
  <2>2. IsInjective(f)
    <3>1. \A i, j \in A : i - (a - b) = j - (a - b) => i = j
      BY <1>2
    <3> QED BY <3>1 DEF IsInjective
  <2>3. f \in [A -> B]
    BY <2>1
  <2>4. Cardinality(A) <= Cardinality(B)
    BY <1>1, <2>2, <2>3, NoLarger
  <2> QED BY <1>1, <2>4
<1>5. CASE a < b
  <2> DEFINE C == A \ {a}
             f == [i \in C |-> (i - n) + (b - a)]
  <2>1. \A i \in C : f[i] \in B
    <3>1. TAKE i \in C
    <3>2. PICK q \in Nat : i = q * n + a /\ i <= N /\ i \in Nat
      BY <1>2
    <3>3. q # 0
      BY <3>2
    <3>4. q - 1 \in Nat /\ (q - 1) * n = q * n - n /\ q * n \in Nat
      BY <3>2, <3>3
    <3>5. (i - n) + (b - a) = (q - 1) * n + b /\ (i - n) + (b - a) <= N
      BY ONLY <1>5, <3>2, <3>4, a \in 1 .. n, b \in 1 .. n, n \in Nat, N \in Nat
    <3> QED BY <1>3, <3>4, <3>5
  <2>2. IsInjective(f)
    <3>1. \A i, j \in C : (i - n) + (b - a) = (j - n) + (b - a) => i = j
      BY <1>2
    <3> QED BY <3>1 DEF IsInjective
  <2>3. f \in [C -> B]
    BY <2>1
  <2>4. Cardinality(C) <= Cardinality(B)
    BY <1>1, <2>2, <2>3, NoLarger
  <2>5. Cardinality(C) >= Cardinality(A) - 1 /\ Cardinality(C) \in Nat
    <3>1. IsFiniteSet(C) /\ Cardinality(C) = IF a \in A THEN Cardinality(A) - 1 ELSE Cardinality(A)
      BY ONLY <1>1, FS_RemoveElement
    <3>2. Cardinality(C) \in Nat
      BY ONLY <3>1, FS_CardinalityType
    <3> QED BY ONLY <1>1, <3>1, <3>2
  <2> HIDE DEF C
  <2> QED BY ONLY <1>1, <2>4, <2>5
<1> QED BY <1>4, <1>5

\* The least common multiple of two lengths.
Common(m, n) == {x \in 1 .. m * n : x % m = 0 /\ x % n = 0}

\* It is a common multiple, and no other in range is less.
LEMMA CommonLeast ==
    ASSUME NEW m \in Nat \ {0}, NEW n \in Nat \ {0}, NEW c, c = Min(Common(m, n))
    PROVE  /\ c \in Nat \ {0} /\ c <= m * n /\ c % m = 0 /\ c % n = 0
           /\ \A x \in Common(m, n) : c <= x
<1> DEFINE S == Common(m, n)
<1>1. m * n \in S
  <2>1. m * n \in Nat /\ m * n >= 1
    OBVIOUS
  <2>2. (m * n + 0) % n = 0 /\ (n * m + 0) % m = 0
    BY Remainder
  <2>3. m * n + 0 = m * n /\ n * m + 0 = m * n
    OBVIOUS
  <2> QED BY <2>1, <2>2, <2>3 DEF Common
<1>2. S \subseteq Nat
  BY DEF Common
<1>3. \A x \in S : x \in 1 .. m * n /\ x % m = 0 /\ x % n = 0
  BY DEF Common
<1> HIDE DEF S
<1>4. \E x \in S : \A y \in S : x <= y
  BY <1>1, <1>2, LeastNumber
<1>5. c \in S /\ \A y \in S : c <= y
  BY <1>4 DEF Min, S
<1>6. c \in 1 .. m * n
  BY <1>3, <1>5
<1> QED BY <1>3, <1>5, <1>6 DEF S

\* What repeats in both lists repeats in both together.
LEMMA TogetherRepeats ==
    ASSUME NEW m \in Nat \ {0}, NEW c \in Nat \ {0}, c % m = 0, NEW n \in Nat
    PROVE  (n % c) % m = n % m
<1>1. PICK u \in Nat : c = u * m
  <2>1. PICK u \in Nat : c = u * m + (c % m)
    BY Divided
  <2>2. u * m \in Int
    BY <2>1
  <2> QED BY <2>1, <2>2
<1>2. PICK q \in Nat, s \in Nat : n = q * c + s /\ s = n % c
  <2>1. n % c \in Nat /\ \E q \in Nat : n = q * c + (n % c)
    <3>1. n % c \in 0 .. c - 1 /\ \E q \in Nat : n = q * c + (n % c)
      BY Divided
    <3> QED BY <3>1
  <2> QED BY <2>1
<1>3. q * c = (q * u) * m /\ q * u \in Nat
  BY <1>1, <1>2
<1>4. ((q * u) * m + s) % m = s % m
  BY ZenonT(30), <1>2, <1>3, AddMultiple
<1> QED BY <1>2, <1>3, <1>4

\* How many pairs two cycled lists make.
Paired(ks, ws, N) ==
    [i \in 1 .. N |-> <<ks[((i - 1) % Len(ks)) + 1], ws[((i - 1) % Len(ws)) + 1]>>]

\* Two lists cycled side by side make as many pairs as there are places, until
\* the least common multiple of their lengths is reached.
LEMMA PairsCount ==
    ASSUME NEW ks, ks \in Seq(Range(ks)), ks # <<>>, IsInjective(ks),
           NEW ws, ws \in Seq(Range(ws)), ws # <<>>, IsInjective(ws),
           NEW N \in Nat \ {0},
           NEW c, c = Min(Common(Len(ks), Len(ws)))
    PROVE  Cardinality(Range(Paired(ks, ws, N))) = Min({N, c})
<1>1. PICK m \in Nat \ {0}, n \in Nat \ {0} :
        /\ m = Len(ks) /\ DOMAIN ks = 1 .. m /\ n = Len(ws) /\ DOMAIN ws = 1 .. n
  <2>1. Len(ks) \in Nat \ {0} /\ Len(ws) \in Nat \ {0}
    OBVIOUS
  <2> QED BY <2>1
<1>2. /\ c \in Nat \ {0} /\ c <= m * n /\ c % m = 0 /\ c % n = 0
      /\ \A x \in Common(m, n) : c <= x
  BY <1>1, CommonLeast
<1>3. PICK l : l = Min({N, c}) /\ l \in Nat \ {0} /\ l <= N /\ l <= c /\ (l = N \/ l = c)
  <2>1. Min({N, c}) = IF N < c THEN N ELSE c
    <3>1. \A a, b \in Int : Min({a, b}) = IF a < b THEN a ELSE b
      BY DEF Min
    <3> QED BY <1>2, <3>1
  <2> QED BY <1>2, <2>1
<1> DEFINE T == Range(Paired(ks, ws, N))
           Pair(i) == <<ks[((i - 1) % m) + 1], ws[((i - 1) % n) + 1]>>
           g == [i \in 1 .. l |-> Pair(i)]
<1>4. T = {Pair(i) : i \in 1 .. N}
  <2>1. Paired(ks, ws, N) = [i \in 1 .. N |-> Pair(i)]
    BY ONLY <1>1 DEF Paired
  <2> HIDE DEF Pair
  <2> QED BY ONLY <2>1 DEF Range
<1>5. ASSUME NEW i \in 1 .. l, NEW j \in 1 .. l, i < j, Pair(i) = Pair(j) PROVE FALSE
  <2>1. i - 1 \in Nat /\ j - 1 \in Nat /\ i - 1 < j - 1 /\ (j - 1) - (i - 1) = j - i
    BY <1>3, <1>5
  <2>2. /\ ((i - 1) % m) + 1 \in 1 .. m /\ ((j - 1) % m) + 1 \in 1 .. m
        /\ ((i - 1) % n) + 1 \in 1 .. n /\ ((j - 1) % n) + 1 \in 1 .. n
    BY <1>3, CycledPlace
  <2>3. ((i - 1) % m) + 1 = ((j - 1) % m) + 1 /\ ((i - 1) % n) + 1 = ((j - 1) % n) + 1
    BY <1>1, <1>5, <2>2 DEF IsInjective
  <2>4. (i - 1) % m = (j - 1) % m /\ (i - 1) % n = (j - 1) % n
    <3>1. \A x \in Nat : x % m \in 0 .. m - 1 /\ x % n \in 0 .. n - 1
      BY Divided
    <3>2. PICK v, w, x, y : /\ v = (i - 1) % m /\ w = (j - 1) % m
                            /\ x = (i - 1) % n /\ y = (j - 1) % n
      OBVIOUS
    <3>3. v \in Int /\ w \in Int /\ x \in Int /\ y \in Int
      BY ONLY <2>1, <3>1, <3>2, m \in Nat, n \in Nat
    <3>4. v + 1 = w + 1 /\ x + 1 = y + 1
      BY ONLY <2>3, <3>2
    <3> QED BY ONLY <3>2, <3>3, <3>4
  <2>5. (j - i) % m = 0 /\ (j - i) % n = 0
    <3>1. ((j - 1) - (i - 1)) % m = 0
      BY ONLY <2>1, <2>4, m \in Nat \ {0}, ApartByMultiple
    <3>2. ((j - 1) - (i - 1)) % n = 0
      BY ONLY <2>1, <2>4, n \in Nat \ {0}, ApartByMultiple
    <3> QED BY ONLY <2>1, <3>1, <3>2
  <2>6. j - i \in Nat /\ 1 <= j - i /\ j - i < c /\ j - i <= m * n
    BY SMTT(20), <1>2, <1>3, <1>5
  <2>7. m * n \in Nat
    OBVIOUS
  <2>8. j - i \in Common(m, n)
    BY <2>5, <2>6, <2>7 DEF Common
  <2> QED BY <1>2, <2>6, <2>8
<1>6. ASSUME NEW i \in 1 .. N PROVE \E j \in 1 .. l : Pair(j) = Pair(i)
  <2>1. CASE l = N
    BY <2>1
  <2>2. CASE l = c
    <3>1. i - 1 \in Nat
      OBVIOUS
    <3>2. i - 1 \in Nat /\ (i - 1) % c \in 0 .. c - 1
      BY ONLY <1>2, <3>1, Divided
    <3>3. PICK e \in 0 .. c - 1 : e = (i - 1) % c
      BY ONLY <3>2
    <3>4. PICK j : j = e + 1
      OBVIOUS
    <3>5. j \in 1 .. c /\ j - 1 = e
      BY ONLY <1>2, <3>3, <3>4
    <3>6. j \in 1 .. l /\ j - 1 = (i - 1) % c
      BY ONLY <2>2, <3>3, <3>5
    <3>7. (j - 1) % m = (i - 1) % m /\ (j - 1) % n = (i - 1) % n
      <4>1. ((i - 1) % c) % m = (i - 1) % m
        BY ONLY <1>2, <3>2, m \in Nat \ {0}, TogetherRepeats
      <4>2. ((i - 1) % c) % n = (i - 1) % n
        BY ONLY <1>2, <3>2, n \in Nat \ {0}, TogetherRepeats
      <4> QED BY ONLY <3>6, <4>1, <4>2
    <3>8. Pair(j) = Pair(i)
      BY <3>7
    <3> QED BY <3>6, <3>8
  <2> QED BY <1>3, <2>1, <2>2
<1> HIDE DEF T
<1>7. ASSUME NEW i \in 1 .. l PROVE Pair(i) \in T
  <2>1. i \in 1 .. N
    BY <1>3
  <2> HIDE DEF Pair
  <2> QED BY <1>4, <2>1
<1> HIDE DEF Pair
<1>8. g \in [1 .. l -> T]
  BY <1>7
<1>9. IsInjective(g)
  <2>1. \A i, j \in 1 .. l : Pair(i) = Pair(j) => i = j
    <3>1. \A i, j \in 1 .. l : i = j \/ i < j \/ j < i
      BY <1>3
    <3> QED BY <1>5, <3>1
  <2> QED BY <2>1 DEF IsInjective
<1>10. \A t \in T : \E i \in 1 .. l : g[i] = t
  BY <1>4, <1>6
<1> HIDE DEF g
<1>11. ExistsBijection(1 .. l, T)
  BY <1>8, <1>9, <1>10 DEF ExistsBijection, Bijection, Injection, Surjection
<1>12. IsFiniteSet(1 .. l) /\ Cardinality(1 .. l) = l
  BY <1>3, UpToFinite
<1> QED BY <1>3, <1>11, <1>12, FS_Bijection DEF T

\* What is generated is balanced, for every seed and count.
LEMMA AlwaysBalanced == GenerationBalanced
<1> SUFFICES ASSUME NEW seed \in DOMAIN Words, NEW count \in 1 .. MaxCount
             PROVE  LET order == [name |-> "synth", version |-> "v1", count |-> count, seed |-> seed]
                        cases == Generate(order).cases
                        Of(kind) == {i \in DOMAIN cases : cases[i].kind = kind}
                        tasks == {<<c.kind, c.word>> : c \in Range(cases)}
                        cycle == Min({n \in 1 .. Len(Kinds) * Len(Words[seed]) :
                                        n % Len(Kinds) = 0 /\ n % Len(Words[seed]) = 0})
                    IN /\ \A k, l \in Range(Kinds) : Cardinality(Of(k)) <= Cardinality(Of(l)) + 1
                       /\ IsInjective([i \in DOMAIN cases |-> <<cases[i].kind, cases[i].number>>])
                       /\ Cardinality(tasks) = Min({count, cycle})
  BY Zenon DEF GenerationBalanced
<1> DEFINE order == [name |-> "synth", version |-> "v1", count |-> count, seed |-> seed]
           cases == Generate(order).cases
           tasks == {<<c.kind, c.word>> : c \in Range(cases)}
           cycle == Min(Common(Len(Kinds), Len(Words[seed])))
<1>1. PICK ws : ws = Words[seed]
  OBVIOUS
<1>2. /\ Kinds \in Seq(Range(Kinds)) /\ Kinds # <<>> /\ IsInjective(Kinds)
      /\ ws \in Seq(Range(ws)) /\ ws # <<>> /\ IsInjective(ws)
      /\ count \in Nat \ {0}
  BY <1>1, CatalogueAssumption
<1>3. PICK n \in Nat \ {0} : n = Len(Kinds) /\ DOMAIN Kinds = 1 .. n
  BY <1>2
<1>4. /\ DOMAIN cases = 1 .. count
      /\ \A i \in 1 .. count :
            /\ cases[i].kind = Kinds[((i - 1) % Len(Kinds)) + 1]
            /\ cases[i].word = ws[((i - 1) % Len(ws)) + 1]
            /\ cases[i].number = i
  BY <1>1 DEF Generate, Case
<1> HIDE DEF order, cases
<1>5. ASSUME NEW k \in Range(Kinds), NEW l \in Range(Kinds)
      PROVE  Cardinality({i \in DOMAIN cases : cases[i].kind = k})
                <= Cardinality({i \in DOMAIN cases : cases[i].kind = l}) + 1
  <2>1. PICK a \in 1 .. n, b \in 1 .. n : k = Kinds[a] /\ l = Kinds[b]
    BY <1>3 DEF Range
  <2>2. \A i \in 1 .. count : ((i - 1) % n) + 1 \in 1 .. n
    <3>1. TAKE i \in 1 .. count
    <3>2. i \in Nat \ {0}
      BY <1>2
    <3> QED BY ONLY <3>2, n \in Nat \ {0}, CycledPlace
  <2> DEFINE A == {i \in 1 .. count : ((i - 1) % n) + 1 = a}
             B == {i \in 1 .. count : ((i - 1) % n) + 1 = b}
  <2>3. {i \in DOMAIN cases : cases[i].kind = k} = A /\ {i \in DOMAIN cases : cases[i].kind = l} = B
    <3>1. ASSUME NEW i \in 1 .. count
          PROVE  /\ cases[i].kind = k <=> ((i - 1) % n) + 1 = a
                 /\ cases[i].kind = l <=> ((i - 1) % n) + 1 = b
      <4>1. PICK x : x = ((i - 1) % n) + 1 /\ x \in 1 .. n /\ cases[i].kind = Kinds[x]
        BY <1>3, <1>4, <2>2
      <4>2. Kinds[x] = Kinds[a] <=> x = a
        BY <1>2, <1>3, <4>1 DEF IsInjective
      <4>3. Kinds[x] = Kinds[b] <=> x = b
        BY <1>2, <1>3, <4>1 DEF IsInjective
      <4> QED BY ONLY <2>1, <4>1, <4>2, <4>3
    <3> QED BY <1>4, <3>1
  <2>4. Cardinality(A) <= Cardinality(B) + 1
    <3>1. count \in Nat
      BY <1>2
    <3> QED BY ONLY ZenonT(90), <3>1, n \in Nat \ {0}, a \in 1 .. n, b \in 1 .. n, CycleBalanced
  <2> QED BY <2>3, <2>4
<1>6. IsInjective([i \in DOMAIN cases |-> <<cases[i].kind, cases[i].number>>])
  <2>1. \A i, j \in DOMAIN cases :
            <<cases[i].kind, cases[i].number>> = <<cases[j].kind, cases[j].number>> => i = j
    BY <1>4
  <2> QED BY ONLY <2>1 DEF IsInjective
<1>7. Cardinality(tasks) = Min({count, cycle})
  <2>1. tasks = Range(Paired(Kinds, ws, count))
    <3>1. Range(cases) = {cases[i] : i \in 1 .. count}
      BY <1>4 DEF Range
    <3>2. \A i \in 1 .. count : Paired(Kinds, ws, count)[i] = <<cases[i].kind, cases[i].word>>
      BY <1>4 DEF Paired
    <3>3. DOMAIN Paired(Kinds, ws, count) = 1 .. count
      BY DEF Paired
    <3> DEFINE p == Paired(Kinds, ws, count)
    <3>4. Range(p) = {p[i] : i \in 1 .. count}
      BY ONLY <3>3 DEF Range
    <3>5. tasks = {<<cases[i].kind, cases[i].word>> : i \in 1 .. count}
      BY ONLY <3>1
    <3> HIDE DEF p, tasks
    <3>6. \A i \in 1 .. count : p[i] = <<cases[i].kind, cases[i].word>>
      BY ONLY <3>2 DEF p
    <3>7. Range(p) = tasks
      BY ONLY <3>4, <3>5, <3>6
    <3> QED BY ONLY <3>7 DEF p
  <2>2. cycle = Min(Common(Len(Kinds), Len(ws)))
    BY <1>1
  <2> HIDE DEF tasks, cycle
  <2>3. Cardinality(Range(Paired(Kinds, ws, count))) = Min({count, cycle})
    BY ONLY <1>2, <2>2, PairsCount
  <2> QED BY <2>1, <2>3
<1>8. cycle = Min({x \in 1 .. Len(Kinds) * Len(Words[seed]) :
                    x % Len(Kinds) = 0 /\ x % Len(Words[seed]) = 0})
  BY Zenon DEF Common
<1> HIDE DEF cycle
<1> QED BY <1>5, <1>6, <1>7, <1>8 DEF cases, order
-----------------------------------------------------------------------------
USE CatalogueAssumption

\* A function on the first numbers is a sequence.
LEMMA SequenceByRange ==
    ASSUME NEW n \in Nat, NEW s, DOMAIN s = 1 .. n, s = [i \in 1 .. n |-> s[i]]
    PROVE  s \in Seq(Range(s)) /\ Len(s) = n
<1> DEFINE R == Range(s)
<1>1. \A i \in 1 .. n : s[i] \in R
  BY DEF Range
<1> HIDE DEF R
<1>2. s \in [1 .. n -> R]
  BY <1>1
<1>3. s \in Seq(R) /\ Len(s) = n
  BY <1>2
<1> QED BY <1>3 DEF R

\* The halves of a line, counted.
LEMMA Halves ==
    ASSUME NEW i \in Int
    PROVE  (2 * i + 1) \div 2 = i /\ 2 - ((2 * i) % 2) = 2 /\ (2 * i) \div 2 = i
OBVIOUS

\* What a file of lines looks like, and what is read back from it.
LEMMA LinesRead ==
    ASSUME NEW xs, xs \in Seq(Range(xs))
    PROVE  /\ Lines(xs) \in Seq(Range(Lines(xs)))
           /\ Len(Lines(xs)) = 2 * Len(xs)
           /\ DOMAIN Lines(xs) = 1 .. 2 * Len(xs)
           /\ Parsed(Lines(xs)) = xs
           /\ \A i \in 1 .. Len(xs) : Lines(xs)[2 * i] = [of |-> xs[i], half |-> 2]
<1> DEFINE n == Len(xs)
           t == Lines(xs)
<1>1. n \in Nat /\ n \in Int /\ 2 * n \in Nat /\ xs = [i \in 1 .. n |-> xs[i]]
  OBVIOUS
<1>2. t = [i \in 1 .. 2 * n |-> [of |-> xs[(i + 1) \div 2], half |-> 2 - (i % 2)]]
  BY DEF Lines
<1>3. Parsed(t) = [i \in 1 .. Len(t) \div 2 |-> t[2 * i].of]
  BY DEF Parsed
<1> HIDE DEF n, t
<1>4. t \in Seq(Range(t)) /\ Len(t) = 2 * n /\ DOMAIN t = 1 .. 2 * n
  <2>1. DOMAIN t = 1 .. 2 * n /\ t = [i \in 1 .. 2 * n |-> t[i]]
    BY ONLY <1>2
  <2> QED BY ONLY <1>1, <2>1, SequenceByRange
<1>5. \A i \in 1 .. n : t[2 * i] = [of |-> xs[i], half |-> 2]
  <2>1. TAKE i \in 1 .. n
  <2>2. 2 * i \in 1 .. 2 * n /\ i \in Int
    BY <1>1
  <2>3. t[2 * i] = [of |-> xs[(2 * i + 1) \div 2], half |-> 2 - ((2 * i) % 2)]
    BY <1>2, <2>2
  <2> QED BY <2>2, <2>3, Halves
<1>6. Parsed(t) = xs
  <2>1. (2 * n) \div 2 = n
    BY <1>1, Halves
  <2>2. \A i \in 1 .. n : t[2 * i].of = xs[i]
    <3>1. TAKE i \in 1 .. n
    <3>2. t[2 * i] = [of |-> xs[i], half |-> 2]
      BY ONLY <1>5, <3>1, Zenon
    <3> QED BY ONLY <3>2
  <2> QED BY ONLY <1>1, <1>3, <1>4, <2>1, <2>2
<1> QED BY <1>4, <1>5, <1>6 DEF n, t

\* What can be read from a file whose text parses: its first line.
LEMMA ParsedFirst ==
    ASSUME NEW text, text \in Seq(Range(text)), Parses(text)
    PROVE  /\ 2 \in DOMAIN text /\ text[2] # Hole
           /\ Parsed(text) \in Seq(Range(Parsed(text)))
           /\ Len(Parsed(text)) \in Nat \ {0}
           /\ Head(Parsed(text)) = text[2].of
<1> DEFINE xs == Parsed(text)
           n == Len(text) \div 2
<1>1. text # <<>> /\ text = Lines(xs) /\ Len(text) \in Nat /\ DOMAIN text = 1 .. Len(text)
  BY DEF Parses
<1>2. n \in Nat
  BY <1>1
<1>3. xs = [i \in 1 .. n |-> text[2 * i].of]
  BY DEF Parsed
<1> HIDE DEF n
<1>4. xs \in Seq(Range(xs)) /\ Len(xs) = n
  <2>1. DOMAIN xs = 1 .. n /\ xs = [i \in 1 .. n |-> xs[i]]
    BY ONLY <1>3
  <2> QED BY ONLY <1>2, <2>1, SequenceByRange
<1>5. Len(text) = 2 * n
  BY <1>1, <1>4, LinesRead
<1>6. Len(text) # 0
  BY <1>1
<1>7. n \in Nat \ {0}
  BY <1>2, <1>5, <1>6
<1>8. 1 \in 1 .. n /\ xs[1] = text[2 * 1].of /\ 2 * 1 = 2 /\ 2 \in DOMAIN text
  <2>1. 1 \in 1 .. n /\ 2 * 1 = 2 /\ 2 \in 1 .. 2 * n
    BY <1>7
  <2>2. xs[1] = text[2 * 1].of
    BY ONLY <1>3, <2>1
  <2>3. 2 \in DOMAIN text
    BY ONLY <1>1, <1>5, <2>1
  <2> QED BY <2>1, <2>2, <2>3
<1>9. Head(xs) = xs[1]
  BY <1>4, <1>7
<1>10. text[2].half = 2
  <2>1. Lines(xs)[2 * 1] = [of |-> xs[1], half |-> 2]
    BY <1>4, <1>8, LinesRead
  <2> QED BY <1>1, <1>8, <2>1
<1>11. text[2] # Hole
  BY <1>10 DEF Hole
<1> QED BY <1>4, <1>7, <1>8, <1>9, <1>11

\* What was written as lines reads as lines.
LEMMA LinesParse ==
    ASSUME NEW xs, xs \in Seq(Range(xs)), xs # <<>>
    PROVE  Parses(Lines(xs)) /\ Parsed(Lines(xs)) = xs
<1>1. Len(Lines(xs)) = 2 * Len(xs) /\ Parsed(Lines(xs)) = xs /\ Len(xs) \in Nat /\ Len(xs) # 0
  BY LinesRead
<1>2. Lines(xs) # <<>>
  <2>1. 2 * Len(xs) # 0
    BY <1>1
  <2>2. Len(<<>>) = 0
    OBVIOUS
  <2> QED BY <1>1, <2>1, <2>2
<1> QED BY <1>1, <1>2 DEF Parses

\* A block put into a file.
LEMMA PutBlock ==
    ASSUME NEW text, text \in Seq(Range(text)), NEW at \in Nat, at # 0, NEW block,
           NEW p, p = Put(text, at, block)
    PROVE  /\ p \in Seq(Range(p)) /\ at \in DOMAIN p /\ p[at] = block
           /\ DOMAIN text \subseteq DOMAIN p
           /\ Len(p) = IF Len(text) < at THEN at ELSE Len(text)
           /\ \A i \in DOMAIN p : i # at => p[i] = IF i \in DOMAIN text THEN text[i] ELSE Hole
<1> DEFINE n == IF Len(text) < at THEN at ELSE Len(text)
<1>1. Len(text) \in Nat /\ DOMAIN text = 1 .. Len(text) /\ n \in Nat
  OBVIOUS
<1>2. Max({Len(text), at}) = n
  BY ONLY SMTT(20), <1>1, at \in Nat, OfTwo DEF n
<1>3. at \in 1 .. n /\ 1 .. Len(text) \subseteq 1 .. n
  BY <1>1
<1>4. p = [i \in 1 .. n |-> IF i = at THEN block ELSE IF i \in DOMAIN text THEN text[i] ELSE Hole]
  BY <1>2 DEF Put
<1> HIDE DEF n
<1>5. DOMAIN p = 1 .. n /\ p = [i \in 1 .. n |-> p[i]]
  BY ONLY <1>4
<1>6. p \in Seq(Range(p)) /\ Len(p) = n
  BY ONLY <1>1, <1>5, SequenceByRange
<1> QED BY <1>1, <1>3, <1>4, <1>5, <1>6 DEF n

-----------------------------------------------------------------------------
\* A dataset that can be written: it has its fields, and cases.
Whole(d) ==
    /\ d = [name |-> d.name, version |-> d.version, description |-> d.description,
            cases |-> d.cases]
    /\ d.cases \in Seq(Range(d.cases)) /\ d.cases # <<>>

\* build_synthetic_dataset makes a dataset that can be written.
LEMMA GeneratedWhole ==
    ASSUME NEW order \in Orders, ~(order.count < 1)
    PROVE  Whole(Generate(order))
<1> DEFINE n == order.count
           cs == [i \in 1 .. n |-> Case(order, i)]
           d == Generate(order)
<1>1. n \in Nat /\ n # 0
  BY CatalogueAssumption
<1>2. d = [name |-> order.name, version |-> order.version,
           description |-> <<order.count, order.seed>>, cases |-> cs]
  BY DEF Generate
<1>3. DOMAIN cs = 1 .. n /\ cs = [i \in 1 .. n |-> cs[i]]
  OBVIOUS
<1> HIDE DEF n, cs, d
<1>4. cs \in Seq(Range(cs)) /\ Len(cs) = n
  BY ONLY <1>1, <1>3, SequenceByRange
<1>5. cs # <<>>
  BY ONLY <1>1, <1>4, Len(<<>>) = 0
<1>6. d.cases = cs
  BY <1>2
<1>7. d = [name |-> d.name, version |-> d.version, description |-> d.description,
           cases |-> d.cases]
  BY ONLY <1>2
<1>8. Whole(d)
  BY ONLY <1>4, <1>5, <1>6, <1>7 DEF Whole
<1> QED BY <1>8 DEF d

\* The two texts of a dataset.
LEMMA Texts ==
    ASSUME NEW d, Whole(d)
    PROVE  /\ \A f \in {"cases", "manifest"} :
                /\ Text(d, f) \in Seq(Range(Text(d, f)))
                /\ Len(Text(d, f)) \in Nat \ {0}
                /\ DOMAIN Text(d, f) = 1 .. Len(Text(d, f))
                /\ Parses(Text(d, f))
           /\ Len(Text(d, "manifest")) = 2
           /\ Parsed(Text(d, "cases")) = d.cases
           /\ Head(Parsed(Text(d, "manifest"))) = Manifest(d)
           /\ \A i \in 1 .. 2 : Text(d, "manifest")[i].of = Manifest(d)
<1> DEFINE m == Manifest(d)
           ms == <<m>>
           cs == d.cases
<1>1. cs \in Seq(Range(cs)) /\ cs # <<>>
  BY DEF Whole
<1>2. DOMAIN ms = 1 .. 1 /\ ms = [i \in 1 .. 1 |-> ms[i]] /\ ms[1] = m /\ Head(ms) = m
  OBVIOUS
<1>3. Text(d, "cases") = Lines(cs) /\ Text(d, "manifest") = Lines(ms)
  BY DEF Text
<1> HIDE DEF m, ms, cs
<1>4. ms \in Seq(Range(ms)) /\ Len(ms) = 1
  BY ONLY <1>2, SequenceByRange
<1>5. ms # <<>>
  BY ONLY <1>2, DOMAIN <<>> = {}, 1 \in 1 .. 1
<1>6. /\ Lines(ms) \in Seq(Range(Lines(ms))) /\ Len(Lines(ms)) = 2
      /\ DOMAIN Lines(ms) = 1 .. 2 /\ Parses(Lines(ms)) /\ Parsed(Lines(ms)) = ms
  <2>1. 2 * 1 = 2
    OBVIOUS
  <2> QED BY ONLY <1>4, <1>5, <2>1, LinesRead, LinesParse
<1>7. /\ Lines(cs) \in Seq(Range(Lines(cs))) /\ Len(Lines(cs)) = 2 * Len(cs)
      /\ DOMAIN Lines(cs) = 1 .. 2 * Len(cs) /\ Parses(Lines(cs)) /\ Parsed(Lines(cs)) = cs
  BY ONLY <1>1, LinesRead, LinesParse
<1>8. 2 * Len(cs) \in Nat \ {0}
  <2>1. Len(cs) \in Nat /\ Len(cs) # 0
    BY ONLY <1>1
  <2> QED BY ONLY <2>1
<1>9. \A i \in 1 .. 2 : Lines(ms)[i].of = m
  <2>1. TAKE i \in 1 .. 2
  <2>2. (i + 1) \div 2 = 1 /\ i \in 1 .. 2 * Len(ms)
    BY <1>4
  <2> QED BY ONLY <1>2, <2>2 DEF Lines
<1>10. Parsed(Text(d, "cases")) = d.cases /\ Parsed(Text(d, "manifest")) = ms
  BY <1>3, <1>6, <1>7 DEF cs
<1> QED BY <1>2, <1>3, <1>6, <1>7, <1>8, <1>9, <1>10 DEF m

-----------------------------------------------------------------------------
\* Where a builder stands, and what a reader ends with.
Phases == {"idle", "refused", "generated", "cases", "manifest", "done", "stopped"}
Answers == {"accepted", "drift", "error"}

\* The directory and those who write it.
FilesTyped ==
    /\ DOMAIN dir \subseteq {"cases", "manifest"}
    /\ \A f \in DOMAIN dir : dir[f] \in Seq(Range(dir[f]))
    /\ built \in Seq(Range(built))
    /\ spoiled \in BOOLEAN
    /\ builder = [b \in Builders |-> builder[b]]
    /\ \A b \in Builders :
        /\ DOMAIN builder[b] = {"pc", "dataset", "at"}
        /\ builder[b].pc \in Phases /\ builder[b].at \in Nat

\* What is written is whole, and known to have been begun; a writer has opened
\* its file and stays within the text.
WritersKnown ==
    /\ \A d \in Range(built) : Whole(d)
    /\ \A b \in Builders :
        /\ builder[b].pc = "generated" => Whole(builder[b].dataset)
        /\ builder[b].pc \in {"cases", "manifest"} =>
            /\ builder[b].dataset \in Range(built)
            /\ builder[b].pc \in DOMAIN dir
            /\ builder[b].at <= Len(Text(builder[b].dataset, builder[b].pc))

\* Whatever happens to the manifest, its hash is one of a dataset that was built.
Telling(m) == {"version", "hash"} \subseteq DOMAIN m /\ m.hash \in Range(built)
\* A manifest has no more blocks than one line, and each tells a hash and a version.
ManifestTells ==
    "manifest" \in DOMAIN dir =>
        /\ Len(dir["manifest"]) <= 2
        /\ \A i \in DOMAIN dir["manifest"] :
            dir["manifest"][i] # Hole => Telling(dir["manifest"][i].of)

\* Before the first build there is no file.
NothingYet == built = <<>> => DOMAIN dir = {} /\ Writing = {} /\ ~spoiled

\* A block is there, or somebody has still to write it.
Right(f, i) == f \in DOMAIN dir /\ i \in DOMAIN dir[f] /\ dir[f][i] = Text(Last(built), f)[i]
Due(f, i) == \E b \in Builders : builder[b].pc = f /\ builder[b].at < i
Comes(f, i) == Right(f, i) \/ Due(f, i)

\* Until something is spoiled, all who write write the same, and every block of
\* it is there or comes; a manifest opened earlier counts for nothing as long as
\* the cases are being written.
LastBuildComes ==
    ~spoiled /\ built # <<>> =>
        /\ \A b \in Writing : builder[b].dataset = Last(built)
        /\ "cases" \in DOMAIN dir
        /\ Len(dir["cases"]) <= Len(Text(Last(built), "cases"))
        /\ \A i \in DOMAIN Text(Last(built), "cases") : Comes("cases", i)
        /\ \/ \E b \in Builders : builder[b].pc = "cases"
           \/ \A i \in 1 .. 2 : Comes("manifest", i)

\* The invariant of those who write.
FileSide == FilesTyped /\ WritersKnown /\ ManifestTells /\ NothingYet /\ LastBuildComes

\* Generating in memory, or refusing, touches no file.
LEMMA StartBuildFiles ==
    ASSUME FileSide, NEW b \in Builders, NEW order \in Orders, NEW force \in BOOLEAN,
           StartBuild(b, order, force)
    PROVE  FileSide' /\ Writing' = Writing
<1> DEFINE new == IF ("cases" \in DOMAIN dir /\ ~force) \/ order.count < 1 THEN Standing("refused")
                  ELSE [pc |-> "generated", dataset |-> Generate(order), at |-> 0]
<1>1. /\ builder[b].pc = "idle" /\ builder' = [builder EXCEPT ![b] = new]
      /\ UNCHANGED <<dir, built, spoiled>>
  BY DEF StartBuild
<1>2. /\ DOMAIN new = {"pc", "dataset", "at"} /\ new.pc \in {"refused", "generated"} /\ new.at = 0
      /\ new.pc = "generated" => Whole(new.dataset)
  BY GeneratedWhole DEF Standing
<1> HIDE DEF new
<1>3. builder = [c \in Builders |-> builder[c]]
  BY DEF FileSide, FilesTyped
<1>4. /\ builder'[b] = new
      /\ \A c \in Builders : c # b => builder'[c] = builder[c]
      /\ builder' = [c \in Builders |-> builder'[c]]
  BY ONLY <1>1, <1>3
<1>5. FilesTyped'
  BY <1>1, <1>2, <1>4 DEF FileSide, FilesTyped, Phases
<1>6. Writing' = Writing
  BY <1>1, <1>2, <1>4 DEF Writing
<1>7. WritersKnown'
  BY <1>1, <1>2, <1>4 DEF FileSide, WritersKnown
<1>8. ManifestTells' /\ NothingYet'
  BY <1>1, <1>6 DEF FileSide, ManifestTells, NothingYet, Telling
<1>9. ASSUME NEW f \in {"cases", "manifest"}, NEW i PROVE Comes(f, i)' = Comes(f, i)
  BY <1>1, <1>2, <1>4 DEF Comes, Right, Due
<1>10. (\E c \in Builders : builder'[c].pc = "cases") <=> (\E c \in Builders : builder[c].pc = "cases")
  BY <1>1, <1>2, <1>4
<1>11. \A c \in Writing : builder'[c] = builder[c]
  BY <1>1, <1>4 DEF Writing
<1>12. LastBuildComes'
  BY <1>1, <1>6, <1>9, <1>10, <1>11 DEF FileSide, LastBuildComes
<1> QED BY <1>5, <1>6, <1>7, <1>8, <1>12 DEF FileSide

\* A sequence and one more.
LEMMA OneMore ==
    ASSUME NEW s, s \in Seq(Range(s)), NEW d, NEW t, t = Append(s, d)
    PROVE  /\ t \in Seq(Range(t)) /\ Range(t) = Range(s) \cup {d}
           /\ t # <<>> /\ Last(t) = d
<1> DEFINE n == Len(s)
           R == Range(s) \cup {d}
<1>1. n \in Nat /\ DOMAIN s = 1 .. n /\ s \in Seq(R)
  <2>1. n \in Nat /\ DOMAIN s = 1 .. n /\ s = [i \in 1 .. n |-> s[i]]
    OBVIOUS
  <2>2. \A i \in 1 .. n : s[i] \in R
    BY <2>1 DEF Range
  <2> QED BY <2>1, <2>2
<1>2. d \in R
  OBVIOUS
<1> HIDE DEF n, R
<1>3. /\ Append(s, d) \in Seq(R) /\ Len(Append(s, d)) = n + 1
      /\ \A i \in 1 .. n : Append(s, d)[i] = s[i]
      /\ Append(s, d)[n + 1] = d
  BY ONLY <1>1, <1>2, AppendProperties DEF n
<1>4. /\ DOMAIN t = 1 .. n + 1 /\ Len(t) = n + 1
      /\ t[n + 1] = d /\ \A i \in 1 .. n : t[i] = s[i]
      /\ t = [i \in 1 .. n + 1 |-> t[i]]
  <2>1. t \in Seq(R) /\ Len(t) = n + 1
    BY ONLY <1>3, t = Append(s, d)
  <2>2. DOMAIN t = 1 .. n + 1 /\ t = [i \in 1 .. n + 1 |-> t[i]]
    BY ONLY <2>1
  <2> QED BY ONLY <1>3, <2>1, <2>2, t = Append(s, d)
<1>5. t \in Seq(Range(t))
  <2>1. n + 1 \in Nat
    BY <1>1
  <2> QED BY ONLY <1>4, <2>1, SequenceByRange
<1>6. Range(t) = Range(s) \cup {d}
  <2>1. \A i \in 1 .. n + 1 : i = n + 1 \/ i \in 1 .. n
    BY <1>1
  <2>2. 1 .. n \subseteq 1 .. n + 1 /\ n + 1 \in 1 .. n + 1
    BY <1>1
  <2> QED BY ONLY <1>1, <1>4, <2>1, <2>2 DEF Range
<1>7. t # <<>>
  BY ONLY <1>1, <1>4, Len(<<>>) = 0
<1> QED BY <1>4, <1>5, <1>6, <1>7 DEF Last

\* What a change of a file leaves of the directory.
LEMMA DirNext ==
    ASSUME NEW f \in {"cases", "manifest"}, NEW text, Change(f, text)
    PROVE  /\ DOMAIN dir' = DOMAIN dir \cup {f} /\ dir'[f] = text
           /\ \A g \in DOMAIN dir : g # f => dir'[g] = dir[g]
BY Zenon DEF Change

\* Opening cases.jsonl truncates it; all of the new text is due.
LEMMA OpenCasesFiles ==
    ASSUME FileSide, NEW b \in Builders, OpenCases(b)
    PROVE  FileSide' /\ Range(built) \subseteq Range(built')
<1> DEFINE d == builder[b].dataset
           new == [builder[b] EXCEPT !.pc = "cases", !.at = 0]
<1>1. /\ builder[b].pc = "generated" /\ builder' = [builder EXCEPT ![b] = new]
      /\ built' = Append(built, d)
      /\ spoiled' = IF Writing = {} THEN FALSE
                    ELSE spoiled \/ \E c \in Writing : builder[c].dataset # d
  BY DEF OpenCases, FileSide, FilesTyped
<1>2. /\ DOMAIN dir' = DOMAIN dir \cup {"cases"} /\ dir'["cases"] = <<>>
      /\ \A g \in DOMAIN dir : g # "cases" => dir'[g] = dir[g]
  BY DirNext DEF OpenCases
<1>3. DOMAIN new = {"pc", "dataset", "at"} /\ new.pc = "cases" /\ new.at = 0 /\ new.dataset = d
  BY DEF FileSide, FilesTyped
<1>4. Whole(d)
  BY <1>1 DEF FileSide, WritersKnown
<1>0. builder = [c \in Builders |-> builder[c]]
  BY DEF FileSide, FilesTyped
<1> HIDE DEF new, d
<1>5. /\ builder'[b] = new
      /\ \A c \in Builders : c # b => builder'[c] = builder[c]
      /\ builder' = [c \in Builders |-> builder'[c]]
  BY ONLY <1>0, <1>1
<1>6. /\ built' \in Seq(Range(built')) /\ Range(built') = Range(built) \cup {d}
      /\ built' # <<>> /\ Last(built') = d
  BY <1>1, OneMore DEF FileSide, FilesTyped
<1>7. Text(d, "cases") \in Seq(Range(Text(d, "cases"))) /\ Len(Text(d, "cases")) \in Nat \ {0}
      /\ DOMAIN Text(d, "cases") = 1 .. Len(Text(d, "cases"))
  BY <1>4, Texts
<1>8. Len(<<>>) = 0 /\ <<>> \in Seq(Range(<<>>))
  <2>1. DOMAIN <<>> = 1 .. 0 /\ <<>> = [i \in 1 .. 0 |-> <<>>[i]]
    OBVIOUS
  <2> QED BY <2>1, SequenceByRange
<1>9. FilesTyped'
  <2>1. \A f \in DOMAIN dir' : dir'[f] \in Seq(Range(dir'[f]))
    BY <1>2, <1>8 DEF FileSide, FilesTyped
  <2>2. spoiled' \in BOOLEAN
    BY <1>1 DEF FileSide, FilesTyped
  <2> QED BY SMTT(20), <1>2, <1>3, <1>5, <1>6, <2>1, <2>2 DEF FileSide, FilesTyped, Phases
<1>10. WritersKnown'
  <2>1. ASSUME NEW c \in Builders, builder'[c].pc \in {"cases", "manifest"}
        PROVE  /\ builder'[c].dataset \in Range(built')
               /\ builder'[c].pc \in DOMAIN dir'
               /\ builder'[c].at <= Len(Text(builder'[c].dataset, builder'[c].pc))
    <3>1. CASE c = b
      BY <1>2, <1>3, <1>5, <1>6, <1>7, <3>1
    <3>2. CASE c # b
      BY <1>2, <1>5, <1>6, <2>1, <3>2 DEF FileSide, WritersKnown
    <3> QED BY <3>1, <3>2
  <2>2. \A e \in Range(built') : Whole(e)
    BY <1>4, <1>6 DEF FileSide, WritersKnown
  <2>3. \A c \in Builders : builder'[c].pc = "generated" => Whole(builder'[c].dataset)
    BY <1>3, <1>5 DEF FileSide, WritersKnown
  <2> QED BY <2>1, <2>2, <2>3 DEF WritersKnown
<1>11. ManifestTells'
  BY <1>2, <1>6 DEF FileSide, ManifestTells, Telling
<1>12. NothingYet'
  BY <1>6 DEF NothingYet
<1>13. ASSUME ~spoiled' PROVE \A c \in Writing' : builder'[c].dataset = d
  <2>1. \A c \in Writing : builder[c].dataset = d
    BY <1>1, <1>13
  <2>2. \A c \in Writing' : c = b \/ c \in Writing
    BY <1>5 DEF Writing
  <2> QED BY <1>3, <1>5, <2>1, <2>2 DEF Writing
<1>14. \A i \in 1 .. Len(Text(d, "cases")) : Due("cases", i)'
  BY <1>3, <1>5 DEF Due
<1>15. LastBuildComes'
  BY SMTT(30), <1>2, <1>3, <1>5, <1>6, <1>7, <1>8, <1>13, <1>14 DEF LastBuildComes, Comes
<1> QED BY <1>6, <1>9, <1>10, <1>11, <1>12, <1>15 DEF FileSide

\* A block that is written is right, or what is there is spoiled already.
LEMMA WriteOnFiles ==
    ASSUME FileSide, NEW b \in Builders, WriteOn(b)
    PROVE  FileSide' /\ Range(built) = Range(built') /\ Writing # {}
<1>0. PICK f, d, text, at, p :
        /\ f = builder[b].pc /\ d = builder[b].dataset /\ text = Text(d, f)
        /\ at = builder[b].at + 1 /\ p = Put(dir[f], at, text[at])
  OBVIOUS
<1> DEFINE new == IF f = "manifest" /\ at = Len(text) THEN Standing("done")
                  ELSE [builder[b] EXCEPT !.at = at]
<1>1. /\ b \in Writing /\ at \in DOMAIN text /\ Change(f, p)
      /\ builder' = [builder EXCEPT ![b] = new] /\ UNCHANGED <<built, spoiled>>
  BY <1>0 DEF WriteOn
<1>2. /\ f \in {"cases", "manifest"} /\ d \in Range(built) /\ Whole(d) /\ f \in DOMAIN dir
      /\ dir[f] \in Seq(Range(dir[f])) /\ builder[b].at \in Nat
      /\ DOMAIN builder[b] = {"pc", "dataset", "at"}
      /\ builder = [c \in Builders |-> builder[c]]
  BY <1>0, <1>1 DEF Writing, FileSide, FilesTyped, WritersKnown
<1>3. /\ Len(text) \in Nat /\ DOMAIN text = 1 .. Len(text) /\ at \in Nat /\ at # 0 /\ at <= Len(text)
      /\ f = "manifest" => Len(text) = 2 /\ text[at].of = Manifest(d)
  <2>1. Len(text) \in Nat /\ DOMAIN text = 1 .. Len(text)
    BY <1>0, <1>2, Texts
  <2>2. at \in Nat /\ at # 0 /\ at <= Len(text)
    BY <1>0, <1>1, <1>2, <2>1
  <2>3. ASSUME f = "manifest" PROVE Len(text) = 2 /\ text[at].of = Manifest(d)
    <3>1. Len(text) = 2 /\ \A i \in 1 .. 2 : text[i].of = Manifest(d)
      BY <1>0, <1>2, <2>3, Texts
    <3> QED BY <2>1, <2>2, <3>1
  <2> QED BY <2>1, <2>2, <2>3
<1>4. /\ p \in Seq(Range(p)) /\ at \in DOMAIN p /\ p[at] = text[at]
      /\ DOMAIN dir[f] \subseteq DOMAIN p
      /\ Len(p) = IF Len(dir[f]) < at THEN at ELSE Len(dir[f])
      /\ \A i \in DOMAIN p : i # at => p[i] = IF i \in DOMAIN dir[f] THEN dir[f][i] ELSE Hole
  <2>1. PICK old, block : old = dir[f] /\ block = text[at]
    OBVIOUS
  <2>2. /\ p = Put(old, at, block) /\ old \in Seq(Range(old))
        /\ at \in Nat /\ at # 0
    BY <1>0, <1>2, <1>3, <2>1
  <2>3. /\ p \in Seq(Range(p)) /\ at \in DOMAIN p /\ p[at] = block
        /\ DOMAIN old \subseteq DOMAIN p
        /\ Len(p) = IF Len(old) < at THEN at ELSE Len(old)
        /\ \A i \in DOMAIN p : i # at => p[i] = IF i \in DOMAIN old THEN old[i] ELSE Hole
    BY ONLY <2>2, PutBlock
  <2> QED BY ONLY <2>1, <2>3
<1>5. /\ DOMAIN dir' = DOMAIN dir /\ dir'[f] = p /\ \A g \in DOMAIN dir : g # f => dir'[g] = dir[g]
  BY <1>1, <1>2, DirNext
<1>6. /\ DOMAIN new = {"pc", "dataset", "at"} /\ new.pc \in {f, "done"} /\ new.at \in Nat
      /\ new.pc = f => new.dataset = d /\ new.at = at
      /\ new.pc = "done" => f = "manifest" /\ at = 2
  BY <1>0, <1>2, <1>3 DEF Standing
<1> HIDE DEF new
<1>7. /\ builder'[b] = new
      /\ \A c \in Builders : c # b => builder'[c] = builder[c]
      /\ builder' = [c \in Builders |-> builder'[c]]
  BY ONLY <1>1, <1>2
<1>8. FilesTyped'
  <2>1. \A g \in DOMAIN dir' : dir'[g] \in Seq(Range(dir'[g]))
    BY <1>4, <1>5 DEF FileSide, FilesTyped
  <2> QED BY <1>1, <1>2, <1>5, <1>6, <1>7, <2>1 DEF FileSide, FilesTyped, Phases
<1>9. WritersKnown'
  <2>1. ASSUME NEW c \in Builders, builder'[c].pc \in {"cases", "manifest"}
        PROVE  /\ builder'[c].dataset \in Range(built')
               /\ builder'[c].pc \in DOMAIN dir'
               /\ builder'[c].at <= Len(Text(builder'[c].dataset, builder'[c].pc))
    <3>1. CASE c = b
      BY <1>0, <1>1, <1>2, <1>3, <1>5, <1>6, <1>7, <2>1, <3>1
    <3>2. CASE c # b
      BY <1>1, <1>5, <1>7, <2>1, <3>2 DEF FileSide, WritersKnown
    <3> QED BY <3>1, <3>2
  <2>2. \A c \in Builders : builder'[c].pc = "generated" => Whole(builder'[c].dataset)
    BY <1>2, <1>6, <1>7 DEF FileSide, WritersKnown
  <2>3. \A e \in Range(built') : Whole(e)
    BY <1>1 DEF FileSide, WritersKnown
  <2> QED BY <2>1, <2>2, <2>3 DEF WritersKnown
<1>10. ManifestTells'
  <2>1. CASE f = "manifest"
    <3>1. Telling(Manifest(d))
      BY <1>2 DEF Telling, Manifest
    <3>2. Len(p) <= 2 /\ \A i \in DOMAIN p : p[i] # Hole => Telling(p[i].of)
      BY <1>2, <1>3, <1>4, <2>1, <3>1 DEF FileSide, ManifestTells
    <3> QED BY <1>1, <1>5, <2>1, <3>2 DEF ManifestTells, Telling
  <2>2. CASE f = "cases"
    BY <1>1, <1>5, <2>2 DEF FileSide, ManifestTells, Telling
  <2> QED BY <1>2, <2>1, <2>2
<1>11. built # <<>> /\ built' = built /\ spoiled' = spoiled
  BY <1>1 DEF FileSide, NothingYet
<1>12. NothingYet'
  BY <1>11 DEF NothingYet
<1>13. ASSUME ~spoiled PROVE LastBuildComes'
  <2>1. d = Last(built)
    BY <1>0, <1>1, <1>11, <1>13 DEF FileSide, LastBuildComes
  <2>2. ASSUME NEW g \in {"cases", "manifest"}, NEW i \in DOMAIN Text(d, g), Comes(g, i)
        PROVE  Comes(g, i)'
    <3>0. i \in Nat /\ (g = f => text = Text(d, g))
      BY <1>0, <1>2, Texts
    <3>1. CASE g = f /\ i = at
      <4>1. Right(g, i)'
        BY <1>0, <1>2, <1>4, <1>5, <1>11, <2>1, <3>1 DEF Right
      <4> QED BY <4>1 DEF Comes
    <3>2. CASE Right(g, i) /\ ~(g = f /\ i = at)
      <4>1. Right(g, i)'
        BY <1>2, <1>4, <1>5, <1>11, <2>1, <3>2 DEF Right
      <4> QED BY <4>1 DEF Comes
    <3>3. CASE Due(g, i) /\ ~(g = f /\ i = at)
      <4>1. PICK c \in Builders : builder[c].pc = g /\ builder[c].at < i
        BY <3>3 DEF Due
      <4>2. CASE c # b
        BY <1>7, <4>1, <4>2 DEF Comes, Due
      <4>3. CASE c = b
        <5>1. g = f /\ at < i /\ i <= Len(text)
          BY <1>0, <1>2, <1>3, <3>0, <3>3, <4>1, <4>3
        <5>2. new.pc = f
          BY <1>3, <1>6, <3>0, <5>1
        <5> QED BY <1>6, <1>7, <5>1, <5>2 DEF Comes, Due
      <4> QED BY <4>2, <4>3
    <3> QED BY <2>2, <3>1, <3>2, <3>3 DEF Comes
  <2>3. \A c \in Writing' : builder'[c].dataset = d
    <3>1. \A c \in Writing : builder[c].dataset = d
      BY <1>11, <1>13, <2>1 DEF FileSide, LastBuildComes
    <3>2. \A c \in Writing' : (c = b /\ new.pc = f) \/ (c # b /\ c \in Writing)
      BY <1>2, <1>6, <1>7 DEF Writing
    <3> QED BY <1>6, <1>7, <3>1, <3>2 DEF Writing
  <2>4. "cases" \in DOMAIN dir' /\ Len(dir'["cases"]) <= Len(Text(d, "cases"))
    <3>1. "cases" \in DOMAIN dir /\ Len(dir["cases"]) <= Len(Text(d, "cases"))
      BY <1>11, <1>13, <2>1 DEF FileSide, LastBuildComes
    <3>2. CASE f = "cases"
      BY <1>0, <1>3, <1>4, <1>5, <3>1, <3>2
    <3>3. CASE f # "cases"
      BY <1>5, <3>1, <3>3
    <3> QED BY <3>2, <3>3
  <2>5. \A i \in DOMAIN Text(d, "cases") : Comes("cases", i)'
    BY <1>11, <1>13, <2>1, <2>2 DEF FileSide, LastBuildComes
  <2>6. \/ \E c \in Builders : builder'[c].pc = "cases"
        \/ \A i \in 1 .. 2 : Comes("manifest", i)'
    <3>1. CASE \E c \in Builders : builder[c].pc = "cases"
      <4>1. PICK c \in Builders : builder[c].pc = "cases"
        BY <3>1
      <4>2. builder'[c].pc = "cases"
        BY <1>0, <1>6, <1>7, <4>1
      <4> QED BY <4>2
    <3>2. CASE \A i \in 1 .. 2 : Comes("manifest", i)
      <4>1. DOMAIN Text(d, "manifest") = 1 .. 2
        BY <1>2, Texts
      <4> QED BY <2>2, <3>2, <4>1
    <3> QED BY <1>11, <1>13, <3>1, <3>2 DEF FileSide, LastBuildComes
  <2> QED BY <1>11, <2>1, <2>3, <2>4, <2>5, <2>6 DEF LastBuildComes
<1>14. LastBuildComes'
  BY <1>11, <1>13 DEF LastBuildComes
<1> QED BY <1>1, <1>8, <1>9, <1>10, <1>11, <1>12, <1>14 DEF FileSide

\* The manifest is opened when the cases are all written.
LEMMA OpenManifestFiles ==
    ASSUME FileSide, NEW b \in Builders, OpenManifest(b)
    PROVE  FileSide' /\ Range(built) = Range(built')
<1> DEFINE new == [builder[b] EXCEPT !.pc = "manifest", !.at = 0]
<1>0. PICK d : d = builder[b].dataset
  OBVIOUS
<1>1. /\ builder[b].pc = "cases" /\ builder[b].at = Len(Text(d, "cases"))
      /\ builder' = [builder EXCEPT ![b] = new] /\ UNCHANGED <<built, spoiled>>
  BY <1>0 DEF OpenManifest, FileSide, FilesTyped
<1>2. /\ DOMAIN dir' = DOMAIN dir \cup {"manifest"} /\ dir'["manifest"] = <<>>
      /\ \A g \in DOMAIN dir : g # "manifest" => dir'[g] = dir[g]
  BY DirNext DEF OpenManifest
<1>3. /\ b \in Writing /\ d \in Range(built) /\ Whole(d)
      /\ DOMAIN new = {"pc", "dataset", "at"} /\ new.pc = "manifest" /\ new.at = 0 /\ new.dataset = d
      /\ builder = [c \in Builders |-> builder[c]]
  BY <1>0, <1>1 DEF Writing, FileSide, FilesTyped, WritersKnown
<1> HIDE DEF new
<1>4. /\ builder'[b] = new
      /\ \A c \in Builders : c # b => builder'[c] = builder[c]
      /\ builder' = [c \in Builders |-> builder'[c]]
  BY ONLY <1>1, <1>3
<1>5. /\ \A f \in {"cases", "manifest"} : /\ Len(Text(d, f)) \in Nat
                                           /\ DOMAIN Text(d, f) = 1 .. Len(Text(d, f))
      /\ Len(Text(d, "manifest")) = 2
  BY <1>3, Texts
<1>6. Len(<<>>) = 0 /\ <<>> \in Seq(Range(<<>>)) /\ DOMAIN <<>> = {}
  <2>1. DOMAIN <<>> = 1 .. 0 /\ <<>> = [i \in 1 .. 0 |-> <<>>[i]]
    OBVIOUS
  <2> QED BY <2>1, SequenceByRange
<1>7. FilesTyped'
  <2>1. \A f \in DOMAIN dir' : dir'[f] \in Seq(Range(dir'[f]))
    BY <1>2, <1>6 DEF FileSide, FilesTyped
  <2> QED BY <1>1, <1>2, <1>3, <1>4, <2>1 DEF FileSide, FilesTyped, Phases
<1>8. WritersKnown'
  <2>1. ASSUME NEW c \in Builders, builder'[c].pc \in {"cases", "manifest"}
        PROVE  /\ builder'[c].dataset \in Range(built')
               /\ builder'[c].pc \in DOMAIN dir'
               /\ builder'[c].at <= Len(Text(builder'[c].dataset, builder'[c].pc))
    <3>1. CASE c = b
      BY <1>1, <1>2, <1>3, <1>4, <1>5, <3>1
    <3>2. CASE c # b
      BY <1>1, <1>2, <1>4, <2>1, <3>2 DEF FileSide, WritersKnown
    <3> QED BY <3>1, <3>2
  <2>2. \A c \in Builders : builder'[c].pc = "generated" => Whole(builder'[c].dataset)
    BY <1>3, <1>4 DEF FileSide, WritersKnown
  <2>3. \A e \in Range(built') : Whole(e)
    BY <1>1 DEF FileSide, WritersKnown
  <2> QED BY <2>1, <2>2, <2>3 DEF WritersKnown
<1>9. ManifestTells'
  BY <1>2, <1>6 DEF ManifestTells
<1>10. built # <<>> /\ built' = built /\ spoiled' = spoiled
  BY <1>1, <1>3 DEF FileSide, NothingYet
<1>11. NothingYet'
  BY <1>10 DEF NothingYet
<1>12. ASSUME ~spoiled PROVE LastBuildComes'
  <2>1. d = Last(built)
    BY <1>0, <1>3, <1>10, <1>12 DEF FileSide, LastBuildComes
  <2>2. \A c \in Writing' : builder'[c].dataset = d
    <3>1. \A c \in Writing : builder[c].dataset = d
      BY <1>10, <1>12, <2>1 DEF FileSide, LastBuildComes
    <3>2. \A c \in Writing' : c = b \/ (c # b /\ c \in Writing)
      BY <1>3, <1>4 DEF Writing
    <3> QED BY <1>3, <1>4, <3>1, <3>2 DEF Writing
  <2>3. "cases" \in DOMAIN dir' /\ Len(dir'["cases"]) <= Len(Text(d, "cases"))
    BY <1>2, <1>10, <1>12, <2>1 DEF FileSide, LastBuildComes
  <2>4. \A i \in DOMAIN Text(d, "cases") : Comes("cases", i)'
    <3>1. TAKE i \in DOMAIN Text(d, "cases")
    <3>2. i \in Nat /\ i <= Len(Text(d, "cases"))
      BY <1>5
    <3>3. Comes("cases", i)
      BY <1>10, <1>12, <2>1 DEF FileSide, LastBuildComes
    <3>4. CASE Right("cases", i)
      BY <1>2, <1>10, <3>4 DEF Comes, Right
    <3>5. CASE Due("cases", i)
      <4>1. PICK c \in Builders : builder[c].pc = "cases" /\ builder[c].at < i
        BY <3>5 DEF Due
      <4>2. c # b
        BY <1>1, <1>5, <3>2, <4>1
      <4> QED BY <1>4, <4>1, <4>2 DEF Comes, Due
    <3> QED BY <3>3, <3>4, <3>5 DEF Comes
  <2>5. \A i \in 1 .. 2 : Comes("manifest", i)'
    BY <1>3, <1>4 DEF Comes, Due
  <2> QED BY <1>10, <2>1, <2>2, <2>3, <2>4, <2>5 DEF LastBuildComes
<1>13. LastBuildComes'
  BY <1>10, <1>12 DEF LastBuildComes
<1> QED BY <1>1, <1>7, <1>8, <1>9, <1>11, <1>13 DEF FileSide

\* A builder that is killed spoils what it was writing.
LEMMA StopBuildFiles ==
    ASSUME FileSide, NEW b \in Builders, StopBuild(b)
    PROVE  FileSide' /\ Writing # {}
<1> DEFINE new == Standing("stopped")
<1>1. /\ b \in Writing /\ builder' = [builder EXCEPT ![b] = new] /\ spoiled' = TRUE
      /\ UNCHANGED <<dir, built>>
  BY DEF StopBuild
<1>2. DOMAIN new = {"pc", "dataset", "at"} /\ new.pc = "stopped" /\ new.at = 0
  BY DEF Standing
<1> HIDE DEF new
<1>3. builder = [c \in Builders |-> builder[c]]
  BY DEF FileSide, FilesTyped
<1>4. /\ builder'[b] = new
      /\ \A c \in Builders : c # b => builder'[c] = builder[c]
      /\ builder' = [c \in Builders |-> builder'[c]]
  BY ONLY <1>1, <1>2, <1>3, b \in Builders
<1>5. FilesTyped'
  BY <1>1, <1>2, <1>4 DEF FileSide, FilesTyped, Phases
<1>6. WritersKnown'
  BY <1>1, <1>2, <1>4 DEF FileSide, WritersKnown
<1>7. ManifestTells'
  BY <1>1 DEF FileSide, ManifestTells, Telling
<1>8. built' # <<>>
  BY <1>1 DEF FileSide, NothingYet
<1> QED BY <1>1, <1>5, <1>6, <1>7, <1>8 DEF FileSide, NothingYet, LastBuildComes

\* An edit by hand spoils what was built and leaves the hash in the manifest.
LEMMA EditFiles ==
    ASSUME FileSide, NEW f \in DOMAIN dir, NEW v, Edit(f, v)
    PROVE  FileSide' /\ Range(built) = Range(built')
<1>0. PICK text, xs, y, ys, t :
        /\ text = dir[f] /\ xs = Parsed(text)
        /\ y = IF f = "cases" THEN [kind |-> "edited", word |-> v, number |-> 1]
               ELSE [xs[1] EXCEPT !.version = v]
        /\ ys = [xs EXCEPT ![1] = y] /\ t = EditedText(f, v)
  OBVIOUS
<1>1. /\ f \in {"cases", "manifest"} /\ text \in Seq(Range(text)) /\ Parses(text)
      /\ Change(f, t) /\ spoiled' = TRUE /\ UNCHANGED <<builder, built>>
  BY <1>0 DEF Edit, Readable, FileSide, FilesTyped
<1>2. /\ 2 \in DOMAIN text /\ text[2] # Hole /\ xs \in Seq(Range(xs)) /\ Len(xs) \in Nat \ {0}
      /\ Head(xs) = text[2].of
  BY <1>0, <1>1, ParsedFirst
<1>3. t = Lines(ys)
  BY <1>0 DEF EditedText
<1>4. /\ ys \in Seq(Range(ys)) /\ Len(ys) = Len(xs) /\ ys[1] = y
  <2>0. DOMAIN xs = 1 .. Len(xs) /\ 1 \in 1 .. Len(xs)
    BY ONLY <1>2
  <2>1. /\ DOMAIN ys = 1 .. Len(xs) /\ ys = [i \in 1 .. Len(xs) |-> ys[i]]
        /\ ys[1] = y
    BY ONLY <1>0, <2>0
  <2> QED BY ONLY <1>2, <2>1, SequenceByRange
<1>5. t \in Seq(Range(t)) /\ Len(t) = 2 * Len(ys) /\ DOMAIN t = 1 .. 2 * Len(ys)
  BY <1>3, <1>4, LinesRead
<1>6. /\ DOMAIN dir' = DOMAIN dir /\ dir'[f] = t /\ \A g \in DOMAIN dir : g # f => dir'[g] = dir[g]
  BY <1>1, DirNext
<1>7. FilesTyped'
  <2>1. \A g \in DOMAIN dir' : dir'[g] \in Seq(Range(dir'[g]))
    BY <1>5, <1>6 DEF FileSide, FilesTyped
  <2> QED BY <1>1, <1>6, <2>1 DEF FileSide, FilesTyped
<1>8. WritersKnown'
  BY <1>1, <1>6 DEF FileSide, WritersKnown
<1>9. ManifestTells'
  <2>1. CASE f = "manifest"
    <3>1. Telling(text[2].of) /\ Len(text) <= 2
      BY <1>0, <1>2, <2>1 DEF FileSide, ManifestTells
    <3>2. xs[1] = text[2].of
      BY <1>2
    <3>3. Telling(y)
      BY <1>0, <2>1, <3>1, <3>2 DEF Telling
    <3>4. Len(xs) = 1
      <4>1. Len(text) = 2 * Len(xs)
        <5>1. text = Lines(xs)
          BY <1>0, <1>1 DEF Parses
        <5> QED BY <1>2, <5>1, LinesRead
      <4>2. PICK n \in Nat \ {0} : n = Len(xs)
        BY <1>2
      <4>3. 2 * n <= 2
        BY ONLY <3>1, <4>1, <4>2
      <4>4. n = 1
        BY ONLY <4>3, n \in Nat \ {0}
      <4> QED BY <4>2, <4>4
    <3>5. \A i \in DOMAIN t : t[i].of = y
      <4>1. TAKE i \in DOMAIN t
      <4>2. i \in 1 .. 2 * Len(ys) /\ (i + 1) \div 2 = 1
        BY <1>4, <1>5, <3>4
      <4> QED BY <1>3, <1>4, <4>2 DEF Lines
    <3>6. Len(t) <= 2
      BY <1>4, <1>5, <3>4
    <3> QED BY <1>1, <1>6, <2>1, <3>3, <3>5, <3>6 DEF ManifestTells, Telling
  <2>2. CASE f = "cases"
    BY <1>1, <1>6, <2>2 DEF FileSide, ManifestTells, Telling
  <2> QED BY <1>1, <2>1, <2>2
<1>10. built' # <<>>
  BY <1>1 DEF FileSide, NothingYet
<1> QED BY <1>1, <1>7, <1>8, <1>9, <1>10 DEF FileSide, NothingYet, LastBuildComes

\* Two sequences of which one is no longer than the other, and has all of it.
LEMMA SameSequence ==
    ASSUME NEW s, s \in Seq(Range(s)), NEW t, t \in Seq(Range(t)), Len(s) <= Len(t),
           \A i \in DOMAIN t : i \in DOMAIN s /\ s[i] = t[i]
    PROVE  s = t
<1>1. /\ Len(s) \in Nat /\ DOMAIN s = 1 .. Len(s) /\ s = [i \in 1 .. Len(s) |-> s[i]]
      /\ Len(t) \in Nat /\ DOMAIN t = 1 .. Len(t) /\ t = [i \in 1 .. Len(t) |-> t[i]]
  OBVIOUS
<1>2. Len(s) = Len(t)
  <2>1. PICK m \in Nat, n \in Nat : m = Len(s) /\ n = Len(t)
    BY ONLY <1>1
  <2>2. m <= n /\ (n # 0 => n <= m)
    <3>1. n # 0 => n \in 1 .. n
      OBVIOUS
    <3>2. \A i \in 1 .. n : i \in 1 .. m
      BY <1>1, <2>1
    <3>3. n # 0 => n \in 1 .. m
      BY ONLY <3>1, <3>2
    <3>4. m <= n
      BY <2>1
    <3> QED BY ONLY <3>3, <3>4, m \in Nat
  <2>3. m = n
    BY ONLY <2>2, m \in Nat, n \in Nat
  <2> QED BY <2>1, <2>3
<1> QED BY <1>1, <1>2

\* A directory that nobody writes holds what was built last, if it was not
\* spoiled.
LEMMA SettledDir ==
    ASSUME FileSide, Writing = {}, ~spoiled
    PROVE  /\ built = <<>> => DOMAIN dir = {}
           /\ built # <<>> =>
                /\ Whole(Last(built)) /\ Last(built) \in Range(built)
                /\ Readable("cases") /\ Readable("manifest")
                /\ Parsed(dir["cases"]) = Last(built).cases
                /\ Found = Manifest(Last(built))
<1>1. ASSUME built # <<>>
      PROVE  /\ Whole(Last(built)) /\ Last(built) \in Range(built)
             /\ Readable("cases") /\ Readable("manifest")
             /\ Parsed(dir["cases"]) = Last(built).cases
             /\ Found = Manifest(Last(built))
  <2>0. PICK d : d = Last(built)
    OBVIOUS
  <2>1. d \in Range(built)
    <3>1. built \in Seq(Range(built))
      BY DEF FileSide, FilesTyped
    <3>2. Len(built) \in DOMAIN built
      BY <1>1, <3>1
    <3> QED BY <2>0, <3>2 DEF Last, Range
  <2>2. Whole(d)
    BY <2>1 DEF FileSide, WritersKnown
  <2>3. \A b \in Builders : builder[b].pc \notin {"cases", "manifest"}
    BY DEF Writing
  <2>4. \A f, i : Comes(f, i) => (f \in {"cases", "manifest"} => Right(f, i))
    BY <2>3 DEF Comes, Due
  <2>5. /\ "cases" \in DOMAIN dir /\ Len(dir["cases"]) <= Len(Text(d, "cases"))
        /\ \A i \in DOMAIN Text(d, "cases") : Right("cases", i)
        /\ \A i \in 1 .. 2 : Right("manifest", i)
    BY <1>1, <2>0, <2>3, <2>4 DEF FileSide, LastBuildComes
  <2>6. \A f \in {"cases", "manifest"} :
            /\ Text(d, f) \in Seq(Range(Text(d, f)))
            /\ Len(Text(d, f)) \in Nat
            /\ DOMAIN Text(d, f) = 1 .. Len(Text(d, f))
            /\ Parses(Text(d, f))
    BY <2>2, Texts
  <2>7. dir["cases"] = Text(d, "cases")
    <3>1. dir["cases"] \in Seq(Range(dir["cases"]))
      BY <2>5 DEF FileSide, FilesTyped
    <3>2. \A i \in DOMAIN Text(d, "cases") :
            i \in DOMAIN dir["cases"] /\ dir["cases"][i] = Text(d, "cases")[i]
      BY <2>0, <2>5 DEF Right
    <3> QED BY <2>5, <2>6, <3>1, <3>2, SameSequence
  <2>8. "manifest" \in DOMAIN dir /\ dir["manifest"] = Text(d, "manifest")
    <3>0. Len(Text(d, "manifest")) = 2 /\ DOMAIN Text(d, "manifest") = 1 .. 2
      BY <2>2, <2>6, Texts
    <3>1. "manifest" \in DOMAIN dir
      BY <2>5 DEF Right
    <3>2. dir["manifest"] \in Seq(Range(dir["manifest"])) /\ Len(dir["manifest"]) <= 2
      BY <3>1 DEF FileSide, FilesTyped, ManifestTells
    <3>3. \A i \in DOMAIN Text(d, "manifest") :
            i \in DOMAIN dir["manifest"] /\ dir["manifest"][i] = Text(d, "manifest")[i]
      BY <2>0, <2>5, <3>0 DEF Right
    <3>4. dir["manifest"] = Text(d, "manifest")
      BY <2>6, <3>0, <3>2, <3>3, SameSequence
    <3> QED BY <3>1, <3>4
  <2>9. Parsed(dir["cases"]) = d.cases /\ Head(Parsed(dir["manifest"])) = Manifest(d)
    BY <2>2, <2>7, <2>8, Texts
  <2> QED BY <2>0, <2>1, <2>2, <2>5, <2>6, <2>7, <2>8, <2>9 DEF Readable, Found
<1> QED BY <1>1 DEF FileSide, NothingYet

\* A manifest that can be read tells of a dataset that was built.
LEMMA FoundTells ==
    ASSUME FileSide, Readable("manifest")
    PROVE  Telling(Found)
<1>1. /\ "manifest" \in DOMAIN dir /\ Parses(dir["manifest"])
      /\ dir["manifest"] \in Seq(Range(dir["manifest"]))
  BY DEF Readable, FileSide, FilesTyped
<1>2. /\ 2 \in DOMAIN dir["manifest"] /\ dir["manifest"][2] # Hole
      /\ Found = dir["manifest"][2].of
  BY <1>1, ParsedFirst DEF Found
<1> QED BY <1>1, <1>2 DEF FileSide, ManifestTells

-----------------------------------------------------------------------------
\* Those who read, one by one: what a reader x is like;
WellFormed(x) ==
    /\ DOMAIN x = {"pc", "asked", "held", "got", "moved", "disturbed"}
    /\ x.pc \in {"idle", "asked", "resolved", "reading"} \cup Answers
    /\ x.moved \in BOOLEAN /\ x.disturbed \in BOOLEAN
    /\ x.pc # "idle" => x.asked \in Requests
    /\ x.pc = "asked" => x.asked.by # "path"

\* the hash that it compares with is that of a dataset that was built;
Holds(x) ==
    /\ x.pc = "resolved" /\ x.asked.by # "path" => x.held.hash \in Range(built)
    /\ x.pc = "reading" => x.held.hash \in Range(built)
    /\ x.pc = "accepted" => x.got \in Range(built)

\* a manifest that nobody wrote since the version was found in it still has it;
Steady(x) ==
    x.asked.by = "ref" /\ ~x.moved =>
        /\ x.pc = "resolved" => Readable("manifest") /\ Found.version = x.asked.version
        /\ x.pc \in {"reading", "accepted"} => x.got.version = x.asked.version

\* and what an undisturbed reader has found so far is what was built last.
SeenSoFar(x) ==
    LET last == Last(built)
        fits == built # <<>> /\ (x.asked.by = "ref" => last.version = x.asked.version)
    IN /\ x.pc = "resolved" /\ x.asked.by # "path" => fits /\ x.held = Manifest(last)
       /\ x.pc = "reading" => fits /\ x.held = Manifest(last) /\ x.got = Manifest(last)
       /\ x.pc \in Answers => [pc |-> x.pc, got |-> x.got] = Promised(x.asked)
Calm(x) == x.pc # "idle" /\ ~x.disturbed => Writing = {} /\ ~spoiled /\ SeenSoFar(x)

\* The invariant of those who read.
ReaderSide ==
    /\ reader = [r \in Readers |-> reader[r]]
    /\ \A r \in Readers :
        WellFormed(reader[r]) /\ Holds(reader[r]) /\ Steady(reader[r]) /\ Calm(reader[r])

\* A change of a file disturbs those who are reading.
LEMMA ChangeReaders ==
    ASSUME FileSide, ReaderSide, NEW f \in {"cases", "manifest"}, NEW text, Change(f, text),
           Range(built) \subseteq Range(built')
    PROVE  ReaderSide'
<1>1. reader' = [r \in Readers |->
        IF reader[r].pc = "idle" THEN reader[r]
        ELSE [reader[r] EXCEPT !.moved = @ \/ f = "manifest", !.disturbed = TRUE]]
  BY Zenon DEF Change
<1>2. ASSUME NEW r \in Readers
      PROVE  /\ DOMAIN reader'[r] = {"pc", "asked", "held", "got", "moved", "disturbed"}
             /\ reader'[r].pc = reader[r].pc /\ reader'[r].asked = reader[r].asked
             /\ reader'[r].held = reader[r].held /\ reader'[r].got = reader[r].got
             /\ reader'[r].moved \in BOOLEAN /\ reader'[r].disturbed \in BOOLEAN
             /\ reader[r].pc # "idle" => reader'[r].disturbed
             /\ reader[r].pc # "idle" /\ ~reader'[r].moved => ~reader[r].moved /\ f # "manifest"
  <2>1. /\ DOMAIN reader[r] = {"pc", "asked", "held", "got", "moved", "disturbed"}
        /\ reader[r].moved \in BOOLEAN /\ reader[r].disturbed \in BOOLEAN
    BY DEF ReaderSide, WellFormed
  <2>2. CASE reader[r].pc = "idle"
    BY <1>1, <2>1, <2>2
  <2>3. CASE reader[r].pc # "idle"
    <3>1. reader'[r] = [reader[r] EXCEPT !.moved = @ \/ f = "manifest", !.disturbed = TRUE]
      BY <1>1, <2>3
    <3> QED BY <2>1, <2>3, <3>1
  <2> QED BY <2>2, <2>3
<1>3. reader' = [r \in Readers |-> reader'[r]]
  BY <1>1
<1>4. ASSUME NEW r \in Readers
      PROVE  WellFormed(reader[r])' /\ Holds(reader[r])' /\ Steady(reader[r])' /\ Calm(reader[r])'
  <2>1. WellFormed(reader[r])'
    BY <1>2 DEF ReaderSide, WellFormed
  <2>2. Holds(reader[r])'
    BY <1>2 DEF ReaderSide, Holds
  <2>3. Calm(reader[r])'
    BY <1>2 DEF Calm
  <2>4. Steady(reader[r])'
    <3>1. CASE reader[r].pc = "idle"
      BY <1>2, <3>1 DEF Steady
    <3>2. CASE reader[r].pc # "idle" /\ ~reader'[r].moved
      <4>1. ~reader[r].moved /\ f = "cases"
        BY <1>2, <3>2
      <4>2. "manifest" \in DOMAIN dir
            => "manifest" \in DOMAIN dir' /\ dir'["manifest"] = dir["manifest"]
        BY <4>1, DirNext
      <4>3. Readable("manifest") => Readable("manifest")' /\ Found' = Found
        BY <4>2 DEF Readable, Found
      <4> QED BY <1>2, <4>1, <4>3 DEF ReaderSide, Steady
    <3>3. CASE reader'[r].moved
      BY <3>3 DEF Steady
    <3> QED BY <3>1, <3>2, <3>3
  <2> QED BY <2>1, <2>2, <2>3, <2>4
<1> QED BY <1>3, <1>4 DEF ReaderSide

\* A step of a writer or an editor.
LEMMA WriterStep ==
    ASSUME FileSide, ReaderSide,
           \/ \E b \in Builders :
                \/ \E order \in Orders, force \in BOOLEAN : StartBuild(b, order, force)
                \/ OpenCases(b) \/ WriteOn(b) \/ OpenManifest(b) \/ StopBuild(b)
           \/ \E f \in DOMAIN dir, v \in Versions : Edit(f, v)
    PROVE  FileSide' /\ ReaderSide'
<1>1. ASSUME NEW b \in Builders, NEW order \in Orders, NEW force \in BOOLEAN,
             StartBuild(b, order, force)
      PROVE  FileSide' /\ ReaderSide'
  <2>1. FileSide' /\ Writing' = Writing
    BY <1>1, StartBuildFiles
  <2>2. UNCHANGED <<dir, reader, built, spoiled>>
    BY <1>1 DEF StartBuild
  <2>3. ASSUME NEW x PROVE /\ Holds(x)' = Holds(x) /\ Steady(x)' = Steady(x) /\ Calm(x)' = Calm(x)
                           /\ WellFormed(x)' = WellFormed(x)
    BY <2>1, <2>2 DEF Holds, Steady, Calm, SeenSoFar, Promised, Readable, Found, WellFormed
  <2> QED BY <2>1, <2>2, <2>3 DEF ReaderSide
<1>2. ASSUME NEW b \in Builders, OpenCases(b) PROVE FileSide' /\ ReaderSide'
  <2>1. FileSide' /\ Range(built) \subseteq Range(built') /\ Change("cases", <<>>)
    BY <1>2, OpenCasesFiles DEF OpenCases
  <2> QED BY <2>1, ChangeReaders
<1>3. ASSUME NEW b \in Builders, WriteOn(b) PROVE FileSide' /\ ReaderSide'
  <2>1. FileSide' /\ Range(built) \subseteq Range(built')
    BY <1>3, WriteOnFiles
  <2>2. PICK f, text : f \in {"cases", "manifest"} /\ Change(f, text)
    BY <1>3 DEF WriteOn, Writing
  <2> QED BY <2>1, <2>2, ChangeReaders
<1>4. ASSUME NEW b \in Builders, OpenManifest(b) PROVE FileSide' /\ ReaderSide'
  <2>1. FileSide' /\ Range(built) \subseteq Range(built') /\ Change("manifest", <<>>)
    BY <1>4, OpenManifestFiles DEF OpenManifest
  <2> QED BY <2>1, ChangeReaders
<1>5. ASSUME NEW b \in Builders, StopBuild(b) PROVE FileSide' /\ ReaderSide'
  <2>1. FileSide' /\ Writing # {} /\ UNCHANGED <<dir, reader, built>>
    BY <1>5, StopBuildFiles DEF StopBuild
  <2>2. ASSUME NEW r \in Readers PROVE Calm(reader[r])'
    <3>1. reader[r].pc # "idle" => reader[r].disturbed
      BY <2>1 DEF ReaderSide, Calm
    <3> QED BY <2>1, <3>1 DEF Calm
  <2>3. ASSUME NEW x PROVE Holds(x)' = Holds(x) /\ Steady(x)' = Steady(x) /\ WellFormed(x)' = WellFormed(x)
    BY <2>1 DEF Holds, Steady, Readable, Found, WellFormed
  <2> QED BY <2>1, <2>2, <2>3 DEF ReaderSide
<1>6. ASSUME NEW f \in DOMAIN dir, NEW v \in Versions, Edit(f, v) PROVE FileSide' /\ ReaderSide'
  <2>1. FileSide' /\ Range(built) \subseteq Range(built')
    BY <1>6, EditFiles
  <2>2. f \in {"cases", "manifest"} /\ Change(f, EditedText(f, v))
    BY <1>6 DEF Edit, FileSide, FilesTyped
  <2> QED BY <2>1, <2>2, ChangeReaders
<1> QED BY <1>1, <1>2, <1>3, <1>4, <1>5, <1>6

\* A step of a reader, which stands as it should afterwards.
LEMMA OneReader ==
    ASSUME FileSide, ReaderSide, UNCHANGED <<dir, builder, edits, built, spoiled>>,
           NEW r \in Readers, NEW new, reader' = [reader EXCEPT ![r] = new],
           WellFormed(new), Holds(new), Steady(new), Calm(new)
    PROVE  FileSide' /\ ReaderSide'
<1>1. Writing' = Writing
  BY DEF Writing
<1>2. FileSide'
  <2>1. FilesTyped' /\ WritersKnown' /\ ManifestTells' /\ NothingYet'
    BY <1>1 DEF FileSide, FilesTyped, WritersKnown, ManifestTells, NothingYet, Telling
  <2>2. LastBuildComes'
    BY <1>1 DEF FileSide, LastBuildComes, Comes, Right, Due
  <2> QED BY <2>1, <2>2 DEF FileSide
<1>3. ASSUME NEW x PROVE /\ Holds(x)' = Holds(x) /\ Steady(x)' = Steady(x) /\ Calm(x)' = Calm(x)
                         /\ WellFormed(x)' = WellFormed(x)
  BY <1>1 DEF Holds, Steady, Calm, SeenSoFar, Promised, Readable, Found, WellFormed
<1>4. /\ reader' = [q \in Readers |-> reader'[q]]
      /\ reader'[r] = new /\ \A q \in Readers : q # r => reader'[q] = reader[q]
  BY DEF ReaderSide
<1>5. ReaderSide'
  <2>1. ASSUME NEW q \in Readers, NEW x, x = reader'[q]
        PROVE  WellFormed(x)' /\ Holds(x)' /\ Steady(x)' /\ Calm(x)'
    <3>1. WellFormed(x) /\ Holds(x) /\ Steady(x) /\ Calm(x)
      BY <1>4, <2>1 DEF ReaderSide
    <3> QED BY <1>3, <3>1
  <2> QED BY <1>4, <2>1 DEF ReaderSide
<1> QED BY <1>2, <1>5

\* A reader asks for a path, for a version, or to verify.
LEMMA AskStep ==
    ASSUME FileSide, ReaderSide, NEW r \in Readers, NEW how \in Requests, Ask(r, how)
    PROVE  FileSide' /\ ReaderSide'
<1> DEFINE new == [reader[r] EXCEPT !.asked = how, !.moved = FALSE,
                    !.disturbed = spoiled \/ Writing # {},
                    !.pc = IF how.by = "path" THEN "resolved" ELSE "asked"]
<1>1. reader' = [reader EXCEPT ![r] = new] /\ UNCHANGED <<dir, builder, edits, built, spoiled>>
  BY Zenon DEF Ask
<1>2. /\ DOMAIN new = {"pc", "asked", "held", "got", "moved", "disturbed"}
      /\ new.asked = how /\ new.moved = FALSE /\ new.disturbed \in BOOLEAN
      /\ ~new.disturbed => ~spoiled /\ Writing = {}
      /\ new.pc = IF how.by = "path" THEN "resolved" ELSE "asked"
  BY DEF ReaderSide, WellFormed, FileSide, FilesTyped
<1> HIDE DEF new
<1>3. WellFormed(new)
  BY <1>2 DEF WellFormed
<1>4. Holds(new)
  BY <1>2 DEF Holds
<1>5. Steady(new)
  BY <1>2 DEF Steady
<1>6. Calm(new)
  BY <1>2 DEF Calm, SeenSoFar, Answers
<1> QED BY <1>1, <1>3, <1>4, <1>5, <1>6, OneReader

\* A reader that ends, and how.
LEMMA EndStep ==
    ASSUME FileSide, ReaderSide, NEW r \in Readers, reader[r].pc # "idle",
           NEW pc \in Answers, NEW d, End(r, pc, d),
           UNCHANGED <<dir, builder, edits, built, spoiled>>,
           pc = "accepted" => d \in Range(built),
           pc = "accepted" /\ reader[r].asked.by = "ref" /\ ~reader[r].moved
                => d.version = reader[r].asked.version,
           ~reader[r].disturbed => [pc |-> pc, got |-> d] = Promised(reader[r].asked)
    PROVE  FileSide' /\ ReaderSide'
<1> DEFINE new == [reader[r] EXCEPT !.pc = pc, !.got = d, !.held = NoManifest]
<1>1. reader' = [reader EXCEPT ![r] = new]
  BY DEF End
<1>2. /\ DOMAIN new = {"pc", "asked", "held", "got", "moved", "disturbed"}
      /\ new.asked = reader[r].asked /\ new.moved = reader[r].moved
      /\ new.disturbed = reader[r].disturbed
      /\ new.pc = pc /\ new.got = d
  BY DEF ReaderSide, WellFormed
<1> HIDE DEF new
<1>3. WellFormed(new)
  BY <1>2 DEF WellFormed, ReaderSide, Answers
<1>4. Holds(new)
  BY <1>2 DEF Holds, Answers
<1>5. Steady(new)
  BY <1>2 DEF Steady, Answers
<1>6. Calm(new)
  <2>1. ~reader[r].disturbed => Writing = {} /\ ~spoiled
    BY DEF ReaderSide, Calm
  <2> QED BY <1>2, <2>1 DEF Calm, SeenSoFar, Answers
<1> QED BY <1>1, <1>3, <1>4, <1>5, <1>6, OneReader

\* What a reader can know of a directory that nobody has disturbed.
LEMMA CalmDir ==
    ASSUME FileSide, ReaderSide, NEW r \in Readers, reader[r].pc # "idle", ~reader[r].disturbed
    PROVE  /\ SeenSoFar(reader[r])
           /\ built = <<>> => ~Readable("manifest") /\ ~Readable("cases")
           /\ built # <<>> =>
                /\ Whole(Last(built)) /\ Last(built) \in Range(built)
                /\ Readable("cases") /\ Readable("manifest")
                /\ Parsed(dir["cases"]) = Last(built).cases
                /\ Found = Manifest(Last(built))
<1>1. Writing = {} /\ ~spoiled /\ SeenSoFar(reader[r])
  BY DEF ReaderSide, Calm
<1>2. /\ built = <<>> => DOMAIN dir = {}
      /\ built # <<>> =>
            /\ Whole(Last(built)) /\ Last(built) \in Range(built)
            /\ Readable("cases") /\ Readable("manifest")
            /\ Parsed(dir["cases"]) = Last(built).cases
            /\ Found = Manifest(Last(built))
  BY <1>1, SettledDir
<1>3. built = <<>> => ~Readable("manifest") /\ ~Readable("cases")
  BY <1>2 DEF Readable
<1> QED BY <1>1, <1>2, <1>3

\* The first look at the manifest.
LEMMA ResolveStep ==
    ASSUME FileSide, ReaderSide, NEW r \in Readers, Resolve(r)
    PROVE  FileSide' /\ ReaderSide'
<1> DEFINE how == reader[r].asked
           right == Readable("manifest") /\ (how.by = "ref" => Found.version = how.version)
<1>1. /\ reader[r].pc = "asked" /\ UNCHANGED <<dir, builder, edits, built, spoiled>>
      /\ IF right THEN reader' = [reader EXCEPT ![r].pc = "resolved", ![r].held = Found]
         ELSE End(r, "error", NoDataset)
  BY DEF Resolve
<1>2. CASE right
  <2> DEFINE new == [reader[r] EXCEPT !.pc = "resolved", !.held = Found]
  <2>1. reader' = [reader EXCEPT ![r] = new]
    BY <1>1, <1>2 DEF ReaderSide
  <2>2. /\ DOMAIN new = {"pc", "asked", "held", "got", "moved", "disturbed"}
        /\ new.asked = reader[r].asked /\ new.moved = reader[r].moved
        /\ new.disturbed = reader[r].disturbed
        /\ new.pc = "resolved" /\ new.held = Found
    BY DEF ReaderSide, WellFormed
  <2> HIDE DEF new
  <2>3. WellFormed(new)
    BY <1>1, <2>2 DEF WellFormed, ReaderSide
  <2>4. Holds(new)
    <3>1. Telling(Found)
      BY <1>2, FoundTells
    <3> QED BY <2>2, <3>1 DEF Holds, Telling
  <2>5. Steady(new)
    BY <1>2, <2>2 DEF Steady
  <2>6. Calm(new)
    <3>1. ASSUME ~reader[r].disturbed PROVE Writing = {} /\ ~spoiled /\ SeenSoFar(new)
      <4>1. Writing = {} /\ ~spoiled
        BY <1>1, <3>1 DEF ReaderSide, Calm
      <4>2. built # <<>> /\ Found = Manifest(Last(built))
        BY <1>1, <1>2, <3>1, CalmDir
      <4>3. Found.version = Last(built).version
        BY <4>2 DEF Manifest
      <4> QED BY <1>2, <2>2, <4>1, <4>2, <4>3 DEF SeenSoFar, Answers
    <3> QED BY <2>2, <3>1 DEF Calm
  <2> QED BY <1>1, <2>1, <2>3, <2>4, <2>5, <2>6, OneReader
<1>3. CASE ~right
  <2>1. ASSUME ~reader[r].disturbed
        PROVE  [pc |-> "error", got |-> NoDataset] = Promised(reader[r].asked)
    <3>1. CASE built = <<>>
      BY <3>1 DEF Promised
    <3>2. CASE built # <<>>
      <4>1. Readable("manifest") /\ Found = Manifest(Last(built))
        BY <1>1, <2>1, <3>2, CalmDir
      <4>2. Found.version = Last(built).version
        BY <4>1 DEF Manifest
      <4> QED BY <1>3, <4>1, <4>2 DEF Promised
    <3> QED BY <3>1, <3>2
  <2>2. End(r, "error", NoDataset)
    BY <1>1, <1>3
  <2> QED BY <1>1, <2>1, <2>2, EndStep DEF Answers
<1> QED BY <1>2, <1>3

\* read_dataset takes the manifest.
LEMMA ReadManifestStep ==
    ASSUME FileSide, ReaderSide, NEW r \in Readers, ReadManifest(r)
    PROVE  FileSide' /\ ReaderSide'
<1>1. /\ reader[r].pc = "resolved" /\ UNCHANGED <<dir, builder, edits, built, spoiled>>
  BY DEF ReadManifest
<1>2. CASE Readable("manifest")
  <2> DEFINE held == IF reader[r].asked.by = "verify" THEN reader[r].held ELSE Found
             new == [reader[r] EXCEPT !.pc = "reading", !.got = Found, !.held = held]
  <2>1. reader' = [reader EXCEPT ![r] = new]
    BY <1>2 DEF ReadManifest, ReaderSide
  <2>2. /\ DOMAIN new = {"pc", "asked", "held", "got", "moved", "disturbed"}
        /\ new.asked = reader[r].asked /\ new.moved = reader[r].moved
        /\ new.disturbed = reader[r].disturbed
        /\ new.pc = "reading" /\ new.got = Found /\ new.held = held
    BY DEF ReaderSide, WellFormed
  <2>3. held.hash \in Range(built)
    <3>1. Telling(Found)
      BY <1>2, FoundTells
    <3>2. reader[r].asked.by = "verify" => reader[r].held.hash \in Range(built)
      BY <1>1 DEF ReaderSide, Holds
    <3> QED BY <3>1, <3>2 DEF Telling
  <2>4. ASSUME ~reader[r].disturbed
        PROVE  /\ Writing = {} /\ ~spoiled
               /\ built # <<>> /\ Found = Manifest(Last(built)) /\ held = Manifest(Last(built))
               /\ reader[r].asked.by = "ref" => Last(built).version = reader[r].asked.version
    <3>1. Writing = {} /\ ~spoiled /\ SeenSoFar(reader[r])
      BY <1>1, <2>4 DEF ReaderSide, Calm
    <3>2. built # <<>> /\ Found = Manifest(Last(built))
      BY <1>1, <1>2, <2>4, CalmDir
    <3> QED BY <1>1, <3>1, <3>2 DEF SeenSoFar
  <2> HIDE DEF new, held
  <2>5. WellFormed(new)
    BY <1>1, <2>2 DEF WellFormed, ReaderSide
  <2>6. Holds(new)
    BY <2>2, <2>3 DEF Holds
  <2>7. Steady(new)
    BY <1>1, <2>2 DEF ReaderSide, Steady
  <2>8. Calm(new)
    BY <2>2, <2>4 DEF Calm, SeenSoFar, Answers
  <2> QED BY <1>1, <2>1, <2>5, <2>6, <2>7, <2>8, OneReader
<1>3. CASE ~Readable("manifest")
  <2>1. ASSUME ~reader[r].disturbed
        PROVE  [pc |-> "error", got |-> NoDataset] = Promised(reader[r].asked)
    <3>1. built = <<>>
      BY <1>1, <1>3, <2>1, CalmDir
    <3> QED BY <3>1 DEF Promised
  <2>2. End(r, "error", NoDataset)
    BY <1>3 DEF ReadManifest
  <2> QED BY <1>1, <2>1, <2>2, EndStep DEF Answers
<1> QED BY <1>2, <1>3

\* read_dataset takes the cases and compares the hash.
LEMMA ReadCasesStep ==
    ASSUME FileSide, ReaderSide, NEW r \in Readers, ReadCases(r)
    PROVE  FileSide' /\ ReaderSide'
<1>0. PICK d : d = Assembled(reader[r].got)
  OBVIOUS
<1>1. /\ reader[r].pc = "reading" /\ UNCHANGED <<dir, builder, edits, built, spoiled>>
      /\ IF ~Readable("cases") THEN End(r, "error", NoDataset)
         ELSE IF d = reader[r].held.hash THEN End(r, "accepted", d)
         ELSE End(r, "drift", NoDataset)
  BY <1>0 DEF ReadCases, Accepted
<1>2. ASSUME ~reader[r].disturbed
      PROVE  /\ Readable("cases") /\ d = reader[r].held.hash
             /\ [pc |-> "accepted", got |-> d] = Promised(reader[r].asked)
  <2>1. /\ built # <<>> /\ reader[r].held = Manifest(Last(built))
        /\ reader[r].got = Manifest(Last(built))
        /\ reader[r].asked.by = "ref" => Last(built).version = reader[r].asked.version
    BY <1>1, <1>2, CalmDir DEF SeenSoFar
  <2>2. /\ Whole(Last(built)) /\ Readable("cases")
        /\ Parsed(dir["cases"]) = Last(built).cases
    BY <1>1, <1>2, <2>1, CalmDir
  <2>3. d = Last(built)
    BY <1>0, <2>1, <2>2 DEF Assembled, Manifest, Whole
  <2>4. reader[r].held.hash = Last(built)
    BY <2>1 DEF Manifest
  <2> QED BY <2>1, <2>2, <2>3, <2>4 DEF Promised
<1>3. CASE ~Readable("cases")
  <2>1. End(r, "error", NoDataset)
    BY <1>1, <1>3
  <2> QED BY <1>1, <1>2, <1>3, <2>1, EndStep DEF Answers
<1>4. CASE Readable("cases") /\ d = reader[r].held.hash
  <2>1. End(r, "accepted", d)
    BY <1>1, <1>4
  <2>2. d \in Range(built)
    BY <1>1, <1>4 DEF ReaderSide, Holds
  <2>3. reader[r].asked.by = "ref" /\ ~reader[r].moved => d.version = reader[r].asked.version
    BY <1>0, <1>1 DEF ReaderSide, Steady, Assembled
  <2> QED BY <1>1, <1>2, <2>1, <2>2, <2>3, EndStep DEF Answers
<1>5. CASE Readable("cases") /\ d # reader[r].held.hash
  <2>1. End(r, "drift", NoDataset)
    BY <1>1, <1>5
  <2> QED BY <1>1, <1>2, <1>5, <2>1, EndStep DEF Answers
<1> QED BY <1>3, <1>4, <1>5

\* Every step of the files keeps both sides.
LEMMA FilesNextInv ==
    ASSUME FileSide, ReaderSide, [FilesNext]_files
    PROVE  FileSide' /\ ReaderSide'
<1>1. CASE UNCHANGED files
  <2>1. UNCHANGED <<dir, builder, reader, built, spoiled>>
    BY <1>1 DEF files
  <2>2. Writing' = Writing
    BY <2>1 DEF Writing
  <2>3. FileSide'
    <3>1. FilesTyped' /\ WritersKnown' /\ ManifestTells' /\ NothingYet'
      BY <2>1, <2>2 DEF FileSide, FilesTyped, WritersKnown, ManifestTells, NothingYet, Telling
    <3>2. LastBuildComes'
      BY <2>1, <2>2 DEF FileSide, LastBuildComes, Comes, Right, Due
    <3> QED BY <3>1, <3>2 DEF FileSide
  <2>4. ASSUME NEW x PROVE /\ Holds(x)' = Holds(x) /\ Steady(x)' = Steady(x) /\ Calm(x)' = Calm(x)
                           /\ WellFormed(x)' = WellFormed(x)
    BY <2>1, <2>2 DEF Holds, Steady, Calm, SeenSoFar, Promised, Readable, Found, WellFormed
  <2> QED BY <2>1, <2>3, <2>4 DEF ReaderSide
<1>2. CASE \/ \E b \in Builders :
                \/ \E order \in Orders, force \in BOOLEAN : StartBuild(b, order, force)
                \/ OpenCases(b) \/ WriteOn(b) \/ OpenManifest(b) \/ StopBuild(b)
           \/ \E f \in DOMAIN dir, v \in Versions : Edit(f, v)
  BY <1>2, WriterStep
<1>3. CASE \E r \in Readers :
            (\E how \in Requests : Ask(r, how)) \/ Resolve(r) \/ ReadManifest(r) \/ ReadCases(r)
  BY <1>3, AskStep, ResolveStep, ReadManifestStep, ReadCasesStep
<1> QED BY <1>1, <1>2, <1>3 DEF FilesNext

\* Nothing is built, written or read at first.
LEMMA FilesInitInv == FilesInit => FileSide /\ ReaderSide
<1> SUFFICES ASSUME FilesInit PROVE FileSide /\ ReaderSide
  OBVIOUS
<1>1. /\ DOMAIN dir = {} /\ built = <<>> /\ spoiled = FALSE
      /\ builder = [b \in Builders |-> Standing("idle")]
  BY DEF FilesInit
<1>2. \A b \in Builders : builder[b].pc = "idle" /\ builder[b].at = 0
                          /\ DOMAIN builder[b] = {"pc", "dataset", "at"}
  BY <1>1 DEF Standing
<1>3. Writing = {}
  BY <1>2 DEF Writing
<1>4. <<>> \in Seq(Range(<<>>)) /\ Range(<<>>) = {}
  BY DEF Range
<1>5. FileSide
  <2>1. builder = [b \in Builders |-> builder[b]]
    BY ONLY <1>1
  <2>2. FilesTyped
    <3>1. built \in Seq(Range(built))
      BY ONLY <1>1, <1>4
    <3>2. DOMAIN dir = {} /\ spoiled = FALSE
      BY <1>1
    <3>3. \A f \in DOMAIN dir : dir[f] \in Seq(Range(dir[f]))
      BY ONLY <3>2
    <3>4. ASSUME NEW b \in Builders
          PROVE  /\ DOMAIN builder[b] = {"pc", "dataset", "at"}
                 /\ builder[b].pc \in Phases /\ builder[b].at \in Nat
      BY <1>2 DEF Phases
    <3> QED BY <2>1, <3>1, <3>2, <3>3, <3>4 DEF FilesTyped
  <2>3. WritersKnown
    BY <1>1, <1>2, <1>4 DEF WritersKnown
  <2>4. ManifestTells /\ NothingYet /\ LastBuildComes
    BY <1>1, <1>3 DEF ManifestTells, NothingYet, LastBuildComes
  <2> QED BY <2>2, <2>3, <2>4 DEF FileSide
<1>6. reader = [r \in Readers |->
        [pc |-> "idle", asked |-> NobodyAsked, held |-> NoManifest, got |-> NoDataset,
         moved |-> FALSE, disturbed |-> FALSE]]
  BY DEF FilesInit
<1>7. ReaderSide
  BY <1>6 DEF ReaderSide, WellFormed, Holds, Steady, Calm
<1> QED BY <1>5, <1>7

\* What the invariant says of the answers that readers get.
LEMMA AnswersRight ==
    FileSide /\ ReaderSide => OnlyBuilt /\ VersionHonoured /\ UndisturbedAnswer
<1> SUFFICES ASSUME FileSide, ReaderSide PROVE OnlyBuilt /\ VersionHonoured /\ UndisturbedAnswer
  OBVIOUS
<1>1. OnlyBuilt
  BY DEF OnlyBuilt, ReaderSide, Holds
<1>2. VersionHonoured
  BY DEF VersionHonoured, ReaderSide, Steady
<1>3. UndisturbedAnswer
  BY DEF UndisturbedAnswer, ReaderSide, Calm, SeenSoFar, Answers
<1> QED BY <1>1, <1>2, <1>3
-----------------------------------------------------------------------------
\* What is always so of the database, the verdicts, the trace and the dataset
\* files.
IInv == RunsWhole /\ VerdictsKept /\ TraceKept /\ FileSide /\ ReaderSide

\* It is so at first.
LEMMA InitIInv == Init => IInv
  BY InitRuns, InitVerdicts, InitTrace, FilesInitInv DEF Init, IInv

\* The invariant of the files speaks of nothing else.
LEMMA FilesAlone ==
    ASSUME FileSide, ReaderSide, UNCHANGED files
    PROVE  FileSide' /\ ReaderSide'
<1>1. [FilesNext]_files
  OBVIOUS
<1> QED BY <1>1, FilesNextInv

\* Every step keeps it.
LEMMA NextIInv == IInv /\ [Next]_vars => IInv'
<1> SUFFICES ASSUME IInv, [Next]_vars PROVE IInv'
  OBVIOUS
<1>1. RunsWhole' /\ VerdictsKept' /\ TraceKept'
  BY NextRuns, NextVerdicts, NextTrace DEF IInv
<1>2. CASE Plan.filed /\ FilesNext /\ UNCHANGED <<study, records>>
  BY <1>1, <1>2, FilesNextInv DEF IInv
<1>3. CASE UNCHANGED files
  BY <1>1, <1>3, FilesAlone DEF IInv
<1>4. Next => \/ Plan.filed /\ FilesNext /\ UNCHANGED <<study, records>>
              \/ UNCHANGED files
  BY DEF Next, RecordEvents, StartRun, RecordResult, RefuseResult, RecordVerdict, RecordPair
<1>5. UNCHANGED vars => UNCHANGED files
  BY DEF vars
<1> QED BY <1>2, <1>3, <1>4, <1>5

\* The invariant of every behaviour.
THEOREM SpecIInv == Spec => []IInv
  BY InitIInv, NextIInv, PTL DEF Spec

\* A gate that passes a run that has ended, that the store kept all of and that
\* is measured for safety says that enough of the planned attempts passed and
\* that no more of them than allowed were unsafe (cli/main.py:424).
THEOREM GateAlwaysMeans == Spec => []GateMeans
<1>1. IInv => GateMeans
  BY RunsGateMeans DEF IInv
<1> QED BY <1>1, SpecIInv, PTL

\* However many verdicts there are: kappa is what agreement.py says it is, the
\* classes account for every example, and the probes tell position and family
\* from content.
THEOREM JudgesAreMeasured == Spec => []JudgesMeasured
<1>1. IInv => JudgesMeasured
  BY JudgesAlwaysMeasured DEF IInv
<1> QED BY <1>1, SpecIInv, PTL

\* However many build, edit and read a dataset at once: what is loaded was
\* built as a whole, is of the version asked for, and is refused only for a
\* reason; and what is generated is balanced for every catalogue and count.
THEOREM DatasetsSound == Spec => []DatasetSound
<1>1. IInv => DatasetSound
  BY AnswersRight, AlwaysBalanced DEF IInv, DatasetSound
<1> QED BY <1>1, SpecIInv, PTL

\* Whatever the runs left in the database: the selection fits the budget and
\* leaves nothing out that still fits, no uninformative case displaces an
\* informative one, and a case is informative exactly when runs disagree on it
\* (selection/discriminative.py:78 and :123).
THEOREM SelectionsFill == Spec => []SelectionFills
<1>1. IInv => SelectionFills
  BY SelectionAlwaysFills DEF IInv
<1> QED BY <1>1, SpecIInv, PTL

\* Whatever a run left in the database: the clusters hold every failed attempt
\* once, the largest first; their labels are true; a shift accounts for all
\* failures when no two clusters share a label; and purity is one when no
\* cluster mixes faults (regression/clustering.py:154 and :210).
THEOREM ClustersSound == Spec => []ClusteringSound
<1>1. IInv => ClusteringSound
  BY ClusteringAlwaysSound DEF IInv
<1> QED BY <1>1, SpecIInv, PTL

\* Whatever the runs left in the database: a run does not differ from itself,
\* the verdict mirrors when the runs are swapped, attempts that did not complete
\* have no influence, a change is significant only as the test says, a sample
\* size is named when there is one, and the estimators count what they claim to
\* (compare.py:119 and :145, stats/).
THEOREM ComparisonsSound == Spec => []ComparisonSound
<1>1. IInv => ComparisonSound
  BY ComparisonAlwaysSound DEF IInv
<1> QED BY <1>1, SpecIInv, PTL

\* Whatever events a trace is made of: no score leaves its range, recovery is
\* credited for what it means, the strict suite gates no less than the default
\* one and a judge gates nothing; and no event undoes a finding or earns points
\* that are not due (evaluators/, registry.py:59).
THEOREM ScoringAlwaysSound == Spec => ScoringSound
<1>1. IInv => ScoresInRange /\ RecoveryEarned /\ GatesOrdered
  BY ScoresAlwaysInRange, RecoveryAlwaysEarned, GatesAlwaysOrdered DEF IInv
<1>2. IInv /\ [Next]_vars => [ScoreMoves]_trace
  BY ScoreAlwaysMoves DEF IInv
<1>3. Spec => []IInv /\ [][Next]_vars
  BY SpecIInv, PTL DEF Spec
<1> QED BY <1>1, <1>2, <1>3, PTL DEF ScoringSound
=============================================================================
