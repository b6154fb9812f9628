------------------------- MODULE BudgetGuardProofs -------------------------
(***************************************************************************)
(* Theorems about BudgetGuard.tla for every number of callers, every       *)
(* ceiling and every error of the estimates.                               *)
(*                                                                         *)
(* That the clamps of _release never bite needs the sum of the             *)
(* reservations in flight.  The invariant states it by its running total:  *)
(* some acc over the callers starts at 0, grows by what each caller holds  *)
(* and ends at what the guard has reserved (Certified).  The recursive sum *)
(* Held of the property is that total: there is no least caller at which   *)
(* the two would differ (HeldIsCertified).                                 *)
(***************************************************************************)
EXTENDS BudgetGuard, FiniteSetTheorems, WellFoundedInduction, TLAPS

USE BudgetAssumption

Certificate(acc, a) ==
    /\ acc \in [0 .. NumCallers -> Nat]
    /\ acc[0] = 0
    /\ \A c \in Callers : acc[c] = acc[c - 1] + held[c][a]
    /\ \A i, k \in 0 .. NumCallers : i <= k => acc[i] <= acc[k]
    /\ acc[NumCallers] = reserved[a]

Certified == \A a \in Axes : \E acc : Certificate(acc, a)

IInv ==
    /\ TypeOK
    /\ IdleHoldNothing
    /\ InFlightExact
    /\ Certified
    /\ CallCeiling
    /\ OvershootBounded

-----------------------------------------------------------------------------
\* The callers are the attempts of one run: finitely many.
LEMMA CallersFinite == IsFiniteSet(Callers)
  BY FS_Interval DEF Callers

\* At most every caller has a call in flight, before and after a step.
LEMMA FewCalling ==
  /\ Cardinality(Calling) \in 0 .. NumCallers
  /\ Cardinality(Calling') \in 0 .. NumCallers
<1>1. Cardinality(Callers) = NumCallers
  BY FS_Interval DEF Callers
<1>2. ASSUME NEW S \in SUBSET Callers
      PROVE  Cardinality(S) \in 0 .. NumCallers
  BY <1>1, CallersFinite, FS_Subset, FS_CardinalityType
<1>3. Calling \in SUBSET Callers /\ Calling' \in SUBSET Callers
  BY DEF Calling
<1> QED
  BY <1>2, <1>3

\* Hence so are the calls in flight.
LEMMA CallingFinite == IsFiniteSet(Calling)
  BY CallersFinite, FS_Subset DEF Calling

\* A caller holds no more than the guard has reserved.
LEMMA HeldIsReserved ==
  ASSUME TypeOK, Certified, NEW c \in Callers, NEW a \in Axes
  PROVE  held[c][a] <= reserved[a]
<1>1. PICK acc : Certificate(acc, a)
  BY DEF Certified
<1>2. c \in 0 .. NumCallers /\ c - 1 \in 0 .. NumCallers /\ c <= NumCallers
  BY DEF Callers
<1>3. acc[c - 1] \in Nat /\ acc[c] \in Nat /\ acc[NumCallers] \in Nat
  BY <1>1, <1>2 DEF Certificate
<1>4. acc[c] = acc[c - 1] + held[c][a] /\ acc[c] <= acc[NumCallers]
  BY <1>1, <1>2 DEF Certificate
<1>5. held[c][a] \in Nat
  BY DEF TypeOK, Amounts
<1> QED
  BY <1>1, <1>3, <1>4, <1>5 DEF Certificate

\* Every set of numbers with a member has a least one.
LEMMA LeastNumber ==
  ASSUME NEW T, T \subseteq Nat, T # {}
  PROVE  \E x \in T : \A y \in T : x <= y
<1>1. PICK x \in T : \A y \in T : ~ (<<y, x>> \in OpToRel(<, Nat))
  BY NatLessThanWellFounded, WFMin, Zenon
<1>2. \A y \in T : ~(y < x)
  BY <1>1 DEF OpToRel
<1> QED
  BY <1>2

\* A total over the callers adds up what each of them holds.
Totalling(acc, a) ==
    acc = [n \in 0 .. NumCallers |-> IF n = 0 THEN 0 ELSE acc[n - 1] + held[n][a]]

\* Two such totals agree: there is no least caller at which they would not.
LEMMA TotalsAgree ==
  ASSUME NEW a \in Axes, NEW f, NEW g, Totalling(f, a), Totalling(g, a)
  PROVE  f[NumCallers] = g[NumCallers]
<1> DEFINE T == {n \in 0 .. NumCallers : f[n] # g[n]}
<1>1. ASSUME NEW n \in 0 .. NumCallers
      PROVE  /\ f[n] = IF n = 0 THEN 0 ELSE f[n - 1] + held[n][a]
             /\ g[n] = IF n = 0 THEN 0 ELSE g[n - 1] + held[n][a]
  BY DEF Totalling
<1>2. ASSUME T # {} PROVE FALSE
  <2>1. T \subseteq Nat
    OBVIOUS
  <2> HIDE DEF T
  <2>2. PICK n \in T : \A k \in T : n <= k
    BY <1>2, <2>1, LeastNumber
  <2> USE DEF T
  <2>3. n \in 0 .. NumCallers /\ f[n] # g[n]
    OBVIOUS
  <2>4. n # 0
    BY <1>1, <2>3
  <2>5. n - 1 \in 0 .. NumCallers /\ n - 1 \notin T
    BY <2>2, <2>3, <2>4
  <2>6. f[n - 1] = g[n - 1]
    BY <2>5
  <2> QED
    BY <1>1, <2>3, <2>4, <2>6
<1> QED
  BY <1>2

\* The recursive sum of the property is the certified total.
LEMMA HeldIsCertified ==
  ASSUME NEW a \in Axes, NEW acc, Certificate(acc, a)
  PROVE  Held(a)[NumCallers] = acc[NumCallers]
<1>1. Totalling(acc, a)
  <2>1. ASSUME NEW n \in 0 .. NumCallers
        PROVE  acc[n] = IF n = 0 THEN 0 ELSE acc[n - 1] + held[n][a]
    BY DEF Certificate, Callers
  <2> QED
    BY <2>1 DEF Certificate, Totalling
<1>2. Held(a) = CHOOSE f : Totalling(f, a)
  BY DEF Held, Totalling
<1>3. Totalling(Held(a), a)
  BY <1>1, <1>2
<1> QED
  BY <1>1, <1>3, TotalsAgree

\* The running total survives a change of what one caller holds.
LEMMA CertificateMoves ==
  ASSUME NEW c \in Callers, NEW a \in Axes, NEW acc, Certificate(acc, a),
         TypeOK, NEW n \in Nat,
         held'[c][a] = n,
         \A d \in Callers \ {c} : held'[d][a] = held[d][a],
         reserved'[a] = reserved[a] - held[c][a] + n
  PROVE  \E nacc : Certificate(nacc, a)'
<1> DEFINE shift == n - held[c][a]
           nacc == [i \in 0 .. NumCallers |->
                      IF i < c THEN acc[i] ELSE acc[i] + shift]
<1>1. held[c][a] \in Nat /\ shift \in Int
  BY DEF TypeOK, Amounts
<1>2. c \in 1 .. NumCallers
  BY DEF Callers
<1>3. \A i \in 0 .. NumCallers : acc[i] \in Nat
  BY DEF Certificate
<1>4. acc[c] = acc[c - 1] + held[c][a]
  BY DEF Certificate
<1>5. \A i \in 0 .. NumCallers : i >= c => acc[i] >= acc[c - 1] + held[c][a]
  BY <1>2, <1>4 DEF Certificate
<1>6. nacc \in [0 .. NumCallers -> Nat]
  <2>1. ASSUME NEW i \in 0 .. NumCallers
        PROVE  (IF i < c THEN acc[i] ELSE acc[i] + shift) \in Nat
    <3>1. acc[c - 1] \in Nat /\ acc[i] \in Nat
      BY <1>2, <1>3
    <3>2. CASE i < c
      BY <3>1, <3>2
    <3>3. CASE ~(i < c)
      <4>1. acc[i] >= acc[c - 1] + held[c][a]
        BY <1>2, <1>5, <3>3
      <4> QED
        BY <1>1, <3>1, <3>3, <4>1
    <3> QED
      BY <3>2, <3>3
  <2> QED
    BY <2>1
<1>7. nacc[0] = 0
  BY <1>2 DEF Certificate
<1>8. ASSUME NEW d \in Callers
      PROVE  nacc[d] = nacc[d - 1] + held'[d][a]
  <2>1. d \in 1 .. NumCallers
    BY DEF Callers
  <2>2. acc[d] = acc[d - 1] + held[d][a] /\ held[d][a] \in Nat
    BY DEF Certificate, TypeOK, Amounts
  <2>3. acc[d] \in Nat /\ acc[d - 1] \in Nat
    BY <1>3, <2>1
  <2>4. CASE d = c
    <3>1. nacc[c] = acc[c] + shift /\ nacc[c - 1] = acc[c - 1]
      BY <1>2
    <3>2. held'[c][a] = n /\ n \in Nat
      OBVIOUS
    <3> QED
      BY ONLY <2>2, <2>3, <2>4, <3>1, <3>2
  <2>5. CASE d < c
    BY <1>2, <2>1, <2>2, <2>5
  <2>6. CASE d > c
    <3>1. nacc[d] = acc[d] + shift /\ nacc[d - 1] = acc[d - 1] + shift
      BY <1>2, <2>1, <2>6
    <3>2. held'[d][a] = held[d][a]
      BY <2>6, <1>2, <2>1
    <3> QED
      BY ONLY <1>1, <2>2, <2>3, <3>1, <3>2
  <2> QED
    BY <1>2, <2>1, <2>4, <2>5, <2>6
<1>9. ASSUME NEW i \in 0 .. NumCallers, NEW k \in 0 .. NumCallers, i <= k
      PROVE  nacc[i] <= nacc[k]
  <2>1. acc[i] \in Nat /\ acc[k] \in Nat /\ acc[i] <= acc[k] /\ acc[c - 1] \in Nat
    BY <1>2, <1>3, <1>9 DEF Certificate
  <2>2. CASE i < c /\ k >= c
    <3>1. acc[i] <= acc[c - 1]
      BY <1>2, <2>2 DEF Certificate
    <3>2. acc[k] >= acc[c - 1] + held[c][a]
      BY <1>5, <2>2
    <3> QED
      BY <1>1, <2>1, <2>2, <3>1, <3>2
  <2>3. CASE i < c /\ k < c
    BY <2>1, <2>3
  <2>4. CASE i >= c
    BY <1>1, <1>2, <1>9, <2>1, <2>4
  <2> QED
    BY <1>2, <2>2, <2>3, <2>4
<1>10. nacc[NumCallers] = reserved'[a]
  <2>1. nacc[NumCallers] = acc[NumCallers] + shift
    BY <1>2
  <2>2. acc[NumCallers] = reserved[a] /\ reserved[a] \in Nat
    BY DEF Certificate, TypeOK, Amounts
  <2> QED
    BY <1>1, <2>1, <2>2
<1> HIDE DEF nacc, shift
<1>11. PICK f : f = nacc
  OBVIOUS
<1>12. Certificate(f, a)'
  BY <1>6, <1>7, <1>8, <1>9, <1>10, <1>11 DEF Certificate
<1> QED
  BY <1>12

-----------------------------------------------------------------------------
\* A new BudgetGuard satisfies the invariant.
LEMMA InitIInv == Init => IInv
<1> SUFFICES ASSUME Init PROVE IInv
  OBVIOUS
<1>1. TypeOK /\ IdleHoldNothing
  BY DEF Init, TypeOK, IdleHoldNothing, Nothing, Amounts
<1>2. InFlightExact
  <2>1. Calling = {}
    BY DEF Init, Calling
  <2> QED
    BY <2>1, FS_EmptySet DEF Init, InFlightExact
<1>3. Certified
  <2> SUFFICES ASSUME NEW a \in Axes
               PROVE  \E acc : Certificate(acc, a)
    BY DEF Certified
  <2> DEFINE acc == [i \in 0 .. NumCallers |-> 0]
  <2>1. Certificate(acc, a)
    BY DEF Certificate, Init, Nothing, Callers
  <2> QED
    BY <2>1
<1>4. CallCeiling
  BY DEF Init, CallCeiling
<1>5. OvershootBounded
  <2> SUFFICES ASSUME NEW a \in Axes, Limit[a] # Unlimited
               PROVE  Committed(a) <= Limit[a] + Slack[a] * (NumCallers - inFlight)
    BY DEF OvershootBounded
  <2>1. Limit[a] \in Nat /\ Slack[a] * NumCallers \in Nat
    BY DEF Amounts
  <2> QED
    BY <2>1 DEF Init, Committed, Nothing
<1> QED
  BY <1>1, <1>2, <1>3, <1>4, <1>5 DEF IInv

-----------------------------------------------------------------------------
\* reserve preserves the invariant: the check of _breach is what keeps the ceilings.
LEMMA ReserveIInv ==
  ASSUME IInv, NEW c \in Callers, NEW e \in Estimates, Reserve(c, e)
  PROVE  IInv'
<1> USE DEF IInv
<1>1. e \in Amounts
  OBVIOUS
<1>2. TypeOK' /\ IdleHoldNothing'
  BY <1>1 DEF TypeOK, IdleHoldNothing, Reserve, Amounts
<1>3. InFlightExact'
  <2>1. Calling' = Calling \cup {c} /\ c \notin Calling
    BY DEF Reserve, Calling, TypeOK
  <2> QED
    BY <2>1, CallingFinite, FS_AddElement DEF InFlightExact, Reserve, TypeOK
<1>4. Certified'
  <2> SUFFICES ASSUME NEW a \in Axes
               PROVE  \E acc : Certificate(acc, a)'
    BY DEF Certified
  <2>1. PICK acc : Certificate(acc, a)
    BY DEF Certified
  <2>2. held[c][a] = 0
    BY DEF Reserve, IdleHoldNothing, Nothing
  <2>3. held'[c][a] = e[a] /\ \A d \in Callers \ {c} : held'[d][a] = held[d][a]
    BY DEF Reserve, TypeOK
  <2>4. reserved'[a] = reserved[a] - held[c][a] + e[a] /\ e[a] \in Nat
    BY <1>1, <2>2 DEF Reserve, TypeOK, Amounts
  <2> QED
    BY <2>1, <2>3, <2>4, CertificateMoves
<1>5. CallCeiling'
  BY DEF CallCeiling, Reserve, Breach, TypeOK
<1>6. OvershootBounded'
  <2> SUFFICES ASSUME NEW a \in Axes, Limit[a] # Unlimited
               PROVE  Committed(a)' <= Limit[a] + Slack[a] * (NumCallers - inFlight')
    BY DEF OvershootBounded
  <2>1. Committed(a)' = Committed(a) + e[a]
    BY <1>1 DEF Committed, Reserve, TypeOK, Amounts
  <2>2. Committed(a) + e[a] <= Limit[a] /\ Limit[a] \in Nat
    BY <1>1 DEF Reserve, Breach, Committed, TypeOK, Amounts
  <2>3. NumCallers - inFlight' \in Nat
    BY <1>3, FewCalling DEF InFlightExact
  <2>4. Slack[a] * (NumCallers - inFlight') \in Nat
    BY <2>3 DEF Amounts
  <2>5. Committed(a) \in Nat /\ e[a] \in Nat
    BY <1>1 DEF Committed, TypeOK, Amounts
  <2> HIDE DEF IInv
  <2> QED
    BY <2>1, <2>2, <2>4, <2>5
<1> QED
  BY <1>2, <1>3, <1>4, <1>5, <1>6

\* What both ends of a call have in common: nothing is clamped.
LEMMA ReleaseExact ==
  ASSUME IInv, NEW c \in Callers, state[c] = "calling",
         state' = [state EXCEPT ![c] = "idle"], Release(c)
  PROVE  /\ inFlight' = inFlight - 1 /\ inFlight' \in Nat
         /\ \A a \in Axes : reserved'[a] = reserved[a] - held[c][a]
         /\ reserved' \in Amounts
         /\ held' \in [Callers -> Amounts]
         /\ state' \in [Callers -> {"idle", "calling", "refused"}]
         /\ IdleHoldNothing'
         /\ InFlightExact'
         /\ Certified'
<1> USE DEF IInv
<1>1. c \in Calling
  BY DEF Calling
<1>2. inFlight > 0
  <2>1. Cardinality(Calling) # 0
    BY <1>1, CallingFinite, FS_EmptySet
  <2> QED
    BY <2>1 DEF InFlightExact, TypeOK
<1>3. inFlight' = inFlight - 1 /\ inFlight' \in Nat
  BY <1>2 DEF Release, Monus, TypeOK
<1>4. InFlightExact'
  <2>1. Calling' = Calling \ {c}
    BY DEF Calling, TypeOK
  <2> QED
    BY <1>1, <1>3, <2>1, CallingFinite, FS_RemoveElement DEF InFlightExact
<1>5. ASSUME NEW a \in Axes
      PROVE  /\ reserved'[a] = reserved[a] - held[c][a]
             /\ reserved'[a] \in Nat
  <2>1. held[c][a] <= reserved[a] /\ held[c][a] \in Nat /\ reserved[a] \in Nat
    BY HeldIsReserved DEF TypeOK, Amounts
  <2> QED
    BY <2>1 DEF Release, Monus
<1>6. reserved' \in Amounts
  BY <1>5 DEF Amounts, Release
<1>7. /\ held' \in [Callers -> Amounts]
      /\ state' \in [Callers -> {"idle", "calling", "refused"}]
      /\ IdleHoldNothing'
  BY DEF TypeOK, Release, IdleHoldNothing, Nothing, Amounts
<1>8. Certified'
  <2> SUFFICES ASSUME NEW a \in Axes
               PROVE  \E acc : Certificate(acc, a)'
    BY DEF Certified
  <2>1. PICK acc : Certificate(acc, a)
    BY DEF Certified
  <2>2. held'[c][a] = 0 /\ \A d \in Callers \ {c} : held'[d][a] = held[d][a]
    BY DEF Release, TypeOK, Nothing
  <2>3. reserved'[a] = reserved[a] - held[c][a] + 0
    BY <1>5 DEF TypeOK, Amounts
  <2> QED
    BY <2>1, <2>2, <2>3, CertificateMoves
<1> QED
  BY <1>3, <1>4, <1>5, <1>6, <1>7, <1>8

\* One call fewer in flight leaves one share of the margin more.
LEMMA ShareReturned ==
  ASSUME NEW s \in Nat, NEW k \in Int
  PROVE  s * (NumCallers - (k - 1)) = s * (NumCallers - k) + s
  OBVIOUS

\* settle preserves the invariant: the margin of the caller pays for what the
\* call consumed beyond its estimate.
LEMMA SettleIInv ==
  ASSUME IInv, NEW c \in Callers, NEW u \in Usages, Settle(c, u)
  PROVE  IInv'
<1> USE DEF IInv
<1>1. u \in Amounts
  OBVIOUS
<1>2. /\ inFlight' = inFlight - 1 /\ inFlight' \in Nat
      /\ \A a \in Axes : reserved'[a] = reserved[a] - held[c][a]
      /\ reserved' \in Amounts
      /\ held' \in [Callers -> Amounts]
      /\ state' \in [Callers -> {"idle", "calling", "refused"}]
      /\ IdleHoldNothing'
      /\ InFlightExact'
      /\ Certified'
  BY ReleaseExact DEF Settle
<1>3. TypeOK'
  BY <1>1, <1>2 DEF TypeOK, Settle, Amounts
<1>4. CallCeiling'
  BY <1>2 DEF CallCeiling, Settle, TypeOK
<1>5. OvershootBounded'
  <2> SUFFICES ASSUME NEW a \in Axes, Limit[a] # Unlimited
               PROVE  Committed(a)' <= Limit[a] + Slack[a] * (NumCallers - inFlight')
    BY DEF OvershootBounded
  <2>1. /\ spent[a] \in Nat /\ reserved[a] \in Nat /\ held[c][a] \in Nat
        /\ u[a] \in Nat /\ Slack[a] \in Nat /\ Limit[a] \in Nat /\ inFlight \in Nat
    BY <1>1 DEF TypeOK, Amounts
  <2>2. spent'[a] = spent[a] + u[a] /\ u[a] <= held[c][a] + Slack[a]
    BY DEF Settle
  <2>3. Committed(a)' <= Committed(a) + Slack[a]
    BY <1>2, <2>1, <2>2 DEF Committed
  <2>4. Committed(a) <= Limit[a] + Slack[a] * (NumCallers - inFlight)
    BY DEF OvershootBounded
  <2>5. Slack[a] * (NumCallers - inFlight')
          = Slack[a] * (NumCallers - inFlight) + Slack[a]
    BY <1>2, <2>1, ShareReturned
  <2>6. Slack[a] * (NumCallers - inFlight) \in Int /\ Committed(a) \in Int
        /\ Committed(a)' \in Int
    BY <1>2, <2>1, <2>2 DEF Committed
  <2> QED
    BY <2>1, <2>3, <2>4, <2>5, <2>6
<1> QED
  BY <1>2, <1>3, <1>4, <1>5

\* abandon preserves the invariant.
LEMMA AbandonIInv ==
  ASSUME IInv, NEW c \in Callers, Abandon(c)
  PROVE  IInv'
<1> USE DEF IInv
<1>1. /\ inFlight' = inFlight - 1 /\ inFlight' \in Nat
      /\ \A a \in Axes : reserved'[a] = reserved[a] - held[c][a]
      /\ reserved' \in Amounts
      /\ held' \in [Callers -> Amounts]
      /\ state' \in [Callers -> {"idle", "calling", "refused"}]
      /\ IdleHoldNothing'
      /\ InFlightExact'
      /\ Certified'
  BY ReleaseExact DEF Abandon
<1>2. TypeOK'
  BY <1>1 DEF TypeOK, Abandon
<1>3. CallCeiling'
  BY <1>1 DEF CallCeiling, Abandon, TypeOK
<1>4. OvershootBounded'
  <2> SUFFICES ASSUME NEW a \in Axes, Limit[a] # Unlimited
               PROVE  Committed(a)' <= Limit[a] + Slack[a] * (NumCallers - inFlight')
    BY DEF OvershootBounded
  <2>1. /\ spent[a] \in Nat /\ reserved[a] \in Nat /\ held[c][a] \in Nat
        /\ Slack[a] \in Nat /\ Limit[a] \in Nat /\ inFlight \in Nat
    BY DEF TypeOK, Amounts
  <2>2. Committed(a)' <= Committed(a)
    BY <1>1, <2>1 DEF Committed, Abandon
  <2>3. Committed(a) <= Limit[a] + Slack[a] * (NumCallers - inFlight)
    BY DEF OvershootBounded
  <2>4. Slack[a] * (NumCallers - inFlight')
          = Slack[a] * (NumCallers - inFlight) + Slack[a]
    BY <1>1, <2>1, ShareReturned
  <2>5. Slack[a] * (NumCallers - inFlight) \in Int /\ Committed(a) \in Int
        /\ Committed(a)' \in Int
    BY <1>1, <2>1 DEF Committed, Abandon
  <2> QED
    BY <2>1, <2>2, <2>3, <2>4, <2>5
<1> QED
  BY <1>1, <1>2, <1>3, <1>4

\* A refusal changes nothing that the guard counts.
LEMMA RefuseIInv ==
  ASSUME IInv, NEW c \in Callers, NEW e \in Estimates, Refuse(c, e)
  PROVE  IInv'
<1> USE DEF IInv
<1>1. Calling' = Calling
  BY DEF Refuse, Calling, TypeOK
<1>2. InFlightExact'
  BY <1>1 DEF Refuse, InFlightExact
<1>3. TypeOK' /\ IdleHoldNothing'
  BY DEF Refuse, TypeOK, IdleHoldNothing
<1>4. Certified'
  BY DEF Refuse, Certified, Certificate
<1>5. CallCeiling' /\ OvershootBounded'
  BY DEF Refuse, CallCeiling, OvershootBounded, Committed
<1> QED
  BY <1>2, <1>3, <1>4, <1>5

\* Every step preserves the invariant.
LEMMA NextIInv ==
  ASSUME IInv, [Next]_vars
  PROVE  IInv'
<1>1. CASE UNCHANGED vars
  BY <1>1 DEF vars, IInv, TypeOK, IdleHoldNothing, InFlightExact, Calling,
         Certified, Certificate, CallCeiling, OvershootBounded, Committed
<1>2. CASE Next
  BY <1>2, ReserveIInv, RefuseIInv, SettleIInv, AbandonIInv DEF Next
<1> QED
  BY <1>1, <1>2

\* The invariant the other theorems rest on.
THEOREM SpecIInv == Spec => []IInv
  BY InitIInv, NextIInv, PTL DEF Spec

-----------------------------------------------------------------------------
(***************************************************************************)
(* What the guard guarantees                                               *)
(***************************************************************************)

\* Every variable keeps its type.
THEOREM TypeCorrect == Spec => []TypeOK
<1>1. IInv => TypeOK
  BY DEF IInv
<1> QED
  BY <1>1, SpecIInv, PTL

\* Settled calls and calls in flight never exceed max_calls.
THEOREM CallsBounded == Spec => []CallCeiling
<1>1. IInv => CallCeiling
  BY DEF IInv
<1> QED
  BY <1>1, SpecIInv, PTL

\* in_flight is the number of calls under way, and what is reserved is what the
\* callers hold, added up: no reservation leaks or is released twice.
THEOREM NothingLeaks == Spec => []ReservationsExact
<1>1. IInv => ReservationsExact
  BY HeldIsCertified DEF IInv, Certified, Certificate, ReservationsExact
<1> QED
  BY <1>1, SpecIInv, PTL

\* Consumption passes a ceiling by at most the error of one call per caller.
THEOREM OvershootIsBounded == Spec => []OvershootBounded
<1>1. IInv => OvershootBounded
  BY DEF IInv
<1> QED
  BY <1>1, SpecIInv, PTL

\* With exact estimates there is no overshoot at all.
THEOREM ExactEstimatesNeverOverspend ==
  ASSUME \A a \in Axes : Slack[a] = 0
  PROVE  Spec => []NoOverspend
<1>1. IInv => NoOverspend
  <2> SUFFICES ASSUME IInv, NEW a \in Axes, Limit[a] # Unlimited
               PROVE  spent[a] <= Limit[a]
    BY DEF NoOverspend
  <2>1. /\ spent[a] \in Nat /\ reserved[a] \in Nat /\ Limit[a] \in Nat
        /\ inFlight \in Nat
    BY DEF IInv, TypeOK, Amounts
  <2>2. Committed(a) <= Limit[a] + Slack[a] * (NumCallers - inFlight)
    BY DEF IInv, OvershootBounded
  <2>3. Slack[a] * (NumCallers - inFlight) = 0
    BY <2>1
  <2> QED
    BY <2>1, <2>2, <2>3 DEF Committed
<1> QED
  BY <1>1, SpecIInv, PTL

\* Once a ceiling is reached it stays reached and no call is made.
LEMMA StepAfterCeiling ==
  ASSUME TypeOK, [Next]_vars, Reached
  PROVE  sent' = sent /\ Reached'
<1>1. ASSUME NEW c \in Callers, NEW e \in Estimates, Reserve(c, e)
      PROVE  FALSE
  <2>1. CASE MaxCalls # Unlimited /\ calls >= MaxCalls
    BY <1>1, <2>1 DEF Reserve, Breach, TypeOK
  <2>2. CASE Limit["tokens"] # Unlimited /\ spent["tokens"] >= Limit["tokens"]
    <3>1. /\ "tokens" \in Axes /\ e["tokens"] \in Nat /\ e["tokens"] > 0
          /\ spent["tokens"] \in Nat /\ reserved["tokens"] \in Nat
          /\ Limit["tokens"] \in Nat
      BY <2>2 DEF TypeOK, Axes, Amounts
    <3> QED
      BY <1>1, <2>2, <3>1 DEF Reserve, Breach, Committed
  <2> QED
    BY <2>1, <2>2 DEF Reached
<1>2. ASSUME NEW c \in Callers, NEW u \in Usages, Settle(c, u)
      PROVE  sent' = sent /\ Reached'
  <2>1. /\ "tokens" \in Axes /\ u["tokens"] \in Nat /\ spent["tokens"] \in Nat
        /\ Limit["tokens"] \in Nat \cup {Unlimited}
    BY DEF TypeOK, Axes, Amounts
  <2>2. calls' = calls + 1 /\ spent'["tokens"] = spent["tokens"] + u["tokens"]
        /\ sent' = sent
    BY <1>2, <2>1 DEF Settle
  <2> QED
    BY <2>1, <2>2 DEF Reached, TypeOK
<1> QED
  BY <1>1, <1>2 DEF Next, vars, Refuse, Abandon, Reached

\* A ceiling reached in settled calls or tokens is final: nothing is sent to the
\* provider afterwards, whatever is released later.
THEOREM CeilingIsFinal == Spec => NothingAfterCeiling
<1>1. IInv /\ [Next]_vars => [Reached => sent' = sent /\ Reached']_vars
  BY StepAfterCeiling DEF IInv
<1> QED
  BY <1>1, SpecIInv, PTL DEF Spec, NothingAfterCeiling
=============================================================================
