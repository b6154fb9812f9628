-------------------------- MODULE TransportProofs --------------------------
(***************************************************************************)
(* Theorems about Transport.tla for every number of callers, every window  *)
(* and allowance, every size of a request and every number of tries.       *)
(*                                                                         *)
(* The argument is that the limiter's events are the requests sent:        *)
(* pruned, they are what the window still holds of those it paced.  What   *)
(* acquire reads in the events then speaks of the requests themselves.     *)
(*                                                                         *)
(* The sums are running totals.  What is said of them for every length is  *)
(* proved by the least number at which it would fail.                      *)
(***************************************************************************)
EXTENDS Transport, FiniteSetTheorems, SequenceTheorems, WellFoundedInduction, TLAPS

-----------------------------------------------------------------------------
\* Least numbers, maxima and powers.

\* Every set of numbers with a member has a least one.
LEMMA LeastNumber ==
    ASSUME NEW T, T \subseteq Nat, T # {}
    PROVE  \E x \in T : \A y \in T : x <= y
<1>1. IsWellFoundedOn(OpToRel(<, Nat), Nat)
  BY NatLessThanWellFounded
<1>2. PICK x \in T : \A y \in T : ~ (<<y, x>> \in OpToRel(<, Nat))
  BY <1>1, WFMin, Zenon
<1>3. \A y \in T : ~(y < x)
  BY <1>2 DEF OpToRel
<1>. QED BY <1>3

LEMMA MinIsLeast ==
    ASSUME NEW T, T \subseteq Nat, T # {}
    PROVE  Min(T) \in T /\ \A y \in T : Min(T) <= y
BY LeastNumber DEF Min

LEMMA MinOfTwo ==
    ASSUME NEW a \in Nat, NEW b \in Nat
    PROVE  Min({a, b}) \in Nat /\ Min({a, b}) <= a
BY MinIsLeast

LEMMA MaxOfTwo ==
    ASSUME NEW a \in Int, NEW b \in Int
    PROVE  Max({a, b}) = IF a >= b THEN a ELSE b
<1>1. \E x \in {a, b} : \A y \in {a, b} : x >= y
  OBVIOUS
<1>. QED BY <1>1 DEF Max

LEMMA MaxOfThree ==
    ASSUME NEW a \in Int, NEW b \in Int
    PROVE  /\ Max({0, a, b}) \in {0, a, b}
           /\ \A x \in {0, a, b} : Max({0, a, b}) >= x
<1>1. \E x \in {0, a, b} : \A y \in {0, a, b} : x >= y
  <2>1. CASE a >= b /\ a >= 0
    BY <2>1
  <2>2. CASE b >= a /\ b >= 0
    BY <2>2
  <2>3. CASE 0 >= a /\ 0 >= b
    BY <2>3
  <2>. QED BY <2>1, <2>2, <2>3
<1>. QED BY <1>1 DEF Max

\* A set of k members has 2 ^ k subsets.
LEMMA PowerOfTwo ==
    ASSUME NEW k \in Nat
    PROVE  2 ^ k \in Nat
<1>1. IsFiniteSet(1 .. k) /\ Cardinality(1 .. k) = k
  BY FS_Interval
<1>2. IsFiniteSet(SUBSET (1 .. k)) /\ Cardinality(SUBSET (1 .. k)) = 2 ^ k
  BY <1>1, FS_SUBSET
<1>. QED BY <1>2, FS_CardinalityType

-----------------------------------------------------------------------------
\* Running totals.

LEMMA TotalsExist ==
    ASSUME NEW ns \in Seq(Nat)
    PROVE  \E f : f = [k \in 0 .. Len(ns) |-> IF k = 0 THEN 0 ELSE f[k - 1] + ns[k]]
<1>. DEFINE Upto(n) == \E f : f = [k \in 0 .. n |-> IF k = 0 THEN 0 ELSE f[k - 1] + ns[k]]
           T == {n \in 0 .. Len(ns) : ~Upto(n)}
<1>1. T \subseteq Nat
  OBVIOUS
<1>2. ASSUME T # {} PROVE FALSE
  <2>1. PICK n \in T : \A y \in T : n <= y
    <3>. HIDE DEF T
    <3>. QED BY <1>1, <1>2, LeastNumber
  <2>2. n # 0
    <3>. DEFINE f == [k \in 0 .. 0 |-> 0]
    <3>1. f = [k \in 0 .. 0 |-> IF k = 0 THEN 0 ELSE f[k - 1] + ns[k]]
      OBVIOUS
    <3>. QED BY <3>1, <2>1
  <2>3. Upto(n - 1)
    <3>1. n \in 0 .. Len(ns)
      BY <2>1, Zenon
    <3>2. n - 1 \in 0 .. Len(ns) /\ n - 1 \notin T
      <4>. HIDE DEF T
      <4>. QED BY <2>1, <2>2, <3>1
    <3>. QED BY <3>2, Zenon
  <2>4. PICK g : g = [k \in 0 .. (n - 1) |-> IF k = 0 THEN 0 ELSE g[k - 1] + ns[k]]
    BY <2>3
  <2>. DEFINE f == [k \in 0 .. n |-> IF k = n THEN g[n - 1] + ns[n] ELSE g[k]]
  <2>5. f = [k \in 0 .. n |-> IF k = 0 THEN 0 ELSE f[k - 1] + ns[k]]
    <3>1. ASSUME NEW k \in 0 .. n PROVE f[k] = IF k = 0 THEN 0 ELSE f[k - 1] + ns[k]
      BY <2>2, <2>4, <2>1
    <3>. QED BY <3>1
  <2>6. Upto(n)
    BY <2>5
  <2>. QED BY <2>1, <2>6
<1>3. Upto(Len(ns))
  BY <1>2
<1>. QED BY <1>3

LEMMA TotalsStep ==
    ASSUME NEW ns \in Seq(Nat)
    PROVE  /\ Totals(ns)[0] = 0
           /\ \A k \in 1 .. Len(ns) : Totals(ns)[k] = Totals(ns)[k - 1] + ns[k]
<1>1. Totals(ns) = [k \in 0 .. Len(ns) |-> IF k = 0 THEN 0 ELSE Totals(ns)[k - 1] + ns[k]]
  BY TotalsExist DEF Totals
<1>. QED BY <1>1

LEMMA TotalsNat ==
    ASSUME NEW ns \in Seq(Nat)
    PROVE  \A k \in 0 .. Len(ns) : Totals(ns)[k] \in Nat
<1>. DEFINE T == {k \in 0 .. Len(ns) : Totals(ns)[k] \notin Nat}
<1>1. T \subseteq Nat
  OBVIOUS
<1>2. ASSUME T # {} PROVE FALSE
  <2>1. PICK n \in T : \A y \in T : n <= y
    <3>. HIDE DEF T
    <3>. QED BY <1>1, <1>2, LeastNumber
  <2>2. n # 0
    BY <2>1, TotalsStep
  <2>3. n - 1 \in 0 .. Len(ns) /\ n - 1 \notin T
    BY <2>1, <2>2
  <2>4. Totals(ns)[n - 1] \in Nat /\ ns[n] \in Nat
    BY <2>1, <2>2, <2>3
  <2>5. Totals(ns)[n] = Totals(ns)[n - 1] + ns[n]
    BY <2>1, <2>2, TotalsStep
  <2>. QED BY <2>1, <2>4, <2>5
<1>. QED BY <1>2

\* A stretch of a sequence adds to the total what it adds up to by itself.
LEMMA TotalsOfStretch ==
    ASSUME NEW ns \in Seq(Nat), NEW ms \in Seq(Nat), NEW d \in Nat,
           d + Len(ms) <= Len(ns),
           \A k \in 1 .. Len(ms) : ms[k] = ns[d + k]
    PROVE  \A k \in 0 .. Len(ms) : Totals(ns)[d + k] = Totals(ns)[d] + Totals(ms)[k]
<1>. DEFINE T == {k \in 0 .. Len(ms) : Totals(ns)[d + k] # Totals(ns)[d] + Totals(ms)[k]}
<1>1. T \subseteq Nat
  OBVIOUS
<1>2. ASSUME T # {} PROVE FALSE
  <2>1. PICK n \in T : \A y \in T : n <= y
    <3>. HIDE DEF T
    <3>. QED BY <1>1, <1>2, LeastNumber
  <2>2. Totals(ns)[d] \in Nat /\ Totals(ms)[0] = 0
    BY TotalsNat, TotalsStep
  <2>3. n # 0
    BY <2>1, <2>2
  <2>4. n - 1 \in 0 .. Len(ms) /\ n - 1 \notin T
    BY <2>1, <2>3
  <2>5. Totals(ns)[d + n - 1] = Totals(ns)[d] + Totals(ms)[n - 1]
    BY <2>1, <2>4
  <2>6. Totals(ms)[n] = Totals(ms)[n - 1] + ms[n]
    BY <2>1, <2>3, TotalsStep
  <2>7. Totals(ns)[d + n] = Totals(ns)[d + n - 1] + ns[d + n]
    <3>1. d + n \in 1 .. Len(ns)
      BY <2>1, <2>3
    <3>. QED BY <3>1, TotalsStep
  <2>8. Totals(ms)[n - 1] \in Nat /\ ms[n] = ns[d + n] /\ ms[n] \in Nat
    <3>1. Totals(ms)[n - 1] \in Nat
      BY <2>4, TotalsNat
    <3>2. n \in 1 .. Len(ms)
      BY <2>1, <2>3
    <3>. HIDE DEF T
    <3>3. ms[n] = ns[d + n]
      BY <3>2
    <3>4. ms[n] \in Nat
      BY <3>2
    <3>. QED BY <3>1, <3>3, <3>4, Zenon
  <2>9. Totals(ns)[d + n] = Totals(ns)[d] + Totals(ms)[n]
    <3>1. /\ Totals(ns)[d + n] = (Totals(ns)[d] + Totals(ms)[n - 1]) + ms[n]
          /\ Totals(ms)[n] = Totals(ms)[n - 1] + ms[n]
      BY ONLY <2>5, <2>6, <2>7, <2>8, Zenon
    <3>. DEFINE x == Totals(ns)[d]
                y == Totals(ms)[n - 1]
                z == ms[n]
    <3>2. x \in Nat /\ y \in Nat /\ z \in Nat
      BY ONLY <2>2, <2>8
    <3>3. Totals(ns)[d + n] = (x + y) + z /\ Totals(ms)[n] = y + z
      BY ONLY <3>1
    <3>. HIDE DEF x, y, z
    <3>4. (x + y) + z = x + (y + z)
      BY ONLY <3>2
    <3>. QED BY ONLY <3>3, <3>4, Zenon DEF x
  <2>. QED BY <2>1, <2>9
<1>. QED BY <1>2

LEMMA TotalsOfZeros ==
    ASSUME NEW ns \in Seq(Nat), NEW m \in 0 .. Len(ns), \A k \in 1 .. m : ns[k] = 0
    PROVE  Totals(ns)[m] = 0
<1>. DEFINE T == {k \in 0 .. m : Totals(ns)[k] # 0}
<1>1. T \subseteq Nat
  OBVIOUS
<1>2. ASSUME T # {} PROVE FALSE
  <2>1. PICK n \in T : \A y \in T : n <= y
    <3>. HIDE DEF T
    <3>. QED BY <1>1, <1>2, LeastNumber
  <2>2. n # 0
    BY <2>1, TotalsStep
  <2>3. Totals(ns)[n - 1] = 0
    BY <2>1, <2>2
  <2>4. Totals(ns)[n] = Totals(ns)[n - 1] + ns[n] /\ ns[n] = 0
    BY <2>1, <2>2, TotalsStep
  <2>. QED BY <2>1, <2>3, <2>4
<1>. QED BY <1>2

LEMMA TotalsGrow ==
    ASSUME NEW ns \in Seq(Nat), NEW i \in 0 .. Len(ns), NEW j \in 0 .. Len(ns), i <= j
    PROVE  Totals(ns)[i] <= Totals(ns)[j]
<1>. DEFINE ms == [k \in 1 .. (j - i) |-> ns[i + k]]
<1>1. ms \in Seq(Nat) /\ Len(ms) = j - i /\ \A k \in 1 .. Len(ms) : ms[k] = ns[i + k]
  OBVIOUS
<1>2. i + Len(ms) <= Len(ns) /\ i \in Nat /\ j - i \in 0 .. Len(ms)
  BY <1>1
<1>. HIDE DEF ms
<1>3. Totals(ns)[i + (j - i)] = Totals(ns)[i] + Totals(ms)[j - i]
  BY <1>1, <1>2, TotalsOfStretch
<1>4. Totals(ms)[j - i] \in Nat /\ Totals(ns)[i] \in Nat
  BY <1>1, <1>2, TotalsNat
<1>. QED BY <1>3, <1>4
-----------------------------------------------------------------------------
\* The inductive invariant.

OldestFirst(es) == \A i, j \in DOMAIN es : i <= j => es[i].age >= es[j].age

\* What the window holds of the limiter's events is what it holds of the
\* requests that the limiter paced; those sent before there was any limit are
\* older.
EventsAreSent(es, ss) ==
    LET fresh == Prune(es)
        before == Len(ss) - Len(fresh)
    IN  /\ before \in Nat
        /\ \A k \in 1 .. before : ~ss[k].paced
        /\ \A k \in 1 .. Len(fresh) :
             /\ ss[before + k].paced
             /\ ss[before + k].age = fresh[k].age
             /\ ss[before + k].tokens = fresh[k].tokens

\* A cap on the requests has been there from the start.
CapPacesAll == limits.requests # None => \A k \in DOMAIN sent : sent[k].paced

UnlimitedIsUnused == IsUnlimited => events = <<>> /\ \A c \in Callers : pc[c] # "pacing"

\* A call of n tokens is admitted once the d oldest events are gone.
FitsAfter(lim, es, d, n) ==
    /\ lim.requests # None => Len(es) - d < lim.requests
    /\ lim.tokens # None => Used(es) - Freed(es, d) + n <= lim.tokens \/ n > lim.tokens

\* When the sleep of c ends, enough events have left the window for its call.
Settled(c) ==
    \E d \in 0 .. Len(events) :
        /\ \A k \in 1 .. d : events[k].age + nap[c] >= Window
        /\ FitsAfter(limits, events, d, size[c])

\* Who has slept as often as it may holds the lock and sleeps long enough.
LastSleepSettles ==
    \A c \in Callers :
        pc[c] = "pacing" /\ credit[c] = 0 =>
            queue # <<>> /\ Head(queue) = c /\ Settled(c)

\* The tries left, the sleeps and what the provider asked for, by where the
\* call stands.
CallShape ==
    \A c \in Callers :
        /\ pc[c] \in {"idle", "pacing", "backoff"} => tries[c] <= MaxRetries
        /\ pc[c] = "posting" => tries[c] > 0
        /\ pc[c] \in {"idle", "posting"} => nap[c] = 0
        /\ pc[c] \in {"idle", "pacing", "posting"} => owed[c] = 0
        /\ pc[c] = "backoff" => owed[c] <= nap[c]

IInv ==
    /\ TypeOK
    /\ OldestFirst(events)
    /\ OldestFirst(sent)
    /\ EventsAreSent(events, sent)
    /\ CapPacesAll
    /\ UnlimitedIsUnused
    /\ WindowRespected
    /\ SleepsExact
    /\ LastSleepSettles
    /\ CallShape

-----------------------------------------------------------------------------
\* Pruning.

Event == [age : 0 .. Window, tokens : Nat]
Sent == [age : 0 .. Window, tokens : Nat, paced : BOOLEAN]

LEMMA StaleCut ==
    ASSUME NEW S, \A e \in S : e.age \in Nat, NEW es \in Seq(S), OldestFirst(es)
    PROVE  /\ Stale(es) \in 0 .. Len(es)
           /\ \A k \in 1 .. Len(es) : k <= Stale(es) <=> es[k].age >= Window
<1>. DEFINE cuts == {n \in 0 .. Len(es) : n < Len(es) => es[n + 1].age < Window}
<1>1. cuts \subseteq Nat /\ Len(es) \in cuts
  OBVIOUS
<1>2. Stale(es) \in cuts /\ \A n \in cuts : Stale(es) <= n
  <2>1. Stale(es) = Min(cuts)
    BY DEF Stale
  <2>. HIDE DEF cuts
  <2>. QED BY <1>1, <2>1, MinIsLeast
<1>3. ASSUME NEW k \in 1 .. Len(es), k <= Stale(es) PROVE es[k].age >= Window
  <2>1. k - 1 \in 0 .. Len(es) /\ k - 1 < Stale(es) /\ k - 1 < Len(es)
    BY <1>2, <1>3
  <2>2. k - 1 \notin cuts
    <3>1. Stale(es) \in Nat
      BY <1>2
    <3>. HIDE DEF cuts
    <3>. QED BY <1>2, <2>1, <3>1
  <2>3. ~(es[(k - 1) + 1].age < Window)
    BY <2>1, <2>2
  <2>4. es[k].age \in Nat
    OBVIOUS
  <2>. QED BY <2>3, <2>4, LimiterAssumption
<1>4. ASSUME NEW k \in 1 .. Len(es), k > Stale(es) PROVE es[k].age < Window
  <2>1. Stale(es) \in 0 .. Len(es) /\ Stale(es) + 1 \in 1 .. Len(es)
    BY <1>2, <1>4
  <2>2. es[Stale(es) + 1].age < Window
    BY <1>2, <2>1
  <2>3. es[Stale(es) + 1].age >= es[k].age
    BY <1>4, <2>1 DEF OldestFirst
  <2>4. es[k].age \in Nat /\ es[Stale(es) + 1].age \in Nat
    BY <2>1
  <2>. QED BY <2>2, <2>3, <2>4, LimiterAssumption
<1>5. \A k \in 1 .. Len(es) : es[k].age \in Nat
  OBVIOUS
<1>. QED
  <2>. HIDE DEF cuts
  <2>1. Stale(es) \in 0 .. Len(es)
    BY <1>2 DEF cuts
  <2>. QED BY <2>1, <1>3, <1>4, <1>5, LimiterAssumption

LEMMA PruneCut ==
    ASSUME NEW S, NEW es \in Seq(S), Stale(es) \in 0 .. Len(es)
    PROVE  /\ Prune(es) \in Seq(S)
           /\ Len(Prune(es)) = Len(es) - Stale(es)
           /\ \A k \in 1 .. Len(Prune(es)) : Prune(es)[k] = es[Stale(es) + k]
BY DEF Prune

\* What is left after a prune is fresh, and in its order.
LEMMA PruneIsFresh ==
    ASSUME NEW S, \A e \in S : e.age \in Nat, NEW es \in Seq(S), OldestFirst(es)
    PROVE  /\ Prune(es) \in Seq(S)
           /\ Len(Prune(es)) = Len(es) - Stale(es)
           /\ Stale(es) \in 0 .. Len(es)
           /\ \A k \in 1 .. Len(Prune(es)) :
                Prune(es)[k] = es[Stale(es) + k] /\ Prune(es)[k].age < Window
           /\ OldestFirst(Prune(es))
<1>1. /\ Stale(es) \in 0 .. Len(es)
      /\ \A k \in 1 .. Len(es) : k <= Stale(es) <=> es[k].age >= Window
  BY StaleCut
<1>2. /\ Prune(es) \in Seq(S)
      /\ Len(Prune(es)) = Len(es) - Stale(es)
      /\ \A k \in 1 .. Len(Prune(es)) : Prune(es)[k] = es[Stale(es) + k]
  BY <1>1, PruneCut
<1>3. ASSUME NEW k \in 1 .. Len(Prune(es)) PROVE Prune(es)[k].age < Window
  <2>1. Stale(es) + k \in 1 .. Len(es) /\ ~(Stale(es) + k <= Stale(es))
    BY <1>1, <1>2
  <2>2. ~(es[Stale(es) + k].age >= Window) /\ es[Stale(es) + k].age \in Nat
    BY <1>1, <2>1
  <2>. QED BY <1>2, <2>2, LimiterAssumption
<1>4. OldestFirst(Prune(es))
  <2>. SUFFICES ASSUME NEW i \in 1 .. Len(Prune(es)), NEW j \in 1 .. Len(Prune(es)), i <= j
                PROVE  Prune(es)[i].age >= Prune(es)[j].age
    BY <1>2 DEF OldestFirst
  <2>1. /\ Stale(es) + i \in 1 .. Len(es)
        /\ Stale(es) + j \in 1 .. Len(es)
        /\ Stale(es) + i <= Stale(es) + j
    BY <1>1, <1>2
  <2>2. es[Stale(es) + i].age >= es[Stale(es) + j].age
    BY <2>1 DEF OldestFirst
  <2>. QED BY <1>2, <2>2
<1>. QED BY <1>1, <1>2, <1>3, <1>4

\* Pruning what is fresh changes nothing.
LEMMA FreshStays ==
    ASSUME NEW S, \A e \in S : e.age \in Nat, NEW es \in Seq(S), OldestFirst(es),
           \A k \in 1 .. Len(es) : es[k].age < Window
    PROVE  Stale(es) = 0 /\ Prune(es) = es
<1>1. /\ Stale(es) \in 0 .. Len(es)
      /\ \A k \in 1 .. Len(es) : k <= Stale(es) <=> es[k].age >= Window
  BY StaleCut
<1>2. Stale(es) = 0
  <2>. SUFFICES ASSUME Stale(es) # 0 PROVE FALSE
    OBVIOUS
  <2>1. 1 \in 1 .. Len(es) /\ 1 <= Stale(es)
    BY <1>1
  <2>2. es[1].age >= Window /\ es[1].age < Window /\ es[1].age \in Nat
    BY <1>1, <2>1
  <2>. QED BY <2>2, LimiterAssumption
<1>3. Prune(es) = es
  BY <1>2 DEF Prune
<1>. QED BY <1>2, <1>3

-----------------------------------------------------------------------------
\* The tokens of the events.

TokensOf(es) == [j \in DOMAIN es |-> es[j].tokens]

LEMMA TokensAreNumbers ==
    ASSUME NEW es \in Seq(Event)
    PROVE  /\ TokensOf(es) \in Seq(Nat)
           /\ Len(TokensOf(es)) = Len(es)
           /\ \A k \in 1 .. Len(es) : TokensOf(es)[k] = es[k].tokens
           /\ \A k \in 0 .. Len(es) : Freed(es, k) = Totals(TokensOf(es))[k]
           /\ Used(es) = Totals(TokensOf(es))[Len(es)]
<1>1. \A k : Freed(es, k) = Totals(TokensOf(es))[k]
  BY Zenon DEF TokensOf, Freed
<1>2. Used(es) = Totals(TokensOf(es))[Len(es)]
  BY <1>1, Zenon DEF Used
<1>3. DOMAIN es = 1 .. Len(es) /\ Len(es) \in Nat /\ \A k \in 1 .. Len(es) : es[k].tokens \in Nat
  <2>1. DOMAIN es = 1 .. Len(es) /\ Len(es) \in Nat /\ \A k \in 1 .. Len(es) : es[k] \in Event
    OBVIOUS
  <2>2. \A e \in Event : e.tokens \in Nat
    BY DEF Event
  <2>. QED BY <2>1, <2>2
<1>4. TokensOf(es) = [k \in 1 .. Len(es) |-> es[k].tokens]
  BY <1>3, Zenon DEF TokensOf
<1>5. /\ TokensOf(es) \in Seq(Nat)
      /\ Len(TokensOf(es)) = Len(es)
      /\ \A k \in 1 .. Len(es) : TokensOf(es)[k] = es[k].tokens
  BY <1>3, <1>4
<1>. QED BY <1>1, <1>2, <1>5, Zenon

LEMMA TokensGrow ==
    ASSUME NEW es \in Seq(Event)
    PROVE  /\ Freed(es, 0) = 0
           /\ Used(es) \in Nat
           /\ \A k \in 0 .. Len(es) : Freed(es, k) \in Nat /\ Freed(es, k) <= Used(es)
           /\ \A i, j \in 0 .. Len(es) : i <= j => Freed(es, i) <= Freed(es, j)
<1>. DEFINE ns == TokensOf(es)
<1>1. ns \in Seq(Nat) /\ Len(ns) = Len(es)
  BY TokensAreNumbers
<1>2. /\ \A k \in 0 .. Len(es) : Freed(es, k) = Totals(ns)[k]
      /\ Used(es) = Totals(ns)[Len(es)]
  BY TokensAreNumbers
<1>. HIDE DEF ns
<1>3. Len(es) \in Nat /\ 0 \in 0 .. Len(es) /\ Len(es) \in 0 .. Len(es)
  OBVIOUS
<1>4. Freed(es, 0) = 0
  BY <1>1, <1>2, <1>3, TotalsStep, Zenon
<1>5. Used(es) \in Nat /\ \A k \in 0 .. Len(es) : Freed(es, k) \in Nat
  BY <1>1, <1>2, <1>3, TotalsNat, Zenon
<1>6. ASSUME NEW i \in 0 .. Len(es), NEW j \in 0 .. Len(es), i <= j
      PROVE  Freed(es, i) <= Freed(es, j)
  <2>1. i \in 0 .. Len(ns) /\ j \in 0 .. Len(ns)
    BY <1>1
  <2>2. Totals(ns)[i] <= Totals(ns)[j]
    BY <1>1, <1>6, <2>1, TotalsGrow
  <2>. QED BY <1>2, <2>2
<1>7. ASSUME NEW k \in 0 .. Len(es) PROVE Freed(es, k) <= Used(es)
  <2>1. k <= Len(es) /\ Used(es) = Freed(es, Len(es))
    BY <1>2, <1>3
  <2>. QED BY <1>3, <1>6, <2>1
<1>. QED BY <1>4, <1>5, <1>6, <1>7

LEMMA UsedAfterPrune ==
    ASSUME NEW es \in Seq(Event), OldestFirst(es)
    PROVE  Used(Prune(es)) = Used(es) - Freed(es, Stale(es))
<1>1. \A e \in Event : e.age \in Nat
  BY LimiterAssumption DEF Event
<1>2. /\ Prune(es) \in Seq(Event)
      /\ Len(Prune(es)) = Len(es) - Stale(es)
      /\ Stale(es) \in 0 .. Len(es)
      /\ \A k \in 1 .. Len(Prune(es)) : Prune(es)[k] = es[Stale(es) + k]
  BY <1>1, PruneIsFresh
<1>. DEFINE ns == TokensOf(es)
           ms == TokensOf(Prune(es))
           d == Stale(es)
<1>3. ns \in Seq(Nat) /\ ms \in Seq(Nat) /\ Len(ns) = Len(es) /\ Len(ms) = Len(es) - d
  BY <1>2, TokensAreNumbers
<1>4. ASSUME NEW k \in 1 .. Len(ms) PROVE ms[k] = ns[d + k]
  <2>1. k \in 1 .. Len(Prune(es)) /\ d + k \in 1 .. Len(es)
    BY <1>2, <1>3
  <2>2. ms[k] = Prune(es)[k].tokens /\ ns[d + k] = es[d + k].tokens
    BY <1>2, <2>1, TokensAreNumbers, Zenon
  <2>3. Prune(es)[k] = es[d + k]
    BY <1>2, <2>1
  <2>. QED BY ONLY <2>2, <2>3, Zenon
<1>5. /\ Used(es) = Totals(ns)[Len(es)] /\ Freed(es, d) = Totals(ns)[d]
      /\ Used(Prune(es)) = Totals(ms)[Len(es) - d]
  BY <1>2, TokensAreNumbers
<1>. HIDE DEF ns, ms
<1>6. d \in Nat /\ d + Len(ms) <= Len(ns) /\ Len(es) - d \in 0 .. Len(ms) /\ Len(es) \in Nat
  BY <1>2, <1>3
<1>7. Totals(ns)[d + (Len(es) - d)] = Totals(ns)[d] + Totals(ms)[Len(es) - d]
  BY <1>3, <1>4, <1>6, TotalsOfStretch
<1>8. Totals(ns)[d] \in Nat /\ Totals(ms)[Len(es) - d] \in Nat
  BY <1>2, <1>3, <1>6, TotalsNat
<1>9. d + (Len(es) - d) = Len(es)
  BY <1>6
<1>. QED BY <1>5, <1>7, <1>8, <1>9

LEMMA UsedAfterAppend ==
    ASSUME NEW es \in Seq(Event), NEW e \in Event
    PROVE  Used(Append(es, e)) = Used(es) + e.tokens
<1>. DEFINE es2 == Append(es, e)
           ns == TokensOf(es)
           ms == TokensOf(es2)
<1>1. es2 \in Seq(Event) /\ Len(es2) = Len(es) + 1 /\ Len(es) \in Nat
  OBVIOUS
<1>2. ns \in Seq(Nat) /\ ms \in Seq(Nat) /\ Len(ns) = Len(es) /\ Len(ms) = Len(es) + 1
  BY <1>1, TokensAreNumbers
<1>3. ASSUME NEW k \in 1 .. Len(ns) PROVE ns[k] = ms[0 + k]
  <2>1. k \in 1 .. Len(es) /\ k \in 1 .. Len(es2) /\ es2[k] = es[k] /\ 0 + k = k
    BY <1>1, <1>2
  <2>2. ns[k] = es[k].tokens
    BY <2>1, TokensAreNumbers
  <2>3. ms[k] = es2[k].tokens
    BY <1>1, <2>1, TokensAreNumbers
  <2>. QED BY <2>1, <2>2, <2>3
<1>4. ms[Len(es) + 1] = e.tokens
  <2>1. Len(es) + 1 \in 1 .. Len(es2) /\ es2[Len(es) + 1] = e
    BY <1>1
  <2>2. ms[Len(es) + 1] = es2[Len(es) + 1].tokens
    <3>. HIDE DEF es2
    <3>. QED BY <1>1, <2>1, TokensAreNumbers
  <2>. QED BY <2>1, <2>2
<1>5. Used(es) = Totals(ns)[Len(es)] /\ Used(es2) = Totals(ms)[Len(es) + 1]
  BY <1>1, TokensAreNumbers
<1>. HIDE DEF ns, ms
<1>6. Totals(ms)[0 + Len(es)] = Totals(ms)[0] + Totals(ns)[Len(es)]
  <2>1. 0 + Len(ns) <= Len(ms) /\ Len(es) \in 0 .. Len(ns)
    BY <1>1, <1>2
  <2>2. 0 \in Nat
    OBVIOUS
  <2>. QED BY ONLY <1>2, <1>3, <2>1, <2>2, TotalsOfStretch
<1>7. /\ Totals(ms)[0] = 0
      /\ Totals(ms)[Len(es) + 1] = Totals(ms)[(Len(es) + 1) - 1] + ms[Len(es) + 1]
  <2>1. Len(es) + 1 \in 1 .. Len(ms)
    BY <1>1, <1>2
  <2>. QED BY <1>2, <2>1, TotalsStep
<1>8. Totals(ns)[Len(es)] \in Nat /\ e.tokens \in Nat
  BY <1>1, <1>2, TotalsNat DEF Event
<1>9. (Len(es) + 1) - 1 = Len(es) /\ 0 + Len(es) = Len(es)
  BY <1>1
<1>. HIDE DEF es2
<1>10. Used(es2) = Used(es) + e.tokens
  BY <1>4, <1>5, <1>6, <1>7, <1>8, <1>9
<1>. QED BY <1>10 DEF es2

-----------------------------------------------------------------------------
\* The wait that acquire computes.

\* The wait is none exactly when the call fits as it is.
LEMMA NoWaitFits ==
    ASSUME limits \in RateLimits, NEW es \in Seq(Event), OldestFirst(es),
           \A k \in 1 .. Len(es) : es[k].age < Window, NEW n \in Nat
    PROVE  /\ WaitNeeded(es, n) \in 0 .. Window
           /\ WaitNeeded(es, n) = 0 <=> FitsAfter(limits, es, 0, n)
<1>1. Len(es) \in Nat /\ \A k \in 1 .. Len(es) : Window - Age(es, k) \in 1 .. Window
  <2>1. \A k \in 1 .. Len(es) : es[k] \in Event
    OBVIOUS
  <2>2. \A k \in 1 .. Len(es) : es[k].age \in 0 .. Window
    BY <2>1 DEF Event
  <2>. QED BY <2>2, LimiterAssumption DEF Age
<1>2. /\ RequestWait(es) \in 0 .. Window
      /\ RequestWait(es) = 0 <=> (limits.requests # None => Len(es) < limits.requests)
  <2>1. CASE limits.requests # None /\ Len(es) >= limits.requests
    <3>1. limits.requests \in Nat \ {0}
      BY <2>1 DEF RateLimits, Caps
    <3>2. Len(es) - limits.requests + 1 \in 1 .. Len(es)
      BY <1>1, <2>1, <3>1
    <3>3. RequestWait(es) = Window - Age(es, Len(es) - limits.requests + 1)
      BY <2>1 DEF RequestWait
    <3>4. RequestWait(es) \in 1 .. Window
      BY <1>1, <3>2, <3>3
    <3>. QED BY <1>1, <2>1, <3>1, <3>4, LimiterAssumption
  <2>2. CASE ~(limits.requests # None /\ Len(es) >= limits.requests)
    <3>1. RequestWait(es) = 0
      BY <2>2 DEF RequestWait
    <3>2. limits.requests # None => limits.requests \in Nat
      BY DEF RateLimits, Caps
    <3>. QED BY <1>1, <2>2, <3>1, <3>2, LimiterAssumption
  <2>. QED BY <2>1, <2>2
<1>. DEFINE fits == limits.tokens # None => Used(es) + n <= limits.tokens \/ n > limits.tokens
<1>3. Used(es) \in Nat /\ \A k \in 0 .. Len(es) : Freed(es, k) \in Nat /\ Freed(es, k) <= Used(es)
  BY TokensGrow
<1>4. MakesRoom(es, n) \subseteq 1 .. Len(es)
  BY DEF MakesRoom
<1>5. /\ TokenWait(es, n) \in 0 .. Window
      /\ TokenWait(es, n) = 0 <=> fits
  <2>1. CASE limits.tokens = None
    BY <2>1, LimiterAssumption DEF TokenWait
  <2>2. CASE limits.tokens # None
    <3>1. limits.tokens \in Nat
      BY <2>2 DEF RateLimits, Caps
    <3>2. CASE Used(es) + n <= limits.tokens
      BY <3>2, LimiterAssumption DEF TokenWait
    <3>3. CASE Used(es) + n > limits.tokens /\ MakesRoom(es, n) = {}
      <4>1. TokenWait(es, n) = 0
        BY <3>3 DEF TokenWait
      <4>2. n > limits.tokens
        <5>. SUFFICES ASSUME n <= limits.tokens PROVE FALSE
          BY <3>1
        <5>1. Len(es) # 0
          BY <1>3, <3>1, <3>3, TokensGrow DEF Used
        <5>2. Len(es) \in DOMAIN es
          BY <5>1, <1>1
        <5>3. Used(es) - Freed(es, Len(es)) + n <= limits.tokens
          BY <1>3 DEF Used
        <5>. QED BY <3>3, <5>2, <5>3 DEF MakesRoom
      <4>. QED BY <4>1, <4>2, LimiterAssumption
    <3>4. CASE Used(es) + n > limits.tokens /\ MakesRoom(es, n) # {}
      <4>1. Min(MakesRoom(es, n)) \in MakesRoom(es, n)
        BY <1>1, <1>4, <3>4, MinIsLeast
      <4>2. TokenWait(es, n) = Window - Age(es, Min(MakesRoom(es, n)))
        <5>1. ~(Used(es) + n <= limits.tokens)
          BY <1>3, <3>1, <3>4
        <5>. QED BY <2>2, <3>4, <5>1 DEF TokenWait
      <4>3. TokenWait(es, n) \in 1 .. Window
        BY <1>1, <1>4, <4>1, <4>2
      <4>4. PICK k \in 1 .. Len(es) : Used(es) - Freed(es, k) + n <= limits.tokens
        BY <1>1, <3>4 DEF MakesRoom
      <4>5. ~(n > limits.tokens)
        BY <1>3, <3>1, <4>4
      <4>. QED BY <1>3, <2>2, <3>1, <3>4, <4>3, <4>5
    <3>. QED BY <1>3, <3>1, <3>2, <3>3, <3>4
  <2>. QED BY <2>1, <2>2
<1>6. /\ WaitNeeded(es, n) \in {0, RequestWait(es), TokenWait(es, n)}
      /\ \A x \in {0, RequestWait(es), TokenWait(es, n)} : WaitNeeded(es, n) >= x
  <2>1. RequestWait(es) \in Int /\ TokenWait(es, n) \in Int
    <3>. HIDE DEF fits
    <3>. QED BY <1>2, <1>5, LimiterAssumption
  <2>. QED BY <2>1, MaxOfThree, Zenon DEF WaitNeeded
<1>7. FitsAfter(limits, es, 0, n) <=> (limits.requests # None => Len(es) < limits.requests) /\ fits
  <2>1. Freed(es, 0) = 0 /\ Len(es) - 0 = Len(es) /\ Used(es) - 0 = Used(es)
    BY <1>1, <1>3, TokensGrow
  <2>. QED BY <2>1 DEF FitsAfter
<1>. HIDE DEF fits
<1>8. WaitNeeded(es, n) \in 0 .. Window
  BY <1>2, <1>5, <1>6, LimiterAssumption
<1>9. WaitNeeded(es, n) = 0 <=> RequestWait(es) = 0 /\ TokenWait(es, n) = 0
  BY <1>2, <1>5, <1>6, LimiterAssumption
<1>. QED BY <1>2, <1>5, <1>7, <1>8, <1>9

\* Once it is over the call fits: the events that had to go have left.
LEMMA WaitSuffices ==
    ASSUME limits \in RateLimits, NEW es \in Seq(Event), OldestFirst(es),
           \A k \in 1 .. Len(es) : es[k].age < Window, NEW n \in Nat
    PROVE  \E d \in 0 .. Len(es) :
              /\ \A k \in 1 .. d : es[k].age + WaitNeeded(es, n) >= Window
              /\ FitsAfter(limits, es, d, n)
<1>. DEFINE w == WaitNeeded(es, n)
            room(d) == limits.requests # None => Len(es) - d < limits.requests
            fits(d) == limits.tokens # None =>
                         Used(es) - Freed(es, d) + n <= limits.tokens \/ n > limits.tokens
            gone(d) == \A k \in 1 .. d : es[k].age + w >= Window
<1>1. Len(es) \in Nat /\ \A k \in 1 .. Len(es) : es[k].age \in Nat
  <2>1. \A k \in 1 .. Len(es) : es[k] \in Event
    OBVIOUS
  <2>. QED BY <2>1, LimiterAssumption DEF Event
<1>2. w \in Nat
  BY NoWaitFits, LimiterAssumption
<1>3. /\ Used(es) \in Nat
      /\ \A k \in 0 .. Len(es) : Freed(es, k) \in Nat /\ Freed(es, k) <= Used(es)
      /\ \A i, j \in 0 .. Len(es) : i <= j => Freed(es, i) <= Freed(es, j)
      /\ Freed(es, 0) = 0
  BY TokensGrow
<1>4. RequestWait(es) \in Int /\ TokenWait(es, n) \in Int
  <2>1. limits.requests # None => limits.requests \in Nat \ {0}
    BY DEF RateLimits, Caps
  <2>2. RequestWait(es) \in Int
    BY <1>1, <2>1, LimiterAssumption DEF RequestWait, Age
  <2>3. MakesRoom(es, n) # {} => Min(MakesRoom(es, n)) \in 1 .. Len(es)
    <3>1. MakesRoom(es, n) \subseteq 1 .. Len(es)
      BY DEF MakesRoom
    <3>. QED BY <1>1, <3>1, MinIsLeast
  <2>4. TokenWait(es, n) \in Int
    BY <1>1, <2>3, LimiterAssumption DEF TokenWait, Age
  <2>. QED BY <2>2, <2>4
<1>5. w >= RequestWait(es) /\ w >= TokenWait(es, n)
  BY <1>4, MaxOfThree DEF WaitNeeded
<1>6. \A d \in 1 .. Len(es) : w >= Window - Age(es, d) => gone(d)
  <2>. SUFFICES ASSUME NEW d \in 1 .. Len(es), w >= Window - Age(es, d), NEW k \in 1 .. d
                PROVE  es[k].age + w >= Window
    OBVIOUS
  <2>1. es[k].age >= es[d].age
    BY <1>1 DEF OldestFirst
  <2>2. es[k].age \in Nat /\ es[d].age \in Nat
    BY <1>1
  <2>. HIDE DEF w
  <2>. QED BY <1>2, <2>1, <2>2, LimiterAssumption DEF Age
<1>7. PICK d1 \in 0 .. Len(es) : gone(d1) /\ room(d1)
  <2>1. CASE limits.requests # None /\ Len(es) >= limits.requests
    <3>. DEFINE d == Len(es) - limits.requests + 1
    <3>1. limits.requests \in Nat \ {0}
      BY <2>1 DEF RateLimits, Caps
    <3>2. d \in 1 .. Len(es) /\ room(d)
      BY <1>1, <2>1, <3>1
    <3>3. w >= Window - Age(es, d)
      BY <1>5, <2>1 DEF RequestWait
    <3>4. gone(d)
      <4>. HIDE DEF gone, d
      <4>. QED BY <1>6, <3>2, <3>3
    <3>. QED BY <3>2, <3>4
  <2>2. CASE ~(limits.requests # None /\ Len(es) >= limits.requests)
    <3>1. limits.requests # None => limits.requests \in Nat
      BY DEF RateLimits, Caps
    <3>2. room(0) /\ gone(0) /\ 0 \in 0 .. Len(es)
      BY <1>1, <2>2, <3>1
    <3>. QED BY <3>2
  <2>. QED BY <2>1, <2>2
<1>8. PICK d2 \in 0 .. Len(es) : gone(d2) /\ fits(d2)
  <2>1. CASE limits.tokens # None /\ ~(Used(es) + n <= limits.tokens) /\ MakesRoom(es, n) # {}
    <3>. DEFINE d == Min(MakesRoom(es, n))
    <3>1. MakesRoom(es, n) \subseteq 1 .. Len(es)
      BY DEF MakesRoom
    <3>2. d \in MakesRoom(es, n)
      BY <1>1, <2>1, <3>1, MinIsLeast
    <3>3. d \in 1 .. Len(es) /\ Used(es) - Freed(es, d) + n <= limits.tokens
      <4>. HIDE DEF d
      <4>. QED BY <3>2 DEF MakesRoom
    <3>4. w >= Window - Age(es, d)
      BY <1>5, <2>1 DEF TokenWait
    <3>5. gone(d)
      <4>. HIDE DEF gone, d
      <4>. QED BY <1>6, <3>3, <3>4
    <3>. QED BY <3>3, <3>5
  <2>2. CASE limits.tokens = None \/ Used(es) + n <= limits.tokens
    <3>1. fits(0) /\ gone(0) /\ 0 \in 0 .. Len(es)
      BY <1>1, <1>3, <2>2
    <3>. QED BY <3>1
  <2>3. CASE /\ limits.tokens # None
             /\ ~(Used(es) + n <= limits.tokens)
             /\ MakesRoom(es, n) = {}
    <3>1. WaitNeeded(es, n) \in Nat /\ limits.tokens \in Nat
      BY <1>2, <2>3 DEF RateLimits, Caps
    <3>2. n > limits.tokens
      <4>. SUFFICES ASSUME n <= limits.tokens PROVE FALSE
        BY <3>1
      <4>1. Len(es) # 0
        BY <1>3, <2>3, <3>1 DEF Used
      <4>2. Len(es) \in DOMAIN es
        BY <4>1, <1>1
      <4>3. Used(es) - Freed(es, Len(es)) + n <= limits.tokens
        BY <1>3 DEF Used
      <4>. QED BY <2>3, <4>2, <4>3 DEF MakesRoom
    <3>3. fits(0) /\ gone(0) /\ 0 \in 0 .. Len(es)
      BY <1>1, <3>2
    <3>. QED BY <3>3
  <2>. QED BY <2>1, <2>2, <2>3
<1>. DEFINE d == IF d1 >= d2 THEN d1 ELSE d2
<1>9. d \in 0 .. Len(es) /\ d >= d1 /\ d >= d2 /\ d \in {d1, d2}
  OBVIOUS
<1>10. gone(d)
  BY <1>7, <1>8, <1>9
<1>11. room(d)
  <2>1. limits.requests # None => limits.requests \in Nat
    BY DEF RateLimits, Caps
  <2>. HIDE DEF d
  <2>. QED BY <1>1, <1>7, <1>9, <2>1
<1>12. fits(d)
  <2>1. limits.tokens # None => limits.tokens \in Nat
    BY DEF RateLimits, Caps
  <2>2. Freed(es, d2) <= Freed(es, d) /\ Freed(es, d) \in Nat /\ Freed(es, d2) \in Nat
    <3>. HIDE DEF d
    <3>. QED BY <1>3, <1>9
  <2>. HIDE DEF d
  <2>. QED BY <1>3, <1>8, <2>1, <2>2
<1>13. FitsAfter(limits, es, d, n)
  BY <1>11, <1>12 DEF FitsAfter
<1>. QED BY <1>9, <1>10, <1>13

-----------------------------------------------------------------------------
\* What the mirror of the requests gives.

LEMMA EventAges == \A e \in Event : e.age \in Nat /\ e.age <= Window
BY LimiterAssumption DEF Event

LEMMA SentAges == \A p \in Sent : p.age \in Nat
BY LimiterAssumption DEF Sent

\* PacedTokens, for any requests.
PacedOf(ss) ==
    Totals([k \in DOMAIN ss |-> IF ss[k].paced THEN ss[k].tokens ELSE 0])[Len(ss)]

\* The requests of the window that were paced cost what the fresh events cost.
LEMMA PacedIsUsed ==
    ASSUME NEW es \in Seq(Event), OldestFirst(es), NEW ss \in Seq(Sent),
           EventsAreSent(es, ss)
    PROVE  PacedOf(ss) = Used(Prune(es))
<1>. DEFINE fresh == Prune(es)
            m == Len(ss) - Len(fresh)
            ns == [k \in DOMAIN ss |-> IF ss[k].paced THEN ss[k].tokens ELSE 0]
            ms == TokensOf(fresh)
<1>1. fresh \in Seq(Event) /\ Len(fresh) \in Nat
  BY EventAges, PruneIsFresh
<1>2. ms \in Seq(Nat) /\ Len(ms) = Len(fresh) /\ Used(fresh) = Totals(ms)[Len(fresh)]
  <2>. HIDE DEF fresh
  <2>. QED BY <1>1, TokensAreNumbers
<1>3. \A k \in 1 .. Len(ss) : ss[k].tokens \in Nat
  <2>1. \A k \in 1 .. Len(ss) : ss[k] \in Sent
    OBVIOUS
  <2>. QED BY <2>1 DEF Sent
<1>4. /\ ns \in Seq(Nat) /\ Len(ns) = Len(ss)
      /\ \A k \in 1 .. Len(ss) : ns[k] = IF ss[k].paced THEN ss[k].tokens ELSE 0
  <2>1. DOMAIN ss = 1 .. Len(ss) /\ Len(ss) \in Nat
    OBVIOUS
  <2>2. ns \in [1 .. Len(ss) -> Nat]
    BY ONLY <1>3, <2>1
  <2>3. ns \in Seq(Nat) /\ Len(ns) = Len(ss)
    <3>. HIDE DEF ns
    <3>. QED BY ONLY <2>1, <2>2
  <2>. QED BY ONLY <2>1, <2>3
<1>5. /\ m \in Nat
      /\ \A k \in 1 .. m : ~ss[k].paced
      /\ \A k \in 1 .. Len(fresh) : ss[m + k].paced /\ ss[m + k].tokens = fresh[k].tokens
  BY Zenon DEF EventsAreSent
<1>6. m \in 0 .. Len(ns) /\ \A k \in 1 .. m : ns[k] = 0
  <2>1. m \in 0 .. Len(ss)
    <3>. HIDE DEF fresh
    <3>. QED BY <1>1, <1>5
  <2>2. \A k \in 1 .. m : k \in 1 .. Len(ss)
    <3>. HIDE DEF m
    <3>. QED BY <2>1
  <2>. HIDE DEF m, ns
  <2>. QED BY <1>4, <1>5, <2>1, <2>2
<1>7. \A k \in 1 .. Len(ms) : ms[k] = ns[m + k]
  <2>. SUFFICES ASSUME NEW k \in 1 .. Len(ms) PROVE ms[k] = ns[m + k]
    OBVIOUS
  <2>1. k \in 1 .. Len(fresh) /\ m + k \in 1 .. Len(ss)
    <3>. HIDE DEF fresh, ms
    <3>. QED BY <1>1, <1>2, <1>5
  <2>2. ms[k] = fresh[k].tokens
    <3>. HIDE DEF fresh
    <3>. QED BY <1>1, <2>1, TokensAreNumbers
  <2>. HIDE DEF fresh, m, ns, ms
  <2>. QED BY <1>4, <1>5, <2>1, <2>2
<1>8. m + Len(ms) = Len(ss) /\ Len(ms) \in 0 .. Len(ms)
  <2>. HIDE DEF fresh, ms
  <2>. QED BY <1>1, <1>2, <1>5
<1>9. PacedOf(ss) = Totals(ns)[Len(ss)]
  BY Zenon DEF PacedOf
<1>. HIDE DEF fresh, m, ns, ms
<1>10. Totals(ns)[m] = 0
  BY <1>4, <1>6, TotalsOfZeros
<1>11. Totals(ns)[m + Len(ms)] = Totals(ns)[m] + Totals(ms)[Len(ms)]
  <2>1. m + Len(ms) <= Len(ns)
    BY <1>4, <1>8
  <2>2. m \in Nat
    BY <1>5
  <2>3. \A k \in 0 .. Len(ms) : Totals(ns)[m + k] = Totals(ns)[m] + Totals(ms)[k]
    BY <1>2, <1>4, <1>7, <2>1, <2>2, TotalsOfStretch
  <2>. QED BY <1>8, <2>3
<1>12. Totals(ms)[Len(ms)] \in Nat
  BY <1>2, <1>8, TotalsNat
<1>13. PacedOf(ss) = Used(fresh)
  BY <1>2, <1>8, <1>9, <1>10, <1>11, <1>12
<1>. QED BY <1>13 DEF fresh

\* A sleep that settles the call is enough when it is over.
LEMMA SettledFits ==
    ASSUME IInv, NEW c \in Callers, Settled(c), nap[c] = 0
    PROVE  FitsAfter(limits, Prune(events), 0, size[c])
<1>. DEFINE fresh == Prune(events)
            st == Stale(events)
<1>1. events \in Seq(Event) /\ OldestFirst(events) /\ limits \in RateLimits /\ size[c] \in Nat
  BY DEF IInv, TypeOK, Event
<1>2. /\ fresh \in Seq(Event) /\ Len(fresh) = Len(events) - st /\ st \in 0 .. Len(events)
  BY <1>1, EventAges, PruneIsFresh
<1>3. \A k \in 1 .. Len(events) : k <= st <=> events[k].age >= Window
  BY <1>1, EventAges, StaleCut
<1>4. PICK d \in 0 .. Len(events) :
        /\ \A k \in 1 .. d : events[k].age + nap[c] >= Window
        /\ FitsAfter(limits, events, d, size[c])
  BY DEF Settled
<1>5. d <= st
  <2>. SUFFICES ASSUME d > st PROVE FALSE
    BY <1>2
  <2>1. d \in 1 .. d /\ d \in 1 .. Len(events)
    BY <1>2
  <2>2. events[d].age \in Nat /\ events[d].age + 0 >= Window
    BY <1>1, <1>4, <2>1, EventAges
  <2>. QED BY <1>2, <1>3, <2>1, <2>2, LimiterAssumption
<1>6. Used(fresh) = Used(events) - Freed(events, st)
  BY <1>1, UsedAfterPrune
<1>7. /\ Used(events) \in Nat /\ Freed(events, d) \in Nat /\ Freed(events, st) \in Nat
      /\ Freed(events, d) <= Freed(events, st)
  BY <1>1, <1>2, <1>5, TokensGrow
<1>8. Freed(fresh, 0) = 0
  BY <1>2, TokensGrow
<1>9. Len(events) \in Nat
  BY <1>1
<1>10. /\ limits.requests # None => limits.requests \in Nat
       /\ limits.tokens # None => limits.tokens \in Nat
  BY <1>1 DEF RateLimits, Caps
<1>. HIDE DEF fresh, st
<1>11. limits.requests # None => Len(fresh) - 0 < limits.requests
  BY <1>2, <1>4, <1>5, <1>9, <1>10 DEF FitsAfter
<1>12. limits.tokens # None =>
          Used(fresh) - Freed(fresh, 0) + size[c] <= limits.tokens \/ size[c] > limits.tokens
  BY <1>1, <1>4, <1>6, <1>7, <1>8, <1>10 DEF FitsAfter
<1>. QED BY <1>11, <1>12 DEF FitsAfter, fresh

-----------------------------------------------------------------------------
\* The mirror is kept by what happens to the events and the requests.

LEMMA PruneTwice ==
    ASSUME NEW es \in Seq(Event), OldestFirst(es)
    PROVE  Prune(Prune(es)) = Prune(es)
<1>1. /\ Prune(es) \in Seq(Event)
      /\ OldestFirst(Prune(es))
      /\ \A k \in 1 .. Len(Prune(es)) : Prune(es)[k].age < Window
  BY EventAges, PruneIsFresh
<1>. QED BY <1>1, EventAges, FreshStays

\* What is asked of the events and the requests, and of a new one of each.
Mirrored(es, ss) ==
    /\ es \in Seq(Event) /\ OldestFirst(es)
    /\ ss \in Seq(Sent) /\ OldestFirst(ss)
    /\ EventsAreSent(es, ss)

NewPair(e, p) ==
    /\ e \in Event /\ p \in Sent
    /\ e.age = 0 /\ p.age = 0 /\ p.paced /\ p.tokens = e.tokens

\* A request that the limiter admits is its newest event.
LEMMA AdmitMirrors ==
    ASSUME NEW es, NEW ss, Mirrored(es, ss), NEW e, NEW p, NewPair(e, p),
           NEW es2, es2 = Append(Prune(es), e), NEW ss2, ss2 = Append(ss, p)
    PROVE  /\ Mirrored(es2, ss2)
           /\ Prune(es2) = es2
<1>a. /\ es \in Seq(Event) /\ OldestFirst(es)
      /\ ss \in Seq(Sent) /\ OldestFirst(ss)
      /\ EventsAreSent(es, ss)
  BY DEF Mirrored
<1>b. /\ e \in Event /\ p \in Sent
      /\ e.age = 0 /\ p.age = 0 /\ p.paced /\ p.tokens = e.tokens
  BY DEF NewPair
<1>. DEFINE fresh == Prune(es)
            m == Len(ss) - Len(fresh)
<1>1. /\ fresh \in Seq(Event)
      /\ OldestFirst(fresh)
      /\ \A k \in 1 .. Len(fresh) : fresh[k].age < Window
      /\ Len(fresh) \in Nat
  BY <1>a, EventAges, PruneIsFresh
<1>2. /\ m \in Nat
      /\ \A k \in 1 .. m : ~ss[k].paced
      /\ \A k \in 1 .. Len(fresh) :
           /\ ss[m + k].paced
           /\ ss[m + k].age = fresh[k].age
           /\ ss[m + k].tokens = fresh[k].tokens
  BY <1>a, Zenon DEF EventsAreSent
<1>3. es2 = Append(fresh, e)
  OBVIOUS
<1>. HIDE DEF fresh
<1>4. \A k \in 1 .. Len(fresh) + 1 : k \in 1 .. Len(fresh) \/ k = Len(fresh) + 1
  BY <1>1
<1>5. /\ es2 \in Seq(Event)
      /\ Len(es2) = Len(fresh) + 1
      /\ es2[Len(fresh) + 1] = e
      /\ \A k \in 1 .. Len(fresh) : es2[k] = fresh[k]
      /\ DOMAIN es2 = 1 .. Len(fresh) + 1
  BY <1>1, <1>3, <1>b, AppendProperties
<1>6. /\ Len(ss) \in Nat
      /\ Len(ss2) = Len(ss) + 1
      /\ ss2[Len(ss) + 1] = p
      /\ \A k \in 1 .. Len(ss) : ss2[k] = ss[k]
      /\ DOMAIN ss2 = 1 .. Len(ss) + 1
  BY <1>a, <1>b, AppendProperties
<1>7. OldestFirst(es2)
  <2>. SUFFICES ASSUME NEW i \in 1 .. Len(fresh) + 1, NEW j \in 1 .. Len(fresh) + 1, i <= j
                PROVE  es2[i].age >= es2[j].age
    BY <1>5 DEF OldestFirst
  <2>1. CASE j \in 1 .. Len(fresh)
    <3>1. i \in 1 .. Len(fresh) /\ DOMAIN fresh = 1 .. Len(fresh)
      BY <1>1, <2>1
    <3>2. fresh[i].age >= fresh[j].age
      BY <1>1, <2>1, <3>1 DEF OldestFirst
    <3>. QED BY <1>5, <2>1, <3>1, <3>2
  <2>2. CASE j = Len(fresh) + 1
    <3>1. es2[j].age = 0
      BY <1>5, <1>b, <2>2
    <3>2. es2[i] \in Event
      BY <1>5, <1>b
    <3>3. es2[i].age \in Nat
      BY <3>2, EventAges, Zenon
    <3>. DEFINE age == es2[i].age
    <3>4. age \in Nat
      BY <3>3
    <3>. HIDE DEF age
    <3>5. age >= 0
      BY <3>4
    <3>. QED BY <3>1, <3>5, Zenon DEF age
  <2>. QED BY <1>4, <2>1, <2>2
<1>8. Prune(es2) = es2
  <2>1. \A k \in 1 .. Len(es2) : es2[k].age < Window
    <3>. SUFFICES ASSUME NEW k \in 1 .. Len(fresh) + 1 PROVE es2[k].age < Window
      BY <1>5
    <3>1. CASE k \in 1 .. Len(fresh)
      BY <1>1, <1>5, <3>1
    <3>2. CASE k = Len(fresh) + 1
      BY <1>5, <1>b, <3>2, LimiterAssumption
    <3>. QED BY <1>4, <3>1, <3>2
  <2>. QED BY <1>5, <1>7, <2>1, EventAges, FreshStays
<1>9. OldestFirst(ss2)
  <2>. SUFFICES ASSUME NEW i \in 1 .. Len(ss) + 1, NEW j \in 1 .. Len(ss) + 1, i <= j
                PROVE  ss2[i].age >= ss2[j].age
    BY <1>6 DEF OldestFirst
  <2>1. CASE j \in 1 .. Len(ss)
    <3>1. i \in 1 .. Len(ss) /\ DOMAIN ss = 1 .. Len(ss)
      BY <1>a, <2>1
    <3>2. ss[i].age >= ss[j].age
      BY <1>a, <2>1, <3>1 DEF OldestFirst
    <3>. QED BY <1>6, <2>1, <3>1, <3>2
  <2>2. CASE j = Len(ss) + 1
    <3>1. ss2[j].age = 0
      BY <1>6, <1>b, <2>2
    <3>2. ss2[i].age \in Nat
      <4>1. CASE i \in 1 .. Len(ss)
        BY <1>6, <1>a, <4>1, SentAges
      <4>2. CASE i = Len(ss) + 1
        BY <1>6, <1>b, <4>2
      <4>. QED BY <1>6, <4>1, <4>2
    <3>. QED BY <3>1, <3>2
  <2>. QED BY <1>6, <2>1, <2>2
<1>10. EventsAreSent(es2, ss2)
  <2>1. Len(ss2) - Len(es2) = m
    BY <1>1, <1>5, <1>6
  <2>2. m + Len(fresh) = Len(ss)
    BY <1>1, <1>6
  <2>. HIDE DEF m
  <2>n. m \in Nat /\ Len(fresh) \in Nat /\ Len(ss) \in Nat
    BY <1>1, <1>2, <1>6
  <2>o. m + (Len(fresh) + 1) = Len(ss) + 1
    BY <2>n, <2>2
  <2>3. \A k \in 1 .. m : ~ss2[k].paced
    BY <1>1, <1>2, <1>6, <2>2
  <2>4. ASSUME NEW k \in 1 .. Len(es2)
        PROVE  /\ ss2[m + k].paced
               /\ ss2[m + k].age = es2[k].age
               /\ ss2[m + k].tokens = es2[k].tokens
    <3>1. CASE k \in 1 .. Len(fresh)
      <4>1. m + k \in 1 .. Len(ss)
        BY <1>1, <1>2, <2>2, <3>1
      <4>. QED BY <1>2, <1>5, <1>6, <3>1, <4>1
    <3>2. CASE k = Len(fresh) + 1
      <4>1. m + k = Len(ss) + 1
        BY <2>o, <3>2, Zenon
      <4>. QED BY <1>5, <1>6, <1>b, <3>2, <4>1
    <3>3. k \in 1 .. Len(fresh) + 1
      BY <1>5
    <3>. QED BY <1>4, <3>1, <3>2, <3>3
  <2>5. Len(ss2) - Len(Prune(es2)) = m /\ m \in Nat
    BY <1>2, <1>8, <2>1
  <2>6. \A k \in 1 .. Len(Prune(es2)) :
          /\ ss2[m + k].paced
          /\ ss2[m + k].age = Prune(es2)[k].age
          /\ ss2[m + k].tokens = Prune(es2)[k].tokens
    BY <1>8, <2>4
  <2>. QED BY <2>3, <2>5, <2>6, Zenon DEF EventsAreSent
<1>11. ss2 \in Seq(Sent)
  BY <1>a, <1>b, AppendProperties
<1>. QED BY <1>5, <1>7, <1>8, <1>9, <1>10, <1>11 DEF Mirrored

\* A function on the first n numbers is a sequence.
LEMMA FunctionIsSeq ==
    ASSUME NEW S, NEW n \in Nat, NEW f, f = [k \in 1 .. n |-> f[k]],
           \A k \in 1 .. n : f[k] \in S
    PROVE  f \in Seq(S) /\ Len(f) = n /\ DOMAIN f = 1 .. n
<1>1. f \in [1 .. n -> S]
  OBVIOUS
<1>2. f \in Seq(S)
  BY <1>1, SMT
<1>3. DOMAIN f = 1 .. n
  BY <1>1
<1>4. Len(f) \in Nat /\ DOMAIN f = 1 .. Len(f)
  BY <1>2
<1>5. Len(f) = n
  BY <1>3, <1>4
<1>. QED BY <1>2, <1>3, <1>5

\* What a tick makes of the events.
Olders(es) == [k \in DOMAIN es |-> [es[k] EXCEPT !.age = Older(@)]]

LEMMA EventsAge ==
    ASSUME NEW es \in Seq(Event), OldestFirst(es), NEW es2, es2 = Olders(es)
    PROVE  /\ es2 \in Seq(Event) /\ Len(es2) = Len(es)
           /\ OldestFirst(es2)
           /\ \A k \in 1 .. Len(es) :
                es2[k].age = Older(es[k].age) /\ es2[k].tokens = es[k].tokens
           /\ TokensOf(es2) = TokensOf(es)
<1>1. /\ Len(es) \in Nat /\ DOMAIN es = 1 .. Len(es)
      /\ \A k \in 1 .. Len(es) : es[k] \in Event
  OBVIOUS
<1>2. ASSUME NEW e \in Event
      PROVE  /\ [e EXCEPT !.age = Older(@)] \in Event
             /\ [e EXCEPT !.age = Older(@)].age = Older(e.age)
             /\ [e EXCEPT !.age = Older(@)].tokens = e.tokens
  BY LimiterAssumption DEF Event, Older
<1>3. \A k \in 1 .. Len(es) : es2[k] = [es[k] EXCEPT !.age = Older(@)]
  BY <1>1 DEF Olders
<1>4. \A k \in 1 .. Len(es) :
        /\ es2[k] \in Event
        /\ es2[k].age = Older(es[k].age)
        /\ es2[k].tokens = es[k].tokens
  BY <1>1, <1>2, <1>3, Zenon
<1>5. es2 = [k \in 1 .. Len(es) |-> es2[k]]
  BY <1>1 DEF Olders
<1>6. es2 \in Seq(Event) /\ Len(es2) = Len(es) /\ DOMAIN es2 = 1 .. Len(es)
  BY <1>1, <1>4, <1>5, FunctionIsSeq
<1>7. OldestFirst(es2)
  <2>. SUFFICES ASSUME NEW i \in 1 .. Len(es), NEW j \in 1 .. Len(es), i <= j
                PROVE  es2[i].age >= es2[j].age
    BY <1>6 DEF OldestFirst
  <2>1. es[i].age >= es[j].age
    BY <1>1 DEF OldestFirst
  <2>2. es[i].age \in Nat /\ es[j].age \in Nat /\ es[i].age <= Window /\ es[j].age <= Window
    BY <1>1, EventAges
  <2>3. es2[i].age = Older(es[i].age) /\ es2[j].age = Older(es[j].age)
    BY <1>4
  <2>. QED BY <2>1, <2>2, <2>3, LimiterAssumption DEF Older
<1>8. TokensOf(es2) = TokensOf(es)
  BY <1>1, <1>4, <1>6 DEF TokensOf
<1>. QED BY <1>4, <1>6, <1>7, <1>8

\* ... and of the requests.
Aged(ss) == [k \in DOMAIN ss |-> [ss[k] EXCEPT !.age = @ + 1]]

LEMMA SentAge ==
    ASSUME NEW ss \in Seq(Sent), OldestFirst(ss), \A k \in 1 .. Len(ss) : ss[k].age < Window,
           NEW aged, aged = Aged(ss)
    PROVE  /\ aged \in Seq(Sent) /\ Len(aged) = Len(ss)
           /\ OldestFirst(aged)
           /\ \A k \in 1 .. Len(ss) :
                /\ aged[k].age = ss[k].age + 1
                /\ aged[k].tokens = ss[k].tokens
                /\ aged[k].paced = ss[k].paced
<1>1. /\ Len(ss) \in Nat /\ DOMAIN ss = 1 .. Len(ss)
      /\ \A k \in 1 .. Len(ss) : ss[k] \in Sent /\ ss[k].age < Window
  OBVIOUS
<1>2. ASSUME NEW p \in Sent, p.age < Window
      PROVE  /\ [p EXCEPT !.age = @ + 1] \in Sent
             /\ [p EXCEPT !.age = @ + 1].age = p.age + 1
             /\ [p EXCEPT !.age = @ + 1].tokens = p.tokens
             /\ [p EXCEPT !.age = @ + 1].paced = p.paced
  <2>1. p.age + 1 \in 0 .. Window /\ p.tokens \in Nat /\ p.paced \in BOOLEAN
    BY <1>2, LimiterAssumption DEF Sent
  <2>2. p = [age |-> p.age, tokens |-> p.tokens, paced |-> p.paced]
    BY DEF Sent
  <2>3. [p EXCEPT !.age = @ + 1] = [age |-> p.age + 1, tokens |-> p.tokens, paced |-> p.paced]
    BY <2>2
  <2>. QED BY <2>1, <2>3, Zenon DEF Sent
<1>3. \A k \in 1 .. Len(ss) : aged[k] = [ss[k] EXCEPT !.age = @ + 1]
  BY <1>1 DEF Aged
<1>4. \A k \in 1 .. Len(ss) :
        /\ aged[k] \in Sent
        /\ aged[k].age = ss[k].age + 1
        /\ aged[k].tokens = ss[k].tokens
        /\ aged[k].paced = ss[k].paced
  BY <1>1, <1>2, <1>3, Zenon
<1>5. aged = [k \in 1 .. Len(ss) |-> aged[k]]
  BY <1>1 DEF Aged
<1>6. aged \in Seq(Sent) /\ Len(aged) = Len(ss) /\ DOMAIN aged = 1 .. Len(ss)
  BY <1>1, <1>4, <1>5, FunctionIsSeq
<1>7. OldestFirst(aged)
  <2>. SUFFICES ASSUME NEW i \in 1 .. Len(ss), NEW j \in 1 .. Len(ss), i <= j
                PROVE  aged[i].age >= aged[j].age
    BY <1>6 DEF OldestFirst
  <2>1. ss[i].age >= ss[j].age
    BY <1>1 DEF OldestFirst
  <2>2. ss[i].age \in Nat /\ ss[j].age \in Nat
    BY <1>1, SentAges
  <2>3. aged[i].age = ss[i].age + 1 /\ aged[j].age = ss[j].age + 1
    BY <1>4
  <2>. QED BY <2>1, <2>2, <2>3
<1>. QED BY <1>4, <1>6, <1>7

\* An event and its request leave the window on the same tick.
LEMMA TickMirrors ==
    ASSUME NEW es \in Seq(Event), OldestFirst(es),
           NEW ss \in Seq(Sent), OldestFirst(ss), \A k \in 1 .. Len(ss) : ss[k].age < Window,
           EventsAreSent(es, ss),
           NEW es2, es2 = Olders(es), NEW aged, aged = Aged(ss)
    PROVE  EventsAreSent(es2, Prune(aged))
<1>. DEFINE st == Stale(es)
            st2 == Stale(es2)
            gone == Stale(aged)
            L == Len(es)
            m == Len(ss) - (L - st)
            ss2 == Prune(aged)
            m2 == Len(ss2) - (L - st2)
<1>1. /\ es2 \in Seq(Event) /\ Len(es2) = L /\ OldestFirst(es2)
      /\ \A k \in 1 .. L : es2[k].age = Older(es[k].age) /\ es2[k].tokens = es[k].tokens
  BY EventsAge
<1>2. /\ aged \in Seq(Sent) /\ Len(aged) = Len(ss) /\ OldestFirst(aged)
      /\ \A k \in 1 .. Len(ss) :
           /\ aged[k].age = ss[k].age + 1
           /\ aged[k].tokens = ss[k].tokens
           /\ aged[k].paced = ss[k].paced
  BY SentAge
<1>3. /\ L \in Nat /\ Len(ss) \in Nat
      /\ \A k \in 1 .. L : es[k].age \in Nat /\ es[k].age <= Window
      /\ \A k \in 1 .. Len(ss) : ss[k].age \in Nat
  BY EventAges, SentAges
<1>4. st \in 0 .. L /\ \A k \in 1 .. L : k <= st <=> es[k].age >= Window
  BY EventAges, StaleCut
<1>5. st2 \in 0 .. L /\ \A k \in 1 .. L : k <= st2 <=> es2[k].age >= Window
  BY <1>1, EventAges, StaleCut
<1>6. gone \in 0 .. Len(ss) /\ \A k \in 1 .. Len(ss) : k <= gone <=> aged[k].age >= Window
  BY <1>2, SentAges, StaleCut
<1>7. /\ Len(Prune(es)) = L - st
      /\ \A k \in 1 .. L - st : Prune(es)[k] = es[st + k]
  BY <1>4, PruneCut
<1>8. /\ Len(Prune(es2)) = L - st2
      /\ \A k \in 1 .. L - st2 : Prune(es2)[k] = es2[st2 + k]
  <2>1. Stale(es2) \in 0 .. Len(es2)
    BY <1>1, <1>5
  <2>2. /\ Len(Prune(es2)) = Len(es2) - Stale(es2)
        /\ \A k \in 1 .. Len(Prune(es2)) : Prune(es2)[k] = es2[Stale(es2) + k]
    BY <1>1, <2>1, PruneCut
  <2>. QED BY <1>1, <2>2, Zenon
<1>9. /\ Len(ss2) = Len(ss) - gone
      /\ \A k \in 1 .. Len(ss) - gone : ss2[k] = aged[gone + k]
  <2>1. Stale(aged) \in 0 .. Len(aged)
    BY <1>2, <1>6
  <2>2. /\ Len(Prune(aged)) = Len(aged) - Stale(aged)
        /\ \A k \in 1 .. Len(Prune(aged)) : Prune(aged)[k] = aged[Stale(aged) + k]
    BY <1>2, <2>1, PruneCut
  <2>. QED BY <1>2, <2>2, Zenon
<1>10. /\ m \in Nat
       /\ \A k \in 1 .. m : ~ss[k].paced
       /\ \A k \in 1 .. L - st :
            /\ ss[m + k].paced
            /\ ss[m + k].age = es[st + k].age
            /\ ss[m + k].tokens = es[st + k].tokens
  BY <1>7, Zenon DEF EventsAreSent
<1>. HIDE DEF st, st2, gone, L, ss2
<1>11. m + (L - st) = Len(ss)
  BY <1>3, <1>4
<1>. HIDE DEF m
<1>n. /\ st \in Nat /\ st2 \in Nat /\ gone \in Nat /\ L \in Nat /\ m \in Nat /\ Len(ss) \in Nat
      /\ st <= L /\ st2 <= L /\ gone <= Len(ss)
      /\ m + (L - st) = Len(ss)
  BY <1>3, <1>4, <1>5, <1>6, <1>10, <1>11
\* They leave together.
<1>12. \A k \in 1 .. L - st : m + k <= gone <=> st + k <= st2
  <2>. SUFFICES ASSUME NEW k \in 1 .. L - st PROVE m + k <= gone <=> st + k <= st2
    OBVIOUS
  <2>1. m + k \in 1 .. Len(ss) /\ st + k \in 1 .. L /\ ~(st + k <= st)
    BY <1>n
  <2>2. es[st + k].age \in Nat /\ ~(es[st + k].age >= Window)
    BY <1>3, <1>4, <2>1
  <2>3. es2[st + k].age = es[st + k].age + 1
    BY <1>1, <2>1, <2>2, LimiterAssumption DEF Older
  <2>4. aged[m + k].age = es[st + k].age + 1
    BY <1>2, <1>10, <2>1
  <2>. QED BY <1>5, <1>6, <2>1, <2>3, <2>4
<1>13. st <= st2
  <2>. SUFFICES ASSUME st > st2 PROVE FALSE
    BY <1>n
  <2>1. st \in 1 .. L
    BY <1>n
  <2>2. es[st].age >= Window /\ es[st].age \in Nat
    BY <1>3, <1>4, <2>1
  <2>3. es2[st].age >= Window
    BY <1>1, <2>1, <2>2, LimiterAssumption DEF Older
  <2>. QED BY <1>n, <1>5, <2>1, <2>3
<1>14. gone <= m => st2 = st
  <2>. SUFFICES ASSUME gone <= m, st < st2 PROVE FALSE
    BY <1>n, <1>13
  <2>1. 1 \in 1 .. L - st /\ st + 1 <= st2
    BY <1>n
  <2>2. m + 1 <= gone
    BY <1>12, <2>1
  <2>. QED BY <1>n, <2>2
<1>15. gone > m => st2 = st + (gone - m)
  <2>. SUFFICES ASSUME gone > m PROVE st2 = st + (gone - m)
    OBVIOUS
  <2>1. gone - m \in 1 .. L - st
    BY <1>n
  <2>2. m + (gone - m) <= gone
    BY <1>n
  <2>3. st + (gone - m) <= st2
    BY <1>12, <2>1, <2>2
  <2>4. CASE gone - m = L - st
    BY <1>n, <2>3, <2>4
  <2>5. CASE gone - m # L - st
    <3>1. gone - m + 1 \in 1 .. L - st /\ ~(m + (gone - m + 1) <= gone)
      BY <1>n, <2>1, <2>5
    <3>2. ~(st + (gone - m + 1) <= st2)
      BY <1>12, <3>1
    <3>. QED BY <1>n, <2>3, <3>2
  <2>. QED BY <2>4, <2>5
<1>16. m2 = IF gone <= m THEN m - gone ELSE 0
  <2>1. m2 = (Len(ss) - gone) - (L - st2)
    BY <1>9
  <2>. HIDE DEF m2
  <2>2. CASE gone <= m
    BY <1>n, <1>14, <2>1, <2>2
  <2>3. CASE gone > m
    BY <1>n, <1>15, <2>1, <2>3
  <2>. QED BY <1>n, <2>2, <2>3
<1>17. m2 \in Nat
  BY <1>n, <1>16
<1>. HIDE DEF m2
<1>18. \A k \in 1 .. m2 : ~ss2[k].paced
  <2>. SUFFICES ASSUME NEW k \in 1 .. m2 PROVE ~ss2[k].paced
    OBVIOUS
  <2>1. gone + k \in 1 .. m /\ gone + k \in 1 .. Len(ss) /\ k \in 1 .. Len(ss) - gone
    BY <1>n, <1>16
  <2>2. ss2[k] = aged[gone + k]
    BY <1>9, <2>1
  <2>3. aged[gone + k].paced = ss[gone + k].paced
    BY <1>2, <2>1
  <2>. QED BY <1>10, <2>1, <2>2, <2>3
<1>19. ASSUME NEW k \in 1 .. L - st2
       PROVE  /\ ss2[m2 + k].paced
              /\ ss2[m2 + k].age = es2[st2 + k].age
              /\ ss2[m2 + k].tokens = es2[st2 + k].tokens
  <2>. DEFINE j == st2 - st + k
  <2>1. /\ j \in 1 .. L - st
        /\ st + j = st2 + k
        /\ m + j = gone + (m2 + k)
        /\ ~(st + j <= st2)
        /\ m + j \in 1 .. Len(ss)
        /\ m2 + k \in 1 .. Len(ss) - gone
        /\ st + j \in 1 .. L
    BY <1>n, <1>13, <1>14, <1>15, <1>16, <1>17
  <2>. HIDE DEF j
  <2>2. ss2[m2 + k] = aged[m + j]
    BY <1>9, <2>1
  <2>3. ~(es[st + j].age >= Window) /\ es[st + j].age \in Nat
    BY <1>3, <1>4, <2>1
  <2>4. es2[st + j].age = es[st + j].age + 1 /\ es2[st + j].tokens = es[st + j].tokens
    <3>1. /\ es2[st + j].age = Older(es[st + j].age)
          /\ es2[st + j].tokens = es[st + j].tokens
      BY ONLY <1>1, <2>1
    <3>. QED BY ONLY <2>3, <3>1, LimiterAssumption DEF Older
  <2>5. /\ aged[m + j].paced
        /\ aged[m + j].age = es[st + j].age + 1
        /\ aged[m + j].tokens = es[st + j].tokens
    <3>1. /\ ss[m + j].paced
          /\ ss[m + j].age = es[st + j].age
          /\ ss[m + j].tokens = es[st + j].tokens
      BY ONLY <1>10, <2>1
    <3>2. /\ aged[m + j].age = ss[m + j].age + 1
          /\ aged[m + j].tokens = ss[m + j].tokens
          /\ aged[m + j].paced = ss[m + j].paced
      BY ONLY <1>2, <2>1
    <3>. QED BY ONLY <3>1, <3>2
  <2>. QED BY <2>1, <2>2, <2>4, <2>5
<1>20. Len(ss2) - Len(Prune(es2)) = m2
  BY <1>8 DEF m2
<1>21. \A k \in 1 .. Len(Prune(es2)) :
         /\ ss2[m2 + k].paced
         /\ ss2[m2 + k].age = Prune(es2)[k].age
         /\ ss2[m2 + k].tokens = Prune(es2)[k].tokens
  BY <1>8, <1>19
<1>22. EventsAreSent(es2, ss2)
  BY <1>17, <1>18, <1>20, <1>21, Zenon DEF EventsAreSent
<1>. QED BY <1>22 DEF ss2

-----------------------------------------------------------------------------
\* Every action keeps the invariant.

LEMMA PruneNothing == Prune(<<>>) = <<>>
<1>. DEFINE es == <<>>
<1>1. es \in Seq(Event) /\ Len(es) = 0 /\ DOMAIN es = {}
  OBVIOUS
<1>. HIDE DEF es
<1>2. OldestFirst(es) /\ \A k \in 1 .. Len(es) : es[k].age < Window
  BY <1>1 DEF OldestFirst
<1>3. Prune(es) = es
  BY <1>1, <1>2, EventAges, FreshStays
<1>. QED BY <1>3 DEF es

LEMMA SentIsTyped ==
    ASSUME IInv
    PROVE  sent \in Seq(Sent) /\ \A k \in 1 .. Len(sent) : sent[k].age < Window
<1>. DEFINE S == [age : 0 .. Window - 1, tokens : Nat, paced : BOOLEAN]
<1>1. sent \in Seq(S)
  BY DEF IInv, TypeOK
<1>2. S \subseteq Sent /\ \A p \in S : p.age < Window
  BY LimiterAssumption DEF Sent
<1>. HIDE DEF S
<1>3. sent \in Seq(Sent)
  BY <1>1, <1>2, SeqMonotonic
<1>4. \A k \in 1 .. Len(sent) : sent[k] \in S
  BY <1>1
<1>. QED BY <1>2, <1>3, <1>4

LEMMA InitIInv == Init => IInv
<1>. SUFFICES ASSUME Init PROVE IInv
  OBVIOUS
<1>. USE DEF Init, LimiterInit
<1>1. TypeOK
  BY LimiterAssumption, TransportAssumption DEF TypeOK, Outcomes
<1>2. OldestFirst(events) /\ OldestFirst(sent)
  BY DEF OldestFirst
<1>3. EventsAreSent(events, sent)
  <2>2. Prune(<<>>) = <<>>
    BY PruneNothing
  <2>. QED BY <2>2 DEF EventsAreSent
<1>4. CapPacesAll /\ UnlimitedIsUnused
  BY DEF CapPacesAll, UnlimitedIsUnused
<1>5. WindowRespected
  BY LimiterAssumption DEF WindowRespected, RateLimits, Caps
<1>6. SleepsExact
  <2>1. MaxRetryAfter \in Nat /\ MaxBackoff \in Nat
    BY TransportAssumption
  <2>2. Max2(MaxRetryAfter, MaxBackoff) >= 0
    BY <2>1, MaxOfTwo DEF Max2
  <2>. QED BY <2>2, LimiterAssumption DEF SleepsExact, SleepsAreEnough, NeverLooksHung
<1>7. LastSleepSettles /\ CallShape
  BY TransportAssumption DEF LastSleepSettles, CallShape
<1>. QED BY <1>1, <1>2, <1>3, <1>4, <1>5, <1>6, <1>7 DEF IInv

\* A request that nothing limits, or a place in the line.
LEMMA PaceKeeps ==
    ASSUME IInv, NEW c \in Callers, NEW n \in Nat,
           pc[c] \in {"idle", "backoff"}, nap[c] = 0, tries[c] <= MaxRetries, owed[c] = 0,
           Pace(c, n), size' = [size EXCEPT ![c] = n], UNCHANGED <<limits, nap, outcome, owed>>
    PROVE  IInv'
<1>. DEFINE p == [age |-> 0, tokens |-> n, paced |-> FALSE]
<1>t. TypeOK /\ MaxRetries \in Nat
  BY TransportAssumption DEF IInv
<1>1. CASE /\ IsUnlimited
           /\ Post(c, n, FALSE)
           /\ UNCHANGED <<events, queue, credit>>
  <2>1. /\ pc' = [pc EXCEPT ![c] = "posting"]
        /\ tries' = [tries EXCEPT ![c] = @ + 1]
        /\ sent' = Append(sent, p)
        /\ UNCHANGED <<events, queue, credit, limits, nap, outcome, owed>>
    BY <1>1 DEF Post
  <2>2. p \in [age : 0 .. Window - 1, tokens : Nat, paced : BOOLEAN]
    BY LimiterAssumption
  <2>3. p \in Sent /\ p.age = 0 /\ ~p.paced
    BY LimiterAssumption DEF Sent
  <2>. HIDE DEF p
  <2>4. TypeOK'
    <3>1. sent' \in Seq([age : 0 .. Window - 1, tokens : Nat, paced : BOOLEAN])
      BY <1>t, <2>1, <2>2, AppendProperties DEF TypeOK
    <3>2. tries' \in [Callers -> 0 .. MaxRetries + 1]
      BY <1>t, <2>1 DEF TypeOK
    <3>. QED BY <1>t, <2>1, <3>1, <3>2 DEF TypeOK
  <2>5. events = <<>> /\ limits.requests = None /\ \A d \in Callers : pc[d] # "pacing"
    BY <1>1 DEF IInv, UnlimitedIsUnused, IsUnlimited
  <2>6. /\ sent \in Seq(Sent)
        /\ Len(sent) \in Nat
        /\ Len(sent') = Len(sent) + 1
        /\ sent'[Len(sent) + 1] = p
        /\ \A k \in 1 .. Len(sent) : sent'[k] = sent[k] /\ sent[k].age \in Nat
        /\ DOMAIN sent' = 1 .. Len(sent) + 1
    BY <2>1, <2>3, SentIsTyped, SentAges, AppendProperties
  <2>7. OldestFirst(sent)'
    <3>. SUFFICES ASSUME NEW i \in 1 .. Len(sent) + 1, NEW j \in 1 .. Len(sent) + 1, i <= j
                  PROVE  sent'[i].age >= sent'[j].age
      BY <2>6 DEF OldestFirst
    <3>1. CASE j \in 1 .. Len(sent)
      <4>1. i \in 1 .. Len(sent) /\ DOMAIN sent = 1 .. Len(sent)
        BY <2>6, <3>1
      <4>2. sent[i].age >= sent[j].age
        BY <3>1, <4>1 DEF IInv, OldestFirst
      <4>. QED BY <2>6, <3>1, <4>1, <4>2
    <3>2. CASE j = Len(sent) + 1
      <4>1. sent'[j].age = 0
        BY <2>3, <2>6, <3>2
      <4>2. sent'[i].age \in Nat
        <5>1. i \in 1 .. Len(sent) \/ i = Len(sent) + 1
          BY <2>6
        <5>. QED BY <2>3, <2>6, <5>1
      <4>. QED BY <4>1, <4>2
    <3>3. j \in 1 .. Len(sent) \/ j = Len(sent) + 1
      BY <2>6
    <3>. QED BY <3>1, <3>2, <3>3
  <2>8. EventsAreSent(events, sent)'
    <3>2. Prune(<<>>) = <<>>
      BY PruneNothing
    <3>3. \A k \in 1 .. Len(sent) : ~sent[k].paced
      BY <2>5, <2>6, <3>2 DEF IInv, EventsAreSent
    <3>4. \A k \in 1 .. Len(sent) + 1 : ~sent'[k].paced
      <4>. SUFFICES ASSUME NEW k \in 1 .. Len(sent) + 1 PROVE ~sent'[k].paced
        OBVIOUS
      <4>1. k \in 1 .. Len(sent) \/ k = Len(sent) + 1
        BY <2>6
      <4>. QED BY <2>3, <2>6, <3>3, <4>1
    <3>. QED BY <2>1, <2>5, <2>6, <3>2, <3>4 DEF EventsAreSent
  <2>9. CapPacesAll' /\ UnlimitedIsUnused' /\ WindowRespected'
    <3>1. \A d \in Callers : pc'[d] # "pacing"
      BY <1>t, <2>1, <2>5 DEF TypeOK
    <3>. QED BY <2>1, <2>5, <3>1 DEF CapPacesAll, UnlimitedIsUnused, WindowRespected
  <2>10. SleepsExact'
    <3>1. SleepsAreEnough'
      BY <2>1 DEF IInv, SleepsExact, SleepsAreEnough
    <3>2. \A d \in Callers : pc[d] # "pacing" /\ pc'[d] # "pacing"
      BY <1>t, <2>1, <2>5 DEF TypeOK
    <3>3. NeverLooksHung'
      BY <2>1, <3>2 DEF IInv, SleepsExact, NeverLooksHung
    <3>. QED BY <3>1, <3>3 DEF SleepsExact
  <2>11. LastSleepSettles'
    <3>1. \A d \in Callers : pc'[d] # "pacing"
      BY <1>t, <2>1, <2>5 DEF TypeOK
    <3>. QED BY <3>1 DEF LastSleepSettles
  <2>12. CallShape'
    BY <1>t, <2>1 DEF IInv, CallShape, TypeOK
  <2>13. OldestFirst(events)'
    BY <2>1 DEF IInv, OldestFirst
  <2>. QED BY <2>4, <2>7, <2>8, <2>9, <2>10, <2>11, <2>12, <2>13 DEF IInv
<1>2. CASE /\ ~IsUnlimited
           /\ Enqueue(c)
           /\ pc' = [pc EXCEPT ![c] = "pacing"]
           /\ credit' = [credit EXCEPT ![c] = 1]
           /\ UNCHANGED <<events, tries, sent>>
  <2>1. /\ pc' = [pc EXCEPT ![c] = "pacing"]
        /\ credit' = [credit EXCEPT ![c] = 1]
        /\ queue' = Append(queue, c)
        /\ UNCHANGED <<events, tries, sent, limits, nap, outcome, owed>>
    BY <1>2 DEF Enqueue
  <2>2. TypeOK'
    BY <1>t, <2>1 DEF TypeOK
  <2>3. /\ OldestFirst(events)' /\ OldestFirst(sent)'
        /\ EventsAreSent(events, sent)' /\ CapPacesAll' /\ WindowRespected'
    <3>1. OldestFirst(events)' /\ OldestFirst(sent)' /\ EventsAreSent(events, sent)'
      BY <2>1 DEF IInv
    <3>. QED BY <2>1, <3>1 DEF IInv, CapPacesAll, WindowRespected
  <2>4. UnlimitedIsUnused'
    BY <1>2, <2>1 DEF UnlimitedIsUnused, IsUnlimited
  <2>5. SleepsExact'
    <3>1. SleepsAreEnough'
      BY <1>t, <2>1 DEF IInv, SleepsExact, SleepsAreEnough, TypeOK
    <3>2. \A d \in Callers : d # c => pc'[d] = pc[d] /\ nap'[d] = nap[d]
      BY <1>t, <2>1 DEF TypeOK
    <3>3. nap'[c] = 0 /\ pc'[c] = "pacing"
      BY <1>t, <2>1 DEF TypeOK
    <3>4. NeverLooksHung'
      BY <3>2, <3>3, LimiterAssumption DEF IInv, SleepsExact, NeverLooksHung
    <3>. QED BY <3>1, <3>4 DEF SleepsExact
  <2>6. LastSleepSettles'
    <3>. SUFFICES ASSUME NEW d \in Callers, pc'[d] = "pacing", credit'[d] = 0
                  PROVE  queue' # <<>> /\ Head(queue') = d /\ Settled(d)'
      BY DEF LastSleepSettles
    <3>1. d # c /\ pc[d] = "pacing" /\ credit[d] = 0 /\ size'[d] = size[d]
      BY <1>t, <2>1 DEF TypeOK
    <3>2. queue # <<>> /\ Head(queue) = d /\ Settled(d)
      BY <3>1 DEF IInv, LastSleepSettles
    <3>3. queue \in Seq(Callers)
      BY <1>t DEF TypeOK
    <3>4. queue' # <<>> /\ Head(queue') = d
      BY <2>1, <3>2, <3>3
    <3>5. Settled(d)'
      BY <2>1, <3>1, <3>2 DEF Settled, FitsAfter, Used, Freed
    <3>. QED BY <3>4, <3>5
  <2>7. CallShape'
    BY <1>t, <2>1 DEF IInv, CallShape, TypeOK
  <2>. QED BY <2>2, <2>3, <2>4, <2>5, <2>6, <2>7 DEF IInv
<1>. QED BY <1>1, <1>2 DEF Pace

LEMMA CompleteKeeps ==
    ASSUME IInv, NEW c \in Callers, NEW n \in Sizes, Complete(c, n)
    PROVE  IInv'
<1>1. n \in Nat /\ tries[c] <= MaxRetries /\ nap[c] = 0 /\ owed[c] = 0
  BY TransportAssumption DEF IInv, CallShape, Complete
<1>. QED BY <1>1, PaceKeeps DEF Complete

LEMMA RetryKeeps ==
    ASSUME IInv, NEW c \in Callers, Retry(c)
    PROVE  IInv' /\ owed[c] = 0
<1>1. tries[c] <= MaxRetries /\ nap[c] = 0 /\ owed[c] <= nap[c]
  BY DEF IInv, CallShape, Retry
<1>2. owed[c] = 0 /\ size[c] \in Nat /\ size' = [size EXCEPT ![c] = size[c]]
  BY <1>1 DEF IInv, TypeOK, Retry
<1>. QED BY <1>1, <1>2, PaceKeeps DEF Retry

\* What the holder of the lock looks at.
LEMMA HolderSees ==
    ASSUME IInv, NEW c \in Callers
    PROVE  /\ Prune(events) \in Seq(Event)
           /\ OldestFirst(Prune(events))
           /\ \A k \in 1 .. Len(Prune(events)) : Prune(events)[k].age < Window
           /\ WaitNeeded(Prune(events), size[c]) \in 0 .. Window
           /\ WaitNeeded(Prune(events), size[c]) = 0
                <=> FitsAfter(limits, Prune(events), 0, size[c])
<1>1. events \in Seq(Event) /\ OldestFirst(events) /\ size[c] \in Nat /\ limits \in RateLimits
  BY DEF IInv, TypeOK, Event
<1>2. /\ Prune(events) \in Seq(Event)
      /\ OldestFirst(Prune(events))
      /\ \A k \in 1 .. Len(Prune(events)) : Prune(events)[k].age < Window
  BY <1>1, EventAges, PruneIsFresh
<1>. QED BY <1>1, <1>2, NoWaitFits

LEMMA SleepKeeps ==
    ASSUME IInv, NEW c \in Callers, Sleep(c)
    PROVE  IInv'
<1>. DEFINE w == WaitNeeded(Prune(events), size[c])
<1>1. /\ pc[c] = "pacing" /\ queue # <<>> /\ Head(queue) = c /\ nap[c] = 0 /\ w > 0
      /\ events' = Prune(events)
      /\ nap' = [nap EXCEPT ![c] = w]
      /\ credit' = [credit EXCEPT ![c] = Max({@ - 1, -1})]
      /\ UNCHANGED <<limits, queue, pc, size, tries, outcome, sent, owed>>
  BY DEF Sleep, Doze, callVars
<1>2. /\ Prune(events) \in Seq(Event)
      /\ OldestFirst(Prune(events))
      /\ \A k \in 1 .. Len(Prune(events)) : Prune(events)[k].age < Window
      /\ w \in 0 .. Window
      /\ w = 0 <=> FitsAfter(limits, Prune(events), 0, size[c])
  BY HolderSees
<1>3. events \in Seq(Event) /\ OldestFirst(events) /\ size[c] \in Nat /\ limits \in RateLimits
  BY DEF IInv, TypeOK, Event
<1>4. PICK d0 \in 0 .. Len(Prune(events)) :
        /\ \A k \in 1 .. d0 : Prune(events)[k].age + w >= Window
        /\ FitsAfter(limits, Prune(events), d0, size[c])
  BY <1>2, <1>3, WaitSuffices
<1>. HIDE DEF w
<1>t. TypeOK
  BY DEF IInv
<1>5. credit[c] \in Nat /\ credit[c] # 0
  <2>1. credit[c] \in Nat
    BY <1>t DEF IInv, SleepsExact, SleepsAreEnough, TypeOK
  <2>2. ASSUME credit[c] = 0 PROVE FALSE
    <3>1. Settled(c)
      BY <1>1, <2>2 DEF IInv, LastSleepSettles
    <3>2. FitsAfter(limits, Prune(events), 0, size[c])
      BY <1>1, <3>1, SettledFits
    <3>. QED BY <1>1, <1>2, <3>2
  <2>. QED BY <2>1, <2>2
<1>6. credit' = [credit EXCEPT ![c] = credit[c] - 1] /\ credit[c] - 1 \in Nat
  <2>1. Max({credit[c] - 1, -1}) = credit[c] - 1
    BY <1>5, MaxOfTwo
  <2>2. credit' = [credit EXCEPT ![c] = Max({credit[c] - 1, -1})]
    BY <1>1, Zenon
  <2>3. credit' = [credit EXCEPT ![c] = credit[c] - 1]
    BY <2>1, <2>2, Zenon
  <2>. QED BY <1>5, <2>3
<1>7. TypeOK'
  <2>1. nap' \in [Callers -> Nat] /\ credit' \in [Callers -> Nat \cup {-1}]
    <3>1. /\ nap \in [Callers -> Nat] /\ credit \in [Callers -> Nat \cup {-1}]
          /\ Window \in Nat
      BY <1>t, LimiterAssumption DEF TypeOK
    <3>2. w \in Nat
      BY ONLY <1>2, <3>1
    <3>. QED BY ONLY <1>1, <1>6, <3>1, <3>2
  <2>2. events' \in Seq([age : 0 .. Window, tokens : Nat])
    BY <1>1, <1>2 DEF Event
  <2>. QED BY <1>t, <1>1, <2>1, <2>2 DEF TypeOK
<1>8. OldestFirst(events)' /\ OldestFirst(sent)'
  BY <1>1, <1>2 DEF IInv
<1>9. EventsAreSent(events, sent)'
  <2>1. Prune(Prune(events)) = Prune(events)
    BY <1>3, PruneTwice
  <2>2. EventsAreSent(Prune(events), sent)
    BY <2>1 DEF IInv, EventsAreSent
  <2>. QED BY <1>1, <2>2
<1>10. CapPacesAll' /\ WindowRespected'
  BY <1>1 DEF IInv, CapPacesAll, WindowRespected
<1>11. UnlimitedIsUnused'
  BY <1>1 DEF IInv, UnlimitedIsUnused, IsUnlimited
<1>12. SleepsExact'
  <2>1. SleepsAreEnough'
    BY <1>t, <1>6 DEF IInv, SleepsExact, SleepsAreEnough, TypeOK
  <2>2. NeverLooksHung'
    <3>1. nap'[c] <= Window /\ pc'[c] = "pacing"
      BY <1>t, <1>1, <1>2, LimiterAssumption DEF TypeOK
    <3>2. \A d \in Callers : d # c => pc'[d] = pc[d] /\ nap'[d] = nap[d]
      BY <1>t, <1>1 DEF TypeOK
    <3>. QED BY <3>1, <3>2 DEF IInv, SleepsExact, NeverLooksHung
  <2>. QED BY <2>1, <2>2 DEF SleepsExact
<1>13. LastSleepSettles'
  <2>. SUFFICES ASSUME NEW d \in Callers, pc'[d] = "pacing", credit'[d] = 0
                PROVE  queue' # <<>> /\ Head(queue') = d /\ Settled(d)'
    BY DEF LastSleepSettles
  <2>1. d = c
    <3>. SUFFICES ASSUME d # c PROVE FALSE
      OBVIOUS
    <3>1. pc[d] = "pacing" /\ credit[d] = 0
      BY <1>t, <1>1, <1>6 DEF TypeOK
    <3>. QED BY <1>1, <3>1 DEF IInv, LastSleepSettles
  <2>2. nap'[c] = w
    BY <1>t, <1>1 DEF TypeOK
  <2>3. Settled(c)'
    BY <1>1, <1>4, <2>2 DEF Settled, FitsAfter, Used, Freed
  <2>. QED BY <1>1, <2>1, <2>3
<1>14. CallShape'
  BY <1>t, <1>1 DEF IInv, CallShape, TypeOK
<1>. QED BY <1>7, <1>8, <1>9, <1>10, <1>11, <1>12, <1>13, <1>14 DEF IInv

\* A request that the limiter admits, and the tokens that the window then holds.
LEMMA SendKeeps ==
    ASSUME IInv, NEW c \in Callers, Send(c)
    PROVE  /\ IInv'
           /\ limits.tokens # None =>
                PacedTokens' <= limits.tokens \/ size'[c] > limits.tokens
<1>. DEFINE fresh == Prune(events)
            e == [age |-> 0, tokens |-> size[c]]
            p == [age |-> 0, tokens |-> size[c], paced |-> TRUE]
<1>1. /\ pc[c] = "pacing" /\ queue # <<>> /\ Head(queue) = c /\ nap[c] = 0
      /\ WaitNeeded(fresh, size[c]) = 0
      /\ events' = Append(fresh, e)
      /\ queue' = Tail(queue)
      /\ pc' = [pc EXCEPT ![c] = "posting"]
      /\ tries' = [tries EXCEPT ![c] = @ + 1]
      /\ sent' = Append(sent, p)
      /\ UNCHANGED <<limits, nap, size, outcome, credit, owed>>
  BY DEF Send, Admit, Post
<1>t. TypeOK /\ events \in Seq(Event) /\ OldestFirst(events) /\ OldestFirst(sent)
  BY DEF IInv, TypeOK, Event
<1>2. /\ fresh \in Seq(Event)
      /\ Len(fresh) \in Nat
      /\ FitsAfter(limits, fresh, 0, size[c])
  BY <1>1, HolderSees
<1>3. size[c] \in Nat
  BY <1>t DEF TypeOK
<1>4. /\ e \in Event /\ p \in Sent
      /\ e.age = 0 /\ p.age = 0 /\ p.paced /\ p.tokens = e.tokens /\ e.tokens = size[c]
      /\ p \in [age : 0 .. Window - 1, tokens : Nat, paced : BOOLEAN]
  BY <1>3, LimiterAssumption DEF Event, Sent
<1>. HIDE DEF e, p
<1>5. sent \in Seq(Sent)
  BY SentIsTyped
<1>6. /\ events' \in Seq(Event) /\ OldestFirst(events')
      /\ Prune(events') = events'
      /\ OldestFirst(sent')
      /\ EventsAreSent(events', sent')
  <2>1. events' = Append(Prune(events), e) /\ sent' = Append(sent, p)
    BY <1>1
  <2>2. Mirrored(events, sent)
    BY <1>t, <1>5 DEF IInv, Mirrored
  <2>3. NewPair(e, p)
    BY <1>4 DEF NewPair
  <2>4. Mirrored(events', sent') /\ Prune(events') = events'
    BY <2>1, <2>2, <2>3, AdmitMirrors
  <2>. QED BY <2>4 DEF Mirrored
<1>. HIDE DEF fresh
<1>7. /\ sent' \in Seq(Sent)
      /\ Len(sent') = Len(sent) + 1
      /\ Len(sent) \in Nat
      /\ sent'[Len(sent) + 1] = p
      /\ \A k \in 1 .. Len(sent) : sent'[k] = sent[k]
      /\ DOMAIN sent = 1 .. Len(sent)
      /\ DOMAIN sent' = 1 .. Len(sent) + 1
  BY <1>1, <1>4, <1>5, AppendProperties
<1>8. TypeOK'
  <2>1. sent' \in Seq([age : 0 .. Window - 1, tokens : Nat, paced : BOOLEAN])
    BY <1>t, <1>1, <1>4, AppendProperties DEF TypeOK
  <2>2. tries[c] <= MaxRetries /\ MaxRetries \in Nat
    BY <1>1, TransportAssumption DEF IInv, CallShape
  <2>3. tries' \in [Callers -> 0 .. MaxRetries + 1]
    <3>1. tries \in [Callers -> 0 .. MaxRetries + 1] /\ tries[c] + 1 \in 0 .. MaxRetries + 1
      BY <1>t, <2>2 DEF TypeOK
    <3>. QED BY <1>1, <3>1
  <2>4. queue' \in Seq(Callers)
    BY <1>t, <1>1 DEF TypeOK
  <2>5. events' \in Seq([age : 0 .. Window, tokens : Nat])
    BY <1>6 DEF Event
  <2>6. pc' \in [Callers -> {"idle", "pacing", "posting", "backoff", "returned"}]
    BY <1>t, <1>1 DEF TypeOK
  <2>. QED BY <1>t, <1>1, <2>1, <2>3, <2>4, <2>5, <2>6 DEF TypeOK
<1>9. CapPacesAll'
  <2>. SUFFICES ASSUME limits.requests # None, NEW k \in 1 .. Len(sent) + 1 PROVE sent'[k].paced
    BY <1>1, <1>7 DEF CapPacesAll
  <2>1. k \in 1 .. Len(sent) \/ k = Len(sent) + 1
    BY <1>7
  <2>2. \A j \in 1 .. Len(sent) : sent[j].paced
    BY <1>7 DEF IInv, CapPacesAll
  <2>. QED BY <1>4, <1>7, <2>1, <2>2
<1>10. UnlimitedIsUnused'
  BY <1>1 DEF IInv, UnlimitedIsUnused, IsUnlimited
<1>11. WindowRespected'
  <2>. SUFFICES ASSUME limits.requests # None PROVE Len(sent') <= limits.requests
    BY <1>1 DEF WindowRespected
  <2>1. limits.requests \in Nat /\ Len(fresh) < limits.requests
    BY <1>t, <1>2 DEF FitsAfter, TypeOK, RateLimits, Caps
  <2>2. Len(sent) = Len(fresh)
    <3>1. \A k \in 1 .. Len(sent) : sent[k].paced
      BY <1>7 DEF IInv, CapPacesAll
    <3>2. Len(sent) - Len(fresh) \in Nat /\ \A k \in 1 .. Len(sent) - Len(fresh) : ~sent[k].paced
      BY DEF IInv, EventsAreSent, fresh
    <3>. SUFFICES ASSUME Len(sent) - Len(fresh) # 0 PROVE FALSE
      BY <1>2, <1>7
    <3>3. 1 \in 1 .. Len(sent) /\ 1 \in 1 .. Len(sent) - Len(fresh)
      BY <1>2, <1>7, <3>2
    <3>. QED BY <3>1, <3>2, <3>3
  <2>. QED BY <1>2, <1>7, <2>1, <2>2
<1>12. SleepsExact'
  <2>1. SleepsAreEnough'
    BY <1>1 DEF IInv, SleepsExact, SleepsAreEnough
  <2>2. MaxRetryAfter \in Nat /\ MaxBackoff \in Nat
    BY TransportAssumption
  <2>3. Max2(MaxRetryAfter, MaxBackoff) >= 0
    BY <2>2, MaxOfTwo DEF Max2
  <2>4. nap'[c] = 0 /\ pc'[c] = "posting"
    BY <1>t, <1>1 DEF TypeOK
  <2>5. \A d \in Callers : d # c => pc'[d] = pc[d] /\ nap'[d] = nap[d]
    BY <1>t, <1>1 DEF TypeOK
  <2>6. NeverLooksHung'
    BY <2>3, <2>4, <2>5 DEF IInv, SleepsExact, NeverLooksHung
  <2>. QED BY <2>1, <2>6 DEF SleepsExact
<1>13. LastSleepSettles'
  <2>. SUFFICES ASSUME NEW d \in Callers, pc'[d] = "pacing", credit'[d] = 0 PROVE FALSE
    BY DEF LastSleepSettles
  <2>1. d # c /\ pc[d] = "pacing" /\ credit[d] = 0
    BY <1>t, <1>1 DEF TypeOK
  <2>. QED BY <1>1, <2>1 DEF IInv, LastSleepSettles
<1>14. CallShape'
  BY <1>t, <1>1 DEF IInv, CallShape, TypeOK
<1>15. IInv'
  BY <1>6, <1>8, <1>9, <1>10, <1>11, <1>12, <1>13, <1>14 DEF IInv
<1>16. PacedTokens' = Used(fresh) + size[c]
  <2>1. PacedOf(sent') = Used(Prune(events'))
    BY <1>6, <1>7, PacedIsUsed
  <2>2. Used(events') = Used(fresh) + size[c]
    BY <1>1, <1>2, <1>4, UsedAfterAppend
  <2>3. PacedTokens' = PacedOf(sent')
    BY DEF PacedTokens, PacedOf
  <2>. QED BY <1>6, <2>1, <2>2, <2>3
<1>17. ASSUME limits.tokens # None
       PROVE  PacedTokens' <= limits.tokens \/ size'[c] > limits.tokens
  <2>1. Used(fresh) \in Nat /\ Freed(fresh, 0) = 0
    BY <1>2, TokensGrow
  <2>2. Used(fresh) - Freed(fresh, 0) + size[c] <= limits.tokens \/ size[c] > limits.tokens
    BY <1>2, <1>17 DEF FitsAfter
  <2>. QED BY <1>1, <1>3, <1>16, <2>1, <2>2
<1>. QED BY <1>15, <1>17

\* A backoff is a number of ticks, no more than the longest one.
LEMMA BackoffBounded ==
    ASSUME NEW k \in Nat
    PROVE  BackoffFor(k) \in Nat /\ BackoffFor(k) <= MaxBackoff
<1>1. 2 ^ k \in Nat /\ BaseBackoff \in Nat /\ MaxBackoff \in Nat
  BY PowerOfTwo, TransportAssumption
<1>. DEFINE b == BaseBackoff * 2 ^ k
<1>2. b \in Nat
  BY <1>1
<1>. HIDE DEF b
<1>3. Min({MaxBackoff, b}) \in Nat /\ Min({MaxBackoff, b}) <= MaxBackoff
  BY <1>1, <1>2, MinOfTwo
<1>. QED BY <1>3 DEF BackoffFor, b

LEMMA DelayBounded ==
    ASSUME NEW reply \in Replies, ~QuotaSpent(reply), NEW k \in Nat
    PROVE  /\ Delay(reply, k) \in Nat
           /\ Delay(reply, k) <= Max2(MaxRetryAfter, MaxBackoff)
           /\ reply.after # None => reply.after \in Nat /\ reply.after <= Delay(reply, k)
<1>1. reply.after \in Nat \cup {None}
  BY TransportAssumption DEF Replies, Responses
<1>2. BackoffFor(k) \in Nat /\ BackoffFor(k) <= MaxBackoff
  BY BackoffBounded
<1>3. /\ MaxRetryAfter \in Nat /\ MaxBackoff \in Nat
      /\ Max2(MaxRetryAfter, MaxBackoff) =
           IF MaxRetryAfter >= MaxBackoff THEN MaxRetryAfter ELSE MaxBackoff
  BY TransportAssumption, MaxOfTwo DEF Max2
<1>4. CASE reply.after \in {None, 0}
  BY <1>1, <1>2, <1>3, <1>4, LimiterAssumption DEF Delay
<1>5. CASE reply.after \notin {None, 0}
  BY <1>1, <1>3, <1>5, LimiterAssumption DEF Delay, QuotaSpent
<1>. QED BY <1>4, <1>5

LEMMA ReceiveKeeps ==
    ASSUME IInv, NEW c \in Callers, NEW reply \in Replies, Receive(c, reply)
    PROVE  IInv' /\ UNCHANGED tries
<1>. DEFINE tight == Tightens(reply.limit)
<1>1. /\ pc[c] = "posting"
      /\ limits' = IF tight THEN [limits EXCEPT !.tokens = reply.limit] ELSE limits
      /\ credit' = [d \in Callers |->
                      credit[d] + IF pc[d] = "pacing" /\ tight THEN 1 ELSE 0]
      /\ UNCHANGED <<events, queue, size, tries, sent>>
  BY DEF Receive, Observe
<1>t. TypeOK /\ limits \in RateLimits /\ credit \in [Callers -> Nat \cup {-1}]
  BY DEF IInv, TypeOK
<1>2. \/ \E o \in Outcomes : Return(c, o)
      \/ /\ tries[c] <= MaxRetries
         /\ ~QuotaSpent(reply)
         /\ pc' = [pc EXCEPT ![c] = "backoff"]
         /\ nap' = [nap EXCEPT ![c] = Delay(reply, tries[c] - 1)]
         /\ owed' = [owed EXCEPT ![c] = IF reply.after = None THEN 0 ELSE reply.after]
         /\ UNCHANGED outcome
  <2>1. Handle(c, reply)
    BY DEF Receive
  <2>2. reply.kind = "lost" => ~QuotaSpent(reply)
    BY DEF QuotaSpent, Replies, Responses
  <2>. QED BY <2>1, <2>2 DEF Handle, TryAgain, AnotherTry, Outcomes
<1>3. /\ limits' \in RateLimits
      /\ limits'.requests = limits.requests
      /\ IsUnlimited' => IsUnlimited
      /\ ~tight => limits' = limits
  <2>1. CASE tight
    <3>1. reply.limit \in Nat \ {0}
      BY <2>1 DEF Tightens
    <3>2. limits = [requests |-> limits.requests, tokens |-> limits.tokens]
      BY <1>t DEF RateLimits
    <3>3. limits' = [requests |-> limits.requests, tokens |-> reply.limit]
      BY <1>1, <2>1, <3>2
    <3>4. limits.requests \in Caps /\ reply.limit \in Caps
      BY <1>t, <3>1 DEF RateLimits, Caps
    <3>. QED BY <2>1, <3>1, <3>3, <3>4, LimiterAssumption DEF RateLimits, IsUnlimited
  <2>2. CASE ~tight
    BY <1>t, <1>1, <2>2 DEF IsUnlimited
  <2>. QED BY <2>1, <2>2
<1>. HIDE DEF tight
<1>4. \A d \in Callers : pc'[d] = "pacing" => d # c /\ pc[d] = "pacing"
  BY <1>t, <1>1, <1>2 DEF Return, TypeOK
<1>5. /\ credit' \in [Callers -> Nat \cup {-1}]
      /\ \A d \in Callers : credit'[d] >= 0
      /\ \A d \in Callers : pc[d] = "pacing" /\ credit'[d] = 0 => credit[d] = 0 /\ ~tight
  <2>1. \A d \in Callers : credit[d] \in Nat
    BY <1>t DEF IInv, SleepsExact, SleepsAreEnough
  <2>2. \A d \in Callers : credit'[d] = IF pc[d] = "pacing" /\ tight THEN credit[d] + 1 ELSE credit[d]
    BY <1>1, <2>1
  <2>3. credit' = [d \in Callers |-> credit'[d]]
    BY <1>1
  <2>4. \A d \in Callers : credit'[d] \in Nat
    BY <2>1, <2>2
  <2>5. credit' \in [Callers -> Nat \cup {-1}]
    BY <2>3, <2>4
  <2>. QED BY <2>1, <2>2, <2>4, <2>5
<1>6. tries[c] \in Nat /\ pc \in [Callers -> {"idle", "pacing", "posting", "backoff", "returned"}]
      /\ nap \in [Callers -> Nat] /\ owed \in [Callers -> Nat]
  BY <1>t, TransportAssumption DEF TypeOK
<1>. DEFINE after ==
            /\ nap' \in [Callers -> Nat]
            /\ owed' \in [Callers -> Nat]
            /\ pc' \in [Callers -> {"idle", "pacing", "posting", "backoff", "returned"}]
            /\ outcome' \in [Callers -> Outcomes]
            /\ pc'[c] \in {"backoff", "returned"}
            /\ nap'[c] <= Max2(MaxRetryAfter, MaxBackoff)
            /\ pc'[c] = "backoff" => tries[c] <= MaxRetries /\ owed'[c] <= nap'[c]
            /\ \A d \in Callers : d # c => pc'[d] = pc[d] /\ nap'[d] = nap[d] /\ owed'[d] = owed[d]
<1>7. after
  <2>0. outcome \in [Callers -> Outcomes]
    BY <1>t DEF TypeOK
  <2>1. ASSUME NEW o \in Outcomes, Return(c, o) PROVE after
    <3>1. nap[c] <= Max2(MaxRetryAfter, MaxBackoff)
      BY <1>1 DEF IInv, SleepsExact, NeverLooksHung
    <3>. QED BY <1>6, <2>0, <2>1, <3>1 DEF Return
  <2>2. ASSUME tries[c] <= MaxRetries,
               ~QuotaSpent(reply),
               pc' = [pc EXCEPT ![c] = "backoff"],
               nap' = [nap EXCEPT ![c] = Delay(reply, tries[c] - 1)],
               owed' = [owed EXCEPT ![c] = IF reply.after = None THEN 0 ELSE reply.after],
               outcome' = outcome
        PROVE  after
    <3>1. tries[c] - 1 \in Nat
      BY <1>1, <1>6 DEF IInv, CallShape
    <3>. DEFINE delay == Delay(reply, tries[c] - 1)
    <3>2. /\ delay \in Nat
          /\ delay <= Max2(MaxRetryAfter, MaxBackoff)
          /\ reply.after # None => reply.after \in Nat /\ reply.after <= delay
      BY <2>2, <3>1, DelayBounded
    <3>. HIDE DEF delay
    <3>3. nap' = [nap EXCEPT ![c] = delay]
      BY <2>2 DEF delay
    <3>. QED BY <1>6, <2>0, <2>2, <3>2, <3>3
  <2>. QED BY <1>2, <2>1, <2>2
<1>8. TypeOK'
  BY <1>t, <1>1, <1>3, <1>5, <1>7 DEF TypeOK
<1>9. OldestFirst(events)' /\ OldestFirst(sent)' /\ EventsAreSent(events, sent)'
  BY <1>1 DEF IInv
<1>10. CapPacesAll' /\ WindowRespected'
  BY <1>1, <1>3 DEF IInv, CapPacesAll, WindowRespected
<1>11. UnlimitedIsUnused'
  BY <1>1, <1>3, <1>4 DEF IInv, UnlimitedIsUnused
<1>12. SleepsExact'
  <2>1. SleepsAreEnough'
    BY <1>5 DEF SleepsAreEnough
  <2>2. NeverLooksHung'
    BY <1>7 DEF IInv, SleepsExact, NeverLooksHung
  <2>. QED BY <2>1, <2>2 DEF SleepsExact
<1>13. LastSleepSettles'
  <2>. SUFFICES ASSUME NEW d \in Callers, pc'[d] = "pacing", credit'[d] = 0
                PROVE  queue' # <<>> /\ Head(queue') = d /\ Settled(d)'
    BY DEF LastSleepSettles
  <2>1. d # c /\ pc[d] = "pacing" /\ credit[d] = 0 /\ limits' = limits /\ nap'[d] = nap[d]
    BY <1>3, <1>4, <1>5, <1>7
  <2>2. queue # <<>> /\ Head(queue) = d /\ Settled(d)
    BY <2>1 DEF IInv, LastSleepSettles
  <2>3. Settled(d)'
    BY <1>1, <2>1, <2>2 DEF Settled, FitsAfter, Used, Freed
  <2>. QED BY <1>1, <2>2, <2>3
<1>14. CallShape'
  BY <1>1, <1>7 DEF IInv, CallShape
<1>. QED BY <1>1, <1>8, <1>9, <1>10, <1>11, <1>12, <1>13, <1>14 DEF IInv

LEMMA HeadStays ==
    ASSUME NEW S, NEW q \in Seq(S), NEW k \in 1 .. Len(q)
    PROVE  /\ RemoveAt(q, k) \in Seq(S)
           /\ k # 1 => RemoveAt(q, k) # <<>> /\ Head(RemoveAt(q, k)) = Head(q)
<1>. DEFINE front == SubSeq(q, 1, k - 1)
            back == SubSeq(q, k + 1, Len(q))
<1>1. front \in Seq(S) /\ Len(front) = k - 1 /\ \A i \in 1 .. k - 1 : front[i] = q[i]
  OBVIOUS
<1>2. back \in Seq(S)
  <2>1. \A i \in k + 1 .. Len(q) : q[i] \in S
    OBVIOUS
  <2>. QED BY <2>1, SubSeqProperties
<1>3. RemoveAt(q, k) = front \o back
  BY DEF RemoveAt
<1>. HIDE DEF front, back
<1>4. front \o back \in Seq(S)
  BY <1>1, <1>2
<1>5. ASSUME k # 1 PROVE front \o back # <<>> /\ Head(front \o back) = Head(q)
  <2>1. /\ Len(front \o back) = Len(front) + Len(back)
        /\ \A i \in 1 .. Len(front) + Len(back) :
             (front \o back)[i] = IF i <= Len(front) THEN front[i] ELSE back[i - Len(front)]
    BY <1>1, <1>2, ConcatProperties
  <2>2. Len(front) \in Nat /\ Len(front) >= 1 /\ Len(back) \in Nat
    BY <1>1, <1>2, <1>5
  <2>3. (front \o back)[1] = q[1] /\ Len(front \o back) # 0
    BY <1>1, <2>1, <2>2
  <2>. QED BY <1>4, <2>3
<1>. QED BY <1>3, <1>4, <1>5

LEMMA CancelKeeps ==
    ASSUME IInv, NEW c \in Callers, Cancel(c)
    PROVE  IInv' /\ UNCHANGED tries
<1>1. /\ nap' = [nap EXCEPT ![c] = 0]
      /\ \/ \E k \in DOMAIN queue : queue[k] = c /\ queue' = RemoveAt(queue, k)
         \/ queue' = queue
      /\ pc' = [pc EXCEPT ![c] = "returned"]
      /\ outcome' = [outcome EXCEPT ![c] = "cancelled"]
      /\ UNCHANGED <<limits, events, size, tries, sent, credit, owed>>
  BY DEF Cancel, Leave, history
<1>t. TypeOK /\ queue \in Seq(Callers)
  BY DEF IInv, TypeOK
<1>2. queue' \in Seq(Callers)
  BY <1>t, <1>1, HeadStays
<1>3. TypeOK'
  BY <1>t, <1>1, <1>2 DEF TypeOK, Outcomes
<1>4. /\ OldestFirst(events)' /\ OldestFirst(sent)' /\ EventsAreSent(events, sent)'
  BY <1>1 DEF IInv
<1>5. CapPacesAll' /\ WindowRespected'
  BY <1>1 DEF IInv, CapPacesAll, WindowRespected
<1>6. UnlimitedIsUnused'
  BY <1>t, <1>1 DEF IInv, UnlimitedIsUnused, IsUnlimited, TypeOK
<1>7. SleepsExact'
  <2>1. SleepsAreEnough'
    BY <1>1 DEF IInv, SleepsExact, SleepsAreEnough
  <2>2. MaxRetryAfter \in Nat /\ MaxBackoff \in Nat
    BY TransportAssumption
  <2>3. Max2(MaxRetryAfter, MaxBackoff) >= 0
    BY <2>2, MaxOfTwo DEF Max2
  <2>4. nap'[c] = 0 /\ pc'[c] = "returned"
    BY <1>t, <1>1 DEF TypeOK
  <2>5. \A d \in Callers : d # c => pc'[d] = pc[d] /\ nap'[d] = nap[d]
    BY <1>t, <1>1 DEF TypeOK
  <2>6. NeverLooksHung'
    BY <2>3, <2>4, <2>5 DEF IInv, SleepsExact, NeverLooksHung
  <2>. QED BY <2>1, <2>6 DEF SleepsExact
<1>8. LastSleepSettles'
  <2>. SUFFICES ASSUME NEW d \in Callers, pc'[d] = "pacing", credit'[d] = 0
                PROVE  queue' # <<>> /\ Head(queue') = d /\ Settled(d)'
    BY DEF LastSleepSettles
  <2>1. d # c /\ pc[d] = "pacing" /\ credit[d] = 0 /\ nap'[d] = nap[d]
    BY <1>t, <1>1 DEF TypeOK
  <2>2. queue # <<>> /\ Head(queue) = d /\ Settled(d)
    BY <2>1 DEF IInv, LastSleepSettles
  <2>3. queue' # <<>> /\ Head(queue') = d
    <3>1. ASSUME NEW k \in DOMAIN queue, queue[k] = c, queue' = RemoveAt(queue, k)
          PROVE  queue' # <<>> /\ Head(queue') = d
      <4>1. k \in 1 .. Len(queue) /\ k # 1
        BY <1>t, <2>1, <2>2, <3>1
      <4>. QED BY <1>t, <2>2, <3>1, <4>1, HeadStays
    <3>. QED BY <1>1, <2>2, <3>1
  <2>4. Settled(d)'
    BY <1>1, <2>1, <2>2 DEF Settled, FitsAfter, Used, Freed
  <2>. QED BY <2>3, <2>4
<1>9. CallShape'
  BY <1>t, <1>1 DEF IInv, CallShape, TypeOK
<1>. QED BY <1>1, <1>3, <1>4, <1>5, <1>6, <1>7, <1>8, <1>9 DEF IInv

LEMMA TickKeeps ==
    ASSUME IInv, Tick
    PROVE  IInv' /\ UNCHANGED tries
<1>. DEFINE aged == Aged(sent)
<1>1. /\ events' = Olders(events)
      /\ sent' = Prune(aged)
      /\ nap' = [d \in Callers |-> Shorter(nap[d])]
      /\ owed' = [d \in Callers |-> Shorter(owed[d])]
      /\ UNCHANGED <<limits, queue, pc, size, tries, outcome, credit>>
  BY DEF Tick, Pass, StillInWindow, Olders, Aged, callVars
<1>t. TypeOK /\ events \in Seq(Event) /\ OldestFirst(events) /\ OldestFirst(sent)
  BY DEF IInv, TypeOK, Event
<1>2. sent \in Seq(Sent) /\ \A k \in 1 .. Len(sent) : sent[k].age < Window
  BY SentIsTyped
<1>3. /\ events' \in Seq(Event) /\ Len(events') = Len(events)
      /\ OldestFirst(events')
      /\ \A k \in 1 .. Len(events) : events'[k].age = Older(events[k].age)
      /\ TokensOf(events') = TokensOf(events)
  BY <1>t, <1>1, EventsAge
<1>4. /\ aged \in Seq(Sent) /\ Len(aged) = Len(sent) /\ OldestFirst(aged)
      /\ \A k \in 1 .. Len(sent) : aged[k].paced = sent[k].paced
  BY <1>t, <1>2, SentAge
<1>5. EventsAreSent(events', sent')
  <2>1. EventsAreSent(Olders(events), Prune(aged))
    BY <1>t, <1>2, TickMirrors DEF IInv
  <2>. QED BY <1>1, <2>1
<1>. HIDE DEF aged
<1>6. /\ sent' \in Seq(Sent)
      /\ OldestFirst(sent')
      /\ Stale(aged) \in 0 .. Len(sent)
      /\ Len(sent') = Len(sent) - Stale(aged)
      /\ \A k \in 1 .. Len(sent') :
           sent'[k] = aged[Stale(aged) + k] /\ sent'[k].age < Window
  BY <1>1, <1>4, SentAges, PruneIsFresh
<1>7. Len(sent) \in Nat /\ Len(sent') \in Nat /\ Len(sent') <= Len(sent)
  BY <1>2, <1>6
<1>8. /\ \A c \in Callers : nap[c] \in Nat /\ owed[c] \in Nat
      /\ \A c \in Callers : nap'[c] = Shorter(nap[c]) /\ owed'[c] = Shorter(owed[c])
      /\ nap' \in [Callers -> Nat] /\ owed' \in [Callers -> Nat]
  <2>1. \A c \in Callers : nap[c] \in Nat /\ owed[c] \in Nat
    BY <1>t DEF TypeOK
  <2>2. \A t \in Nat : Shorter(t) \in Nat
    BY DEF Shorter
  <2>. QED BY <1>1, <2>1, <2>2
<1>9. TypeOK'
  <2>. DEFINE S == [age : 0 .. Window - 1, tokens : Nat, paced : BOOLEAN]
  <2>1. \A p \in Sent : p.age < Window => p \in S
    BY LimiterAssumption DEF Sent
  <2>. HIDE DEF S
  <2>2. \A k \in 1 .. Len(sent') : sent'[k] \in S
    <3>. SUFFICES ASSUME NEW k \in 1 .. Len(sent') PROVE sent'[k] \in S
      OBVIOUS
    <3>1. sent'[k] \in Sent /\ sent'[k].age < Window
      BY <1>6
    <3>. QED BY <2>1, <3>1
  <2>3. sent' = [k \in 1 .. Len(sent') |-> sent'[k]]
    BY <1>6
  <2>4. sent' \in Seq(S)
    BY <1>7, <2>2, <2>3, FunctionIsSeq
  <2>5. events' \in Seq([age : 0 .. Window, tokens : Nat])
    BY <1>3 DEF Event
  <2>. QED BY <1>t, <1>1, <1>8, <2>4, <2>5 DEF TypeOK, S
<1>10. CapPacesAll'
  <2>. SUFFICES ASSUME limits.requests # None, NEW k \in 1 .. Len(sent') PROVE sent'[k].paced
    <3>1. DOMAIN sent' = 1 .. Len(sent')
      BY <1>6
    <3>. QED BY <1>1, <3>1 DEF CapPacesAll
  <2>1. Stale(aged) + k \in 1 .. Len(sent) /\ DOMAIN sent = 1 .. Len(sent)
    BY <1>2, <1>6, <1>7
  <2>2. sent[Stale(aged) + k].paced
    BY <2>1 DEF IInv, CapPacesAll
  <2>. QED BY <1>4, <1>6, <2>1, <2>2
<1>11. UnlimitedIsUnused'
  <2>. SUFFICES ASSUME IsUnlimited PROVE events' = <<>> /\ \A c \in Callers : pc[c] # "pacing"
    BY <1>1 DEF UnlimitedIsUnused, IsUnlimited
  <2>1. Len(events) = 0 /\ \A c \in Callers : pc[c] # "pacing"
    BY DEF IInv, UnlimitedIsUnused
  <2>. QED BY <1>3, <2>1
<1>12. WindowRespected'
  <2>. SUFFICES ASSUME limits.requests # None PROVE Len(sent') <= limits.requests
    BY <1>1 DEF WindowRespected
  <2>1. limits.requests \in Nat /\ Len(sent) <= limits.requests
    BY <1>t DEF IInv, WindowRespected, TypeOK, RateLimits, Caps
  <2>. QED BY <1>7, <2>1
<1>13. SleepsExact'
  <2>1. SleepsAreEnough'
    BY <1>1 DEF IInv, SleepsExact, SleepsAreEnough
  <2>2. /\ Window \in Nat
        /\ Max2(MaxRetryAfter, MaxBackoff) \in Nat
    BY LimiterAssumption, TransportAssumption, MaxOfTwo DEF Max2
  <2>3. NeverLooksHung'
    <3>. SUFFICES ASSUME NEW c \in Callers
                  PROVE  nap'[c] <= IF pc[c] = "pacing" THEN Window
                                    ELSE Max2(MaxRetryAfter, MaxBackoff)
      BY <1>1 DEF NeverLooksHung
    <3>1. nap[c] <= IF pc[c] = "pacing" THEN Window ELSE Max2(MaxRetryAfter, MaxBackoff)
      BY DEF IInv, SleepsExact, NeverLooksHung
    <3>2. nap'[c] <= nap[c] /\ nap'[c] \in Nat
      BY <1>8 DEF Shorter
    <3>. QED BY <1>8, <2>2, <3>1, <3>2
  <2>. QED BY <2>1, <2>3 DEF SleepsExact
<1>14. LastSleepSettles'
  <2>. SUFFICES ASSUME NEW c \in Callers, pc[c] = "pacing", credit[c] = 0
                PROVE  queue' # <<>> /\ Head(queue') = c /\ Settled(c)'
    BY <1>1 DEF LastSleepSettles
  <2>1. queue # <<>> /\ Head(queue) = c /\ Settled(c)
    BY DEF IInv, LastSleepSettles
  <2>2. PICK d \in 0 .. Len(events) :
          /\ \A k \in 1 .. d : events[k].age + nap[c] >= Window
          /\ FitsAfter(limits, events, d, size[c])
    BY <2>1 DEF Settled
  <2>3. ASSUME NEW k \in 1 .. d PROVE events'[k].age + nap'[c] >= Window
    <3>1. k \in 1 .. Len(events) /\ events[k] \in Event
      BY <1>t
    <3>2. events[k].age \in Nat /\ events[k].age <= Window
      BY <3>1, EventAges
    <3>3. events'[k].age = Older(events[k].age)
      BY <1>3, <3>1
    <3>4. events[k].age + nap[c] >= Window
      BY <2>2
    <3>. QED BY <1>8, <3>2, <3>3, <3>4, LimiterAssumption DEF Older, Shorter
  <2>4. \A j \in 0 .. Len(events) : Freed(events', j) = Freed(events, j)
    BY <1>t, <1>3, TokensAreNumbers
  <2>5. Used(events') = Used(events)
    BY <1>t, <1>3, TokensAreNumbers
  <2>6. FitsAfter(limits, events', d, size[c])
    BY <1>3, <2>2, <2>4, <2>5 DEF FitsAfter
  <2>7. Settled(c)'
    BY <1>1, <1>3, <2>3, <2>6 DEF Settled
  <2>. QED BY <1>1, <2>1, <2>7
<1>15. CallShape'
  <2>1. \A c \in Callers : nap[c] = 0 => nap'[c] = 0
    BY <1>8 DEF Shorter
  <2>2. \A c \in Callers : owed[c] = 0 => owed'[c] = 0
    BY <1>8 DEF Shorter
  <2>3. \A c \in Callers : owed[c] <= nap[c] => owed'[c] <= nap'[c]
    BY <1>8 DEF Shorter
  <2>. QED BY <1>1, <2>1, <2>2, <2>3 DEF IInv, CallShape
<1>. QED BY <1>1, <1>3, <1>5, <1>6, <1>9, <1>10, <1>11, <1>12, <1>13, <1>14, <1>15 DEF IInv

\* What a request is sent under: the step that SendsPermitted allows.
SendPermitted(c) ==
    tries'[c] > tries[c] =>
        /\ limits.tokens # None => PacedTokens' <= limits.tokens \/ size'[c] > limits.tokens
        /\ owed[c] = 0

LEMMA StepKeeps ==
    ASSUME IInv, [Next]_vars
    PROVE  IInv' /\ \A c \in Callers : SendPermitted(c)
<1>t. tries \in [Callers -> 0 .. MaxRetries + 1] /\ MaxRetries \in Nat
  BY TransportAssumption DEF IInv, TypeOK
<1>u. tries' = tries => \A c \in Callers : SendPermitted(c)
  <2>1. \A c \in Callers : ~(tries[c] > tries[c])
    BY <1>t
  <2>. QED BY <2>1 DEF SendPermitted
\* An unlimited request has no allowance to respect.
<1>v. ASSUME NEW c \in Callers, NEW n, Pace(c, n), limits' = limits, owed[c] = 0
      PROVE  \A d \in Callers : SendPermitted(d)
  <2>1. CASE IsUnlimited
    <3>1. tries' = [tries EXCEPT ![c] = @ + 1]
      BY <1>v, <2>1 DEF Pace, Post
    <3>2. \A d \in Callers : d # c => ~(tries'[d] > tries[d])
      BY <1>t, <3>1
    <3>. QED BY <1>v, <2>1, <3>2 DEF SendPermitted, IsUnlimited
  <2>2. CASE ~IsUnlimited
    BY <1>u, <1>v, <2>2 DEF Pace
  <2>. QED BY <2>1, <2>2
<1>1. ASSUME NEW c \in Callers, NEW n \in Sizes, Complete(c, n)
      PROVE  IInv' /\ \A d \in Callers : SendPermitted(d)
  <2>1. owed[c] = 0 /\ Pace(c, n) /\ limits' = limits
    BY <1>1 DEF IInv, CallShape, Complete
  <2>2. \A d \in Callers : SendPermitted(d)
    BY <1>v, <2>1
  <2>. QED BY <1>1, <2>2, CompleteKeeps
<1>2. ASSUME NEW c \in Callers, Sleep(c)
      PROVE  IInv' /\ \A d \in Callers : SendPermitted(d)
  <2>1. tries' = tries
    BY <1>2 DEF Sleep, callVars
  <2>. QED BY <1>2, <1>u, <2>1, SleepKeeps
<1>3. ASSUME NEW c \in Callers, Send(c)
      PROVE  IInv' /\ \A d \in Callers : SendPermitted(d)
  <2>1. /\ IInv'
        /\ limits.tokens # None => PacedTokens' <= limits.tokens \/ size'[c] > limits.tokens
    BY <1>3, SendKeeps
  <2>2. owed[c] = 0
    BY <1>3 DEF Send, IInv, CallShape
  <2>3. tries' = [tries EXCEPT ![c] = @ + 1]
    BY <1>3 DEF Send, Post
  <2>4. \A d \in Callers : d # c => ~(tries'[d] > tries[d])
    BY <1>t, <2>3
  <2>. QED BY <2>1, <2>2, <2>4 DEF SendPermitted
<1>4. ASSUME NEW c \in Callers, NEW reply \in Replies, Receive(c, reply)
      PROVE  IInv' /\ \A d \in Callers : SendPermitted(d)
  BY <1>4, <1>u, ReceiveKeeps
<1>5. ASSUME NEW c \in Callers, Retry(c)
      PROVE  IInv' /\ \A d \in Callers : SendPermitted(d)
  <2>1. IInv' /\ owed[c] = 0
    BY <1>5, RetryKeeps
  <2>2. Pace(c, size[c]) /\ limits' = limits
    BY <1>5 DEF Retry
  <2>. QED BY <1>v, <2>1, <2>2
<1>6. ASSUME NEW c \in Callers, Cancel(c)
      PROVE  IInv' /\ \A d \in Callers : SendPermitted(d)
  BY <1>6, <1>u, CancelKeeps
<1>7. CASE Tick
  BY <1>7, <1>u, TickKeeps
<1>8. CASE UNCHANGED vars
  <2>1. /\ UNCHANGED <<limits, events, queue, nap, pc, size, tries, outcome, sent, credit, owed>>
    BY <1>8 DEF vars, limiterVars, callVars, history
  <2>2. OldestFirst(events)' /\ OldestFirst(sent)' /\ EventsAreSent(events, sent)'
    BY <2>1 DEF IInv
  <2>3. /\ TypeOK' /\ CapPacesAll' /\ UnlimitedIsUnused' /\ WindowRespected'
        /\ SleepsExact' /\ CallShape'
    BY <2>1 DEF IInv, TypeOK, CapPacesAll, UnlimitedIsUnused, IsUnlimited, WindowRespected,
                SleepsExact, SleepsAreEnough, NeverLooksHung, CallShape
  <2>4. LastSleepSettles'
    BY <2>1 DEF IInv, LastSleepSettles, Settled, FitsAfter, Used, Freed
  <2>. QED BY <2>1, <2>2, <2>3, <2>4, <1>u DEF IInv
<1>. QED BY <1>1, <1>2, <1>3, <1>4, <1>5, <1>6, <1>7, <1>8 DEF Next, Step

-----------------------------------------------------------------------------
\* The invariant holds in every state: the limiter's events are the requests
\* that it paced, oldest first, and a last sleep settles its call
\* (rate_limit.py, acquire; chat_completions.py, complete).
THEOREM SpecIInv == Spec => []IInv
<1>1. ASSUME IInv, [Next]_vars PROVE IInv'
  BY <1>1, StepKeeps
<1>. QED BY InitIInv, <1>1, PTL DEF Spec

\* The variables of the client and its limiter keep their types: no call is
\* sent more often than its tries allow.
THEOREM TypeCorrect == Spec => []TypeOK
<1>1. IInv => TypeOK
  BY DEF IInv
<1>. QED BY SpecIInv, <1>1, PTL

\* However many callers share the limiter, no window holds more requests than
\* the allowance, retries included.
THEOREM WindowAlwaysRespected == Spec => []WindowRespected
<1>1. IInv => WindowRespected
  BY DEF IInv
<1>. QED BY SpecIInv, <1>1, PTL

\* The wait that the limiter computes is enough: an acquire sleeps once, and
\* once more for each tightening; and no sleep is longer than what bounds it.
THEOREM SleepsAlwaysExact == Spec => []SleepsExact
<1>1. IInv => SleepsExact
  BY DEF IInv
<1>. QED BY SpecIInv, <1>1, PTL

\* A request goes out only when the window has room for its tokens under the
\* allowance of that moment, and not before the time the provider asked for.
THEOREM SendsAlwaysPermitted == Spec => SendsPermitted
<1>1. ASSUME IInv, [Next]_vars
      PROVE  [ \A c \in Callers : tries'[c] > tries[c] =>
                 /\ limits.tokens # None =>
                      PacedTokens' <= limits.tokens \/ size'[c] > limits.tokens
                 /\ owed[c] = 0 ]_vars
  BY <1>1, StepKeeps DEF SendPermitted
<1>. QED BY SpecIInv, <1>1, PTL DEF Spec, SendsPermitted

=============================================================================
