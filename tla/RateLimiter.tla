---------------------------- MODULE RateLimiter ----------------------------
(***************************************************************************)
(* The sliding window that paces the requests to a provider                *)
(* (model/rate_limit.py): its state and what an acquire() does with it.    *)
(* Transport composes it with the callers.                                 *)
(*                                                                         *)
(* Time.  A tick is a unit of the clock and the window is Window ticks     *)
(* long.  An event is remembered by its age instead of its timestamp; an   *)
(* age stops growing at Window, where the next look drops the event.  A    *)
(* sleep may last longer than asked for, never shorter.                    *)
(*                                                                         *)
(* asyncio.Lock serves its waiters in the order in which they came: queue  *)
(* holds them, and its head has the lock.                                  *)
(***************************************************************************)
EXTENDS Integers, FiniteSetsExt, SequencesExt

CONSTANTS
    Callers,    \* the calls that share the limiter
    Window,     \* WINDOW_SECONDS, in ticks
    Allowances, \* the RateLimits a limiter may be built with
    None        \* None in RateLimits and in an absent header

Caps == (Nat \ {0}) \cup {None}
RateLimits == [requests : Caps, tokens : Caps]

\* RateLimits.__post_init__
ASSUME LimiterAssumption ==
    /\ Window \in Nat \ {0}
    /\ None \notin Nat
    /\ Allowances \subseteq RateLimits

VARIABLES
    limits,     \* RateLimiter._limits
    events,     \* RateLimiter._events, oldest first
    queue,      \* who holds _lock or waits for it
    nap         \* nap[c]: ticks that the sleep of c still has to last

limiterVars == <<limits, events, queue, nap>>

LimiterInit ==
    /\ limits \in Allowances
    /\ events = <<>>
    /\ queue = <<>>
    /\ nap = [c \in Callers |-> 0]

IsUnlimited == limits.requests = None /\ limits.tokens = None

-----------------------------------------------------------------------------
\* Totals(ns)[k]: the first k of the numbers ns, added up.
Totals(ns) ==
    LET total[k \in 0 .. Len(ns)] == IF k = 0 THEN 0 ELSE total[k - 1] + ns[k]
    IN  total

\* The tokens of the k oldest events; of them all.
Freed(es, k) == Totals([j \in DOMAIN es |-> es[j].tokens])[k]
Used(es) == Freed(es, Len(es))

\* How many of the oldest events have left the window.
Stale(es) == Min({n \in 0 .. Len(es) : n < Len(es) => es[n + 1].age < Window})

\* _prune
Prune(es) == SubSeq(es, Stale(es) + 1, Len(es))

Age(es, k) == es[k].age

\* The wait for the oldest request in excess of the allowance to age out.
RequestWait(es) ==
    IF limits.requests # None /\ Len(es) >= limits.requests
    THEN Window - Age(es, Len(es) - limits.requests + 1)
    ELSE 0

\* The k such that a call of n tokens fits once the k oldest events are gone.
MakesRoom(es, n) ==
    {k \in DOMAIN es : Used(es) - Freed(es, k) + n <= limits.tokens}

\* Mutant: a call larger than the allowance waits for a full window.
TokenWaitNoBypass(es, n) ==
    CASE limits.tokens = None \/ Used(es) + n <= limits.tokens -> 0
      [] MakesRoom(es, n) # {} -> Window - Age(es, Min(MakesRoom(es, n)))
      [] OTHER -> Window

\* Mutant: what the call itself needs is left out of the test.
TokenWaitUsedOnly(es, n) ==
    IF limits.tokens = None \/ Used(es) <= limits.tokens \/ MakesRoom(es, n) = {}
    THEN 0
    ELSE Window - Age(es, Min(MakesRoom(es, n)))

\* The wait for the tokens; a call that not even an empty window could hold is
\* let through.
TokenWait(es, n) ==
    IF limits.tokens = None \/ Used(es) + n <= limits.tokens \/ MakesRoom(es, n) = {}
    THEN 0
    ELSE Window - Age(es, Min(MakesRoom(es, n)))

\* Mutant: the shorter of two waits that are both needed.
WaitNeededShorter(es, n) ==
    LET waits == {RequestWait(es), TokenWait(es, n)} \ {0}
    IN  IF waits = {} THEN 0 ELSE Min(waits)

\* _wait_needed
WaitNeeded(es, n) == Max({0, RequestWait(es), TokenWait(es, n)})

-----------------------------------------------------------------------------
\* acquire reaches the lock.
Enqueue(c) == queue' = Append(queue, c)

\* A turn of the loop in acquire by the holder of the lock, for n tokens: it
\* records the call and gives the lock up ...
Admit(c, n) ==
    /\ queue # <<>> /\ Head(queue) = c
    /\ nap[c] = 0
    /\ WaitNeeded(Prune(events), n) = 0
    /\ events' = Append(Prune(events), [age |-> 0, tokens |-> n])
    /\ queue' = Tail(queue)
    /\ UNCHANGED <<limits, nap>>

\* ... or goes to sleep with the lock in its hands.
Doze(c, n) ==
    /\ queue # <<>> /\ Head(queue) = c
    /\ nap[c] = 0
    /\ WaitNeeded(Prune(events), n) > 0
    /\ events' = Prune(events)
    /\ nap' = [nap EXCEPT ![c] = WaitNeeded(Prune(events), n)]
    /\ UNCHANGED <<limits, queue>>

\* CancelledError reaches c: its sleep ends, `async with` gives the lock up.
Leave(c) ==
    /\ nap' = [nap EXCEPT ![c] = 0]
    /\ \/ \E k \in DOMAIN queue : queue[k] = c /\ queue' = RemoveAt(queue, k)
       \/ (\A k \in DOMAIN queue : queue[k] # c) /\ UNCHANGED queue

\* observe(tokens_per_minute=n) changes the limits.
Tightens(n) ==
    /\ n \in Nat \ {0}
    /\ limits.tokens = None \/ n < limits.tokens

Observe(n) == limits' = IF Tightens(n) THEN [limits EXCEPT !.tokens = n] ELSE limits

\* One tick of an age and of a timer.
Older(a) == IF a < Window THEN a + 1 ELSE a
Shorter(t) == IF t > 0 THEN t - 1 ELSE 0

Pass ==
    /\ events' = [k \in DOMAIN events |-> [events[k] EXCEPT !.age = Older(@)]]
    /\ nap' = [c \in Callers |-> Shorter(nap[c])]
    /\ UNCHANGED <<limits, queue>>
=============================================================================
