----------------------------- MODULE Transport -----------------------------
(***************************************************************************)
(* The tries of a request (model/chat_completions.py, complete) over the   *)
(* limiter that the attempts of a run share.                               *)
(*                                                                         *)
(* Granularity.  A caller awaits in acquire (its lock and its sleep), in   *)
(* http.post and in the sleep before another try; what it does between two *)
(* awaits is one action.  acquire returns and post starts without an await *)
(* between them.  A free lock is taken and looked at in two steps, which   *)
(* allows the loop to be late.  Every await can be cancelled.              *)
(*                                                                         *)
(* The provider is external.  Its replies are told apart as far as the     *)
(* client does: an answer; a 2xx without a usable body; a retryable        *)
(* status, with Retry-After or without; a 4xx that blames the generation;  *)
(* any other 4xx; none at all (a timeout or a transport error).  Every     *)
(* response may report a token allowance.                                  *)
(***************************************************************************)
EXTENDS RateLimiter

CONSTANTS
    Sizes,          \* estimates of tokens of the requests
    MaxRetries,     \* max_retries
    BaseBackoff,    \* DEFAULT_BACKOFF_S, in ticks
    MaxBackoff,     \* MAX_BACKOFF_S, in ticks
    MaxRetryAfter,  \* MAX_RETRY_AFTER_S, in ticks
    RetryAfters,    \* values of the header Retry-After, or None
    Reported        \* values of x-ratelimit-limit-tokens, or None

ASSUME TransportAssumption ==
    /\ Sizes \subseteq Nat
    /\ {MaxRetries, BaseBackoff, MaxBackoff, MaxRetryAfter} \subseteq Nat
    /\ RetryAfters \subseteq Nat \cup {None}
    /\ Reported \subseteq Nat \cup {None}

VARIABLES
    pc,         \* pc[c]: idle, pacing, posting, backoff or returned
    size,       \* size[c]: estimated_tokens
    tries,      \* tries[c]: requests sent for this call
    outcome,    \* outcome[c]: the response or the exception
    sent,       \* history: the requests of the last Window ticks
    credit,     \* history: sleeps that the current acquire of c may still
                \* need; -1 once it took more
    owed        \* history: ticks for which the provider asked c to stay away

callVars == <<pc, size, tries, outcome>>
history == <<sent, credit, owed>>
vars == <<limiterVars, callVars, history>>

\* TransientModelError is raised as last_error once the tries are spent, and at
\* once for a body that cannot be read.
Outcomes == {"none", "answer", "exhausted", "unreadable", "quota", "behaviour",
             "permanent", "cancelled"}

Responses ==
    [kind : {"answer", "unusable", "generation", "rejected"},
     after : {None}, limit : Reported]
    \cup [kind : {"retryable"}, after : RetryAfters, limit : Reported]
Replies == Responses \cup [kind : {"lost"}, after : {None}, limit : {None}]

Init ==
    /\ LimiterInit
    /\ pc = [c \in Callers |-> "idle"]
    /\ size = [c \in Callers |-> 0]
    /\ tries = [c \in Callers |-> 0]
    /\ outcome = [c \in Callers |-> "none"]
    /\ sent = <<>>
    /\ credit = [c \in Callers |-> 0]
    /\ owed = [c \in Callers |-> 0]

-----------------------------------------------------------------------------
\* http.post is called, for n tokens.
Post(c, n, paced) ==
    /\ pc' = [pc EXCEPT ![c] = "posting"]
    /\ tries' = [tries EXCEPT ![c] = @ + 1]
    /\ sent' = Append(sent, [age |-> 0, tokens |-> n, paced |-> paced])

\* The top of the loop over the tries: acquire returns at once when nothing is
\* limited.
Pace(c, n) ==
    \/ /\ IsUnlimited
       /\ Post(c, n, FALSE)
       /\ UNCHANGED <<events, queue, credit>>
    \/ /\ ~IsUnlimited
       /\ Enqueue(c)
       /\ pc' = [pc EXCEPT ![c] = "pacing"]
       /\ credit' = [credit EXCEPT ![c] = 1]
       /\ UNCHANGED <<events, tries, sent>>

\* complete(request): a request of n tokens.
Complete(c, n) ==
    /\ pc[c] = "idle"
    /\ size' = [size EXCEPT ![c] = n]
    /\ Pace(c, n)
    /\ UNCHANGED <<limits, nap, outcome, owed>>

Sleep(c) ==
    /\ pc[c] = "pacing"
    /\ Doze(c, size[c])
    /\ credit' = [credit EXCEPT ![c] = Max({@ - 1, -1})]
    /\ UNCHANGED <<callVars, sent, owed>>

Send(c) ==
    /\ pc[c] = "pacing"
    /\ Admit(c, size[c])
    /\ Post(c, size[c], TRUE)
    /\ UNCHANGED <<size, outcome, credit, owed>>

Return(c, o) ==
    /\ pc' = [pc EXCEPT ![c] = "returned"]
    /\ outcome' = [outcome EXCEPT ![c] = o]
    /\ UNCHANGED <<nap, owed>>

\* Mutant: the last try sleeps and tries once more.
AnotherTryOneMore(c) == tries[c] <= MaxRetries + 1

\* attempt < self._max_retries, where attempt is tries[c] - 1.
AnotherTry(c) == tries[c] <= MaxRetries

\* _backoff_for(attempt)
BackoffFor(attempt) == Min({MaxBackoff, BaseBackoff * 2 ^ attempt})

\* retry_after or _backoff_for(attempt): 0 counts as absent.
Delay(reply, attempt) ==
    IF reply.after \in {None, 0} THEN BackoffFor(attempt) ELSE reply.after

\* last_error is set; another try after a sleep, or it is raised.
TryAgain(c, reply) ==
    \/ /\ AnotherTry(c)
       /\ pc' = [pc EXCEPT ![c] = "backoff"]
       /\ nap' = [nap EXCEPT ![c] = Delay(reply, tries[c] - 1)]
       /\ owed' = [owed EXCEPT ![c] = IF reply.after = None THEN 0 ELSE reply.after]
       /\ UNCHANGED outcome
    \/ ~AnotherTry(c) /\ Return(c, "exhausted")

QuotaSpent(reply) == reply.after # None /\ reply.after > MaxRetryAfter

\* What _post_with_retries and _to_response make of a reply.
Handle(c, reply) ==
    \/ reply.kind = "answer" /\ Return(c, "answer")
    \/ reply.kind = "unusable" /\ Return(c, "unreadable")
    \/ reply.kind = "generation" /\ Return(c, "behaviour")
    \/ reply.kind = "rejected" /\ Return(c, "permanent")
    \/ reply.kind = "lost" /\ TryAgain(c, reply)
    \/ reply.kind = "retryable" /\ QuotaSpent(reply) /\ Return(c, "quota")
    \/ reply.kind = "retryable" /\ ~QuotaSpent(reply) /\ TryAgain(c, reply)

Receive(c, reply) ==
    /\ pc[c] = "posting"
    /\ Observe(reply.limit)
    /\ credit' = [d \in Callers |->
                    credit[d] + IF pc[d] = "pacing" /\ Tightens(reply.limit) THEN 1 ELSE 0]
    /\ Handle(c, reply)
    /\ UNCHANGED <<events, queue, size, tries, sent>>

\* Mutant: only the first try is paced.
RetryUnpaced(c) ==
    /\ pc[c] = "backoff"
    /\ nap[c] = 0
    /\ Post(c, size[c], TRUE)
    /\ UNCHANGED <<limiterVars, size, outcome, credit, owed>>

\* The sleep between two tries is over.
Retry(c) ==
    /\ pc[c] = "backoff"
    /\ nap[c] = 0
    /\ Pace(c, size[c])
    /\ UNCHANGED <<limits, nap, size, outcome, owed>>

\* The attempt that makes the call is cancelled: its job timeout, or the run.
Cancel(c) ==
    /\ pc[c] \in {"pacing", "posting", "backoff"}
    /\ Leave(c)
    /\ pc' = [pc EXCEPT ![c] = "returned"]
    /\ outcome' = [outcome EXCEPT ![c] = "cancelled"]
    /\ UNCHANGED <<limits, events, size, tries, history>>

\* The requests that are still in the window a tick later.
StillInWindow == Prune([k \in DOMAIN sent |-> [sent[k] EXCEPT !.age = @ + 1]])

Tick ==
    /\ Pass
    /\ sent' = StillInWindow
    /\ owed' = [c \in Callers |-> Shorter(owed[c])]
    /\ UNCHANGED <<callVars, credit>>

Step(c) ==
    \/ Sleep(c)
    \/ Send(c)
    \/ \E reply \in Replies : Receive(c, reply)
    \/ Retry(c)

Next ==
    \/ \E c \in Callers, n \in Sizes : Complete(c, n)
    \/ \E c \in Callers : Step(c) \/ Cancel(c)
    \/ Tick

Spec == Init /\ [][Next]_vars

\* Time passes, the loop runs what is ready, and http.post ends within its own
\* timeout.  Nothing makes a caller call or cancels it.
FairSpec ==
    /\ Spec
    /\ WF_vars(Tick)
    /\ \A c \in Callers : WF_vars(Step(c))

-----------------------------------------------------------------------------
Max2(a, b) == Max({a, b})

\* Types of every variable, for the client and its limiter.
TypeOK ==
    /\ limits \in RateLimits
    /\ events \in Seq([age : 0 .. Window, tokens : Nat])
    /\ queue \in Seq(Callers)
    /\ nap \in [Callers -> Nat]
    /\ pc \in [Callers -> {"idle", "pacing", "posting", "backoff", "returned"}]
    /\ size \in [Callers -> Nat]
    /\ tries \in [Callers -> 0 .. MaxRetries + 1]
    /\ outcome \in [Callers -> Outcomes]
    /\ sent \in Seq([age : 0 .. Window - 1, tokens : Nat, paced : BOOLEAN])
    /\ credit \in [Callers -> Nat \cup {-1}]
    /\ owed \in [Callers -> Nat]

\* At no moment have more requests been sent within a window than the
\* allowance: first tries and retries of all callers together.
WindowRespected == limits.requests # None => Len(sent) <= limits.requests

\* The tokens of the requests of the window that went through the limiter.
PacedTokens ==
    Totals([k \in DOMAIN sent |-> IF sent[k].paced THEN sent[k].tokens ELSE 0])[Len(sent)]

\* A request is sent only when it fits in the token allowance of that moment,
\* which a response may have tightened while the caller slept or waited for the
\* lock - only a request larger than the whole allowance goes out regardless -
\* and never before the time that Retry-After asked for.
SendsPermitted ==
    [][ \A c \in Callers : tries'[c] > tries[c] =>
          /\ limits.tokens # None =>
               PacedTokens' <= limits.tokens \/ size'[c] > limits.tokens
          /\ owed[c] = 0 ]_vars

\* The wait computed is exact: an acquire sleeps once, and once more for each
\* time that the allowance is tightened meanwhile.
SleepsAreEnough == \A c \in Callers : credit[c] >= 0

\* No sleep lasts longer than the longest Retry-After that is worth honouring, a
\* backoff or a window: a spent quota never looks like a hung run.
NeverLooksHung ==
    \A c \in Callers :
        nap[c] <= IF pc[c] = "pacing" THEN Window ELSE Max2(MaxRetryAfter, MaxBackoff)

\* A caller sleeps as long as it must and no longer, and as often.
SleepsExact == SleepsAreEnough /\ NeverLooksHung

\* Whoever calls gets an answer, an error or its cancellation, however long the
\* line for the limiter is and whoever is cancelled while holding the lock. A
\* caller that returned stays so and the callers are finitely many: that each of
\* those that called returns is that they all have, again and again.
CallsReturn == []<>(\A c \in Callers : pc[c] \in {"idle", "returned"})
=============================================================================
