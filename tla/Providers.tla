------------------------------ MODULE Providers ------------------------------
(***************************************************************************)
(* The LLM provider chain of one worker process: FallbackProvider.generate *)
(* over providers that each carry a circuit breaker, metrics and a retry   *)
(* loop, called concurrently by the requests of the process and cut off by *)
(* the request timeout around it.                                          *)
(*                                                                         *)
(* A call is a process.  Between two awaits the event loop runs one call   *)
(* alone, so ranking, choosing a provider and recording an outcome are     *)
(* atomic; calls interleave while they wait for a provider.                *)
(***************************************************************************)
EXTENDS Naturals

CONSTANTS
  Call,        \* calls of FallbackProvider.generate
  Providers,   \* how many providers are configured; 1 has the highest priority
  Threshold,   \* CIRCUIT_BREAKER_THRESHOLD
  MaxRetries,  \* LLM_MAX_RETRIES
  BaseDelay,   \* LLM_RETRY_BASE_DELAY         (these times in half seconds)
  Timeout,     \* the provider's read timeout
  Latencies,   \* how long an answer may take
  Budget       \* AI_REQUEST_TIMEOUT, of which the call gets all

ASSUME ConstantsAssumption ==
  /\ Providers \in Nat \ {0} /\ Threshold \in Nat \ {0} /\ MaxRetries \in Nat
  /\ BaseDelay \in Nat /\ Timeout \in Nat /\ Latencies \subseteq Nat /\ Budget \in Nat

Provider == 1..Providers

VARIABLES
  up,        \* the providers that always answer
  hangs,     \* the providers that may never answer
  failures,  \* _failure_count: failures in a row
  open,      \* is _state "open" (or "half_open", once the cooldown is over)?
  cooled,    \* have 30 s passed since _last_failure_time?
  wins,      \* success_count
  latency,   \* _total_latency_ms: how long those took, failed attempts included
  losses,    \* failure_count
  pc,        \* pc[c]: where the call is
  rank,      \* rank[c]: the health scores when the call sorted the providers
  left,      \* left[c]: the providers it has not come to
  at,        \* at[c]: the provider it waits for
  attempt,   \* attempt[c]: retries already made at that provider
  waited,    \* waited[c]: time since it came to that provider
  spent,     \* spent[c]: time since the call began
  cutoffs    \* history: calls in a row the request timeout cut off at a provider

world == <<up, hangs>>
circuit == <<failures, open, cooled>>
metrics == <<wins, latency, losses>>
call == <<pc, rank, left, at, attempt, waited, spent>>
vars == <<world, circuit, metrics, call, cutoffs>>

TypeOK ==
  /\ up \subseteq Provider /\ hangs \subseteq Provider
  /\ failures \in [Provider -> Nat]
  /\ open \in [Provider -> BOOLEAN] /\ cooled \in [Provider -> BOOLEAN]
  /\ wins \in [Provider -> Nat] /\ latency \in [Provider -> Nat]
  /\ losses \in [Provider -> Nat] /\ cutoffs \in [Provider -> Nat]
  /\ pc \in [Call -> {"new", "waiting", "answered", "exhausted", "cut_off"}]
  /\ rank \in [Call -> [Provider -> Nat]]
  /\ left \in [Call -> SUBSET Provider]
  /\ at \in [Call -> Provider]
  /\ attempt \in [Call -> 0..MaxRetries]
  /\ waited \in [Call -> Nat] /\ spent \in [Call -> Nat]

Init ==
  /\ up \in SUBSET Provider
  /\ hangs \in SUBSET (Provider \ up)
  /\ failures = [p \in Provider |-> 0]
  /\ open = [p \in Provider |-> FALSE]
  /\ cooled = [p \in Provider |-> FALSE]
  /\ wins = [p \in Provider |-> 0]
  /\ latency = [p \in Provider |-> 0]
  /\ losses = [p \in Provider |-> 0]
  /\ cutoffs = [p \in Provider |-> 0]
  /\ pc = [c \in Call |-> "new"]
  /\ rank = [c \in Call |-> [p \in Provider |-> 0]]
  /\ left = [c \in Call |-> Provider]
  /\ at = [c \in Call |-> 1]
  /\ attempt = [c \in Call |-> 0]
  /\ waited = [c \in Call |-> 0]
  /\ spent = [c \in Call |-> 0]
-----------------------------------------------------------------------------
(***************************************************************************)
(* Health and selection                                                    *)
(***************************************************************************)
AtLeastOne(n) == IF n = 0 THEN 1 ELSE n

\* is_available: closed, or open for longer than the cooldown (half open).
Available(p) == open[p] => cooled[p]

\* An average latency of 5000 ms is worth no latency factor.
Bad == 10
Short(total, count) == IF total < Bad * count THEN Bad * count - total ELSE 0

\* round(score, 3) in thousandths: 0.6 success rate + 0.4 latency factor, halved
\* in a circuit that is not closed.
Quality(p, closed) ==
  LET total == AtLeastOne(wins[p] + losses[p])
      count == AtLeastOne(wins[p])
      unit  == 2 * total * count
      score == (600 * wins[p] * count + 40 * Short(latency[p], count) * total)
                 * (IF closed THEN 2 ELSE 1)
  IN (2 * score + unit) \div (2 * unit)

\* calculate_health_score.
Health(p) == IF Available(p) THEN Quality(p, ~open[p]) ELSE 0

Floor == 200

\* The circuit lets the call through, and the score is not below 0.2.
Usable(p) == Available(p) /\ ~(Health(p) < Floor)

\* sorted is stable: equal scores keep the order of the chain.
Before(score, p, q) == score[p] > score[q] \/ (score[p] = score[q] /\ p < q)

\* The call is over, and its locals with it.
Finish(c, how) ==
  /\ pc' = [pc EXCEPT ![c] = how]
  /\ rank' = [rank EXCEPT ![c] = [p \in Provider |-> 0]]
  /\ left' = [left EXCEPT ![c] = Provider]
  /\ at' = [at EXCEPT ![c] = 1]
  /\ attempt' = [attempt EXCEPT ![c] = 0]
  /\ waited' = [waited EXCEPT ![c] = 0]
  /\ spent' = [spent EXCEPT ![c] = 0]

\* The loop goes on to the first usable provider of the rest, or gives up.
Proceed(c, score, rest, time) ==
  LET usable == {p \in rest : Usable(p)} IN
  IF usable = {}
  THEN Finish(c, "exhausted")
  ELSE \E p \in usable :
       /\ \A q \in usable \ {p} : Before(score, p, q)
       /\ pc' = [pc EXCEPT ![c] = "waiting"]
       /\ at' = [at EXCEPT ![c] = p]
       /\ attempt' = [attempt EXCEPT ![c] = 0]
       /\ waited' = [waited EXCEPT ![c] = 0]
       /\ spent' = [spent EXCEPT ![c] = time]
       /\ rank' = [rank EXCEPT ![c] = score]
       /\ left' = [left EXCEPT ![c] = {q \in rest \ {p} : Before(score, p, q)}]

Begin(c) ==
  /\ pc[c] = "new"
  /\ Proceed(c, [p \in Provider |-> Health(p)], Provider, 0)
  /\ UNCHANGED <<world, circuit, metrics, cutoffs>>
-----------------------------------------------------------------------------
(***************************************************************************)
(* The outcomes of an attempt                                              *)
(***************************************************************************)

\* Mutant of RecordSuccess: the circuit closes but keeps its count.
RecordSuccessKeepingCount(p) ==
  /\ open' = [open EXCEPT ![p] = FALSE]
  /\ UNCHANGED <<failures, cooled>>

RecordSuccess(p) ==
  /\ failures' = [failures EXCEPT ![p] = 0]
  /\ open' = [open EXCEPT ![p] = FALSE]
  /\ UNCHANGED cooled

RecordFailure(p) ==
  /\ failures' = [failures EXCEPT ![p] = @ + 1]
  /\ cooled' = [cooled EXCEPT ![p] = FALSE]
  /\ open' = [open EXCEPT ![p] = @ \/ failures[p] + 1 >= Threshold]

\* The provider answers within what is left of the budget.
Respond(c) ==
  /\ pc[c] = "waiting"
  /\ \E time \in Latencies :
       LET p == at[c] IN
       /\ spent[c] + time < Budget
       /\ RecordSuccess(p)
       /\ wins' = [wins EXCEPT ![p] = @ + 1]
       /\ latency' = [latency EXCEPT ![p] = @ + waited[c] + time]
       /\ cutoffs' = [cutoffs EXCEPT ![p] = 0]
  /\ Finish(c, "answered")
  /\ UNCHANGED <<losses, world>>

\* Mutant of GiveUpOn: after a failure the chain is ranked anew.
GiveUpOnReranking(c, cost) ==
  LET p == at[c] IN
  /\ RecordFailure(p)
  /\ losses' = [losses EXCEPT ![p] = @ + 1]
  /\ cutoffs' = [cutoffs EXCEPT ![p] = 0]
  /\ Proceed(c, [q \in Provider |-> Health(q)], Provider \ {p}, spent[c] + cost)
  /\ UNCHANGED <<wins, latency, world>>

\* Mutant of GiveUpOn: the exception leaves the loop.
GiveUpOnChain(c, cost) ==
  LET p == at[c] IN
  /\ RecordFailure(p)
  /\ losses' = [losses EXCEPT ![p] = @ + 1]
  /\ cutoffs' = [cutoffs EXCEPT ![p] = 0]
  /\ Finish(c, "exhausted")
  /\ UNCHANGED <<wins, latency, world>>

\* The provider's generate raises: it records one failure, and the loop goes on.
GiveUpOn(c, cost) ==
  LET p == at[c] IN
  /\ RecordFailure(p)
  /\ losses' = [losses EXCEPT ![p] = @ + 1]
  /\ cutoffs' = [cutoffs EXCEPT ![p] = 0]
  /\ Proceed(c, rank[c], left[c], spent[c] + cost)
  /\ UNCHANGED <<wins, latency, world>>

\* 429: AIFatalException, never retried.
Reject(c) ==
  /\ pc[c] = "waiting" /\ at[c] \notin up
  /\ GiveUpOn(c, 0)

\* retry_with_backoff sleeps base_delay * 2 ** attempt and tries again.
Retry(c, cost) ==
  /\ attempt' = [attempt EXCEPT ![c] = @ + 1]
  /\ waited' = [waited EXCEPT ![c] = @ + cost + BaseDelay * 2 ^ attempt[c]]
  /\ spent' = [spent EXCEPT ![c] = @ + cost + BaseDelay * 2 ^ attempt[c]]
  /\ UNCHANGED <<world, circuit, metrics, cutoffs, pc, rank, left, at>>

\* Mutant of Fail: the bound of the loop is off by one.
FailOnceMore(c, cost) ==
  /\ pc[c] = "waiting" /\ at[c] \notin up
  /\ attempt[c] <= MaxRetries
  /\ spent[c] + cost + BaseDelay * 2 ^ attempt[c] < Budget
  /\ Retry(c, cost)

\* An AITransientException (5xx, a refused connection, 400 and every other
\* error) or, after Timeout, an AITimeoutException: retried MaxRetries times.
Fail(c, cost) ==
  /\ pc[c] = "waiting" /\ at[c] \notin up
  /\ \/ /\ attempt[c] < MaxRetries
        /\ spent[c] + cost + BaseDelay * 2 ^ attempt[c] < Budget
        /\ Retry(c, cost)
     \/ /\ attempt[c] = MaxRetries
        /\ spent[c] + cost < Budget
        /\ GiveUpOn(c, cost)

FailFast(c) == Fail(c, 0)

TimeOut(c) == at[c] \in hangs /\ Fail(c, Timeout)

\* wait_for cancels the call while it waits or backs off.  CancelledError is no
\* Exception: neither the breaker nor the metrics record anything.
CutOff(c) ==
  /\ pc[c] = "waiting" /\ at[c] \in hangs
  /\ \/ spent[c] + Timeout >= Budget
     \/ /\ attempt[c] < MaxRetries
        /\ spent[c] + Timeout + BaseDelay * 2 ^ attempt[c] >= Budget
  /\ Finish(c, "cut_off")
  /\ cutoffs' = [cutoffs EXCEPT ![at[c]] = @ + 1]
  /\ UNCHANGED <<world, circuit, metrics>>

\* CIRCUIT_BREAKER_COOLDOWN_SECONDS have passed since the last failure.
Cool(p) ==
  /\ open[p] /\ ~cooled[p]
  /\ cooled' = [cooled EXCEPT ![p] = TRUE]
  /\ UNCHANGED <<failures, open, world, metrics, call, cutoffs>>

Outcome(c) == Respond(c) \/ Reject(c) \/ FailFast(c) \/ TimeOut(c) \/ CutOff(c)

Next ==
  \/ \E c \in Call : Begin(c) \/ Outcome(c)
  \/ \E p \in Provider : Cool(p)

Spec == Init /\ [][Next]_vars
-----------------------------------------------------------------------------
\* The breaker is not closed exactly when the last Threshold outcomes the
\* provider recorded were failures, however the calls interleaved.
OpenAfterThreshold == \A p \in Provider : open[p] <=> failures[p] >= Threshold

\* No call runs out of providers while one of them always answers: neither an
\* open circuit nor the floor of the health score may exclude it.
ServedWhileOneIsUp == up # {} => \A c \in Call : pc[c] # "exhausted"

\* A call that still waits after a step has retried its provider, or has gone on to one
\* that was left by the ranking it began with and whose circuit and score let it through
\* now, and has dropped the one it comes from.
OnlyForward(c) ==
  pc[c] = "waiting" /\ pc'[c] = "waiting" =>
    /\ rank'[c] = rank[c]
    /\ \/ at'[c] = at[c] /\ left'[c] = left[c] /\ attempt'[c] \in {attempt[c], attempt[c] + 1}
       \/ /\ at'[c] \in left[c] /\ left'[c] \subseteq left[c] \ {at[c], at'[c]}
          /\ Before(rank[c], at[c], at'[c]) /\ attempt'[c] = 0
          /\ Usable(at'[c])

\* However other calls change circuits and scores while it waits, a call never comes
\* back to a provider it has left, nor to one the ranking had put before: each gets its
\* retries once.  None is entered through a circuit that opened since the ranking.
NoProviderTwice == [][\A c \in Call : OnlyForward(c)]_vars

\* A provider that hangs on Threshold calls in a row has its circuit opened.
HangingProviderOpensCircuit ==
  \A p \in Provider : cutoffs[p] >= Threshold => open[p]
=============================================================================
