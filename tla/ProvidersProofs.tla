--------------------------- MODULE ProvidersProofs ---------------------------
(***************************************************************************)
(* What holds of Providers for any number of calls and providers, any      *)
(* threshold, retries and timeouts.                                        *)
(***************************************************************************)
EXTENDS Providers, FiniteSetTheorems, TLAPS

\* The types but for the numbers a call counts with: scores, latencies and times.
TypeInv ==
  /\ up \subseteq Provider /\ hangs \subseteq Provider
  /\ failures \in [Provider -> Nat]
  /\ open \in [Provider -> BOOLEAN]
  /\ wins \in [Provider -> Nat] /\ losses \in [Provider -> Nat]
  /\ pc \in [Call -> {"new", "waiting", "answered", "exhausted", "cut_off"}]
  /\ left \in [Call -> SUBSET Provider]
  /\ at \in [Call -> Provider]

LEMMA FinishType ==
  ASSUME TypeInv, NEW c \in Call, NEW how \in {"answered", "exhausted", "cut_off"}, Finish(c, how)
  PROVE  /\ pc' \in [Call -> {"new", "waiting", "answered", "exhausted", "cut_off"}]
         /\ left' \in [Call -> SUBSET Provider]
         /\ at' \in [Call -> Provider]
  BY ConstantsAssumption DEF Finish, TypeInv, Provider

LEMMA ProceedType ==
  ASSUME TypeInv, NEW c \in Call, NEW score, NEW rest \in SUBSET Provider, NEW time,
         Proceed(c, score, rest, time)
  PROVE  /\ pc' \in [Call -> {"new", "waiting", "answered", "exhausted", "cut_off"}]
         /\ left' \in [Call -> SUBSET Provider]
         /\ at' \in [Call -> Provider]
<1>1. CASE {p \in rest : Usable(p)} = {}
  BY <1>1, FinishType DEF Proceed
<1>2. CASE {p \in rest : Usable(p)} # {}
  BY <1>2 DEF Proceed, TypeInv
<1> QED
  BY <1>1, <1>2

LEMMA InitTypeInv == Init => TypeInv
  BY ConstantsAssumption DEF Init, TypeInv, Provider

LEMMA NextTypeInv == TypeInv /\ [Next]_vars => TypeInv'
<1> SUFFICES ASSUME TypeInv, [Next]_vars PROVE TypeInv'
  OBVIOUS
<1>1. CASE UNCHANGED vars
  BY <1>1 DEF vars, world, circuit, metrics, call, TypeInv
<1>2. ASSUME NEW p \in Provider, Cool(p) PROVE TypeInv'
  BY <1>2 DEF Cool, world, metrics, call, TypeInv
<1>3. ASSUME NEW c \in Call, Begin(c) PROVE TypeInv'
  BY <1>3, ProceedType DEF Begin, world, circuit, metrics, TypeInv
<1>4. ASSUME NEW c \in Call, NEW cost, GiveUpOn(c, cost) PROVE TypeInv'
  <2>1. at[c] \in Provider /\ left[c] \in SUBSET Provider
    BY DEF TypeInv
  <2>2. Proceed(c, rank[c], left[c], spent[c] + cost)
    BY <1>4 DEF GiveUpOn
  <2>3. /\ pc' \in [Call -> {"new", "waiting", "answered", "exhausted", "cut_off"}]
        /\ left' \in [Call -> SUBSET Provider] /\ at' \in [Call -> Provider]
    BY <2>1, <2>2, ProceedType
  <2>4. failures' \in [Provider -> Nat] /\ losses' \in [Provider -> Nat]
    BY <1>4 DEF GiveUpOn, RecordFailure, TypeInv
  <2>5. open' \in [Provider -> BOOLEAN]
    BY <1>4, Zenon DEF GiveUpOn, RecordFailure, TypeInv
  <2> QED
    BY <1>4, <2>3, <2>4, <2>5 DEF GiveUpOn, world, TypeInv
<1>5. ASSUME NEW c \in Call, NEW cost, Fail(c, cost) PROVE TypeInv'
  <2>1. CASE Retry(c, cost)
    BY <2>1 DEF Retry, world, circuit, metrics, TypeInv
  <2> QED
    BY <1>4, <1>5, <2>1 DEF Fail
<1>6. ASSUME NEW c \in Call, Respond(c) PROVE TypeInv'
  <2>1. RecordSuccess(at[c]) /\ wins' = [wins EXCEPT ![at[c]] = @ + 1]
    BY <1>6 DEF Respond
  <2>2. /\ pc' \in [Call -> {"new", "waiting", "answered", "exhausted", "cut_off"}]
        /\ left' \in [Call -> SUBSET Provider] /\ at' \in [Call -> Provider]
    BY <1>6, FinishType DEF Respond
  <2>3. failures' \in [Provider -> Nat] /\ wins' \in [Provider -> Nat]
    BY <2>1 DEF RecordSuccess, TypeInv
  <2>4. open' \in [Provider -> BOOLEAN]
    BY <2>1 DEF RecordSuccess, TypeInv
  <2> QED
    BY <1>6, <2>2, <2>3, <2>4 DEF Respond, world, TypeInv
<1>7. ASSUME NEW c \in Call, CutOff(c) PROVE TypeInv'
  BY <1>7, FinishType DEF CutOff, world, circuit, metrics, TypeInv
<1>8. ASSUME NEW c \in Call, Outcome(c) PROVE TypeInv'
  BY <1>4, <1>5, <1>6, <1>7, <1>8 DEF Outcome, Reject, FailFast, TimeOut
<1> QED
  BY <1>1, <1>2, <1>3, <1>8 DEF Next
-----------------------------------------------------------------------------
LEMMA InitOpenAfterThreshold == Init => OpenAfterThreshold
  BY ConstantsAssumption DEF Init, OpenAfterThreshold

LEMMA NextOpenAfterThreshold == TypeInv /\ OpenAfterThreshold /\ [Next]_vars => OpenAfterThreshold'
<1> SUFFICES ASSUME TypeInv, OpenAfterThreshold, [Next]_vars PROVE OpenAfterThreshold'
  OBVIOUS
<1>1. ASSUME UNCHANGED <<failures, open>> PROVE OpenAfterThreshold'
  BY <1>1 DEF OpenAfterThreshold
<1>2. ASSUME NEW p \in Provider, RecordFailure(p) PROVE OpenAfterThreshold'
  <2>1. failures'[p] = failures[p] + 1 /\ (open'[p] <=> open[p] \/ failures[p] + 1 >= Threshold)
    BY <1>2 DEF RecordFailure, TypeInv
  <2>2. \A q \in Provider : q # p => failures'[q] = failures[q] /\ open'[q] = open[q]
    BY <1>2 DEF RecordFailure, TypeInv
  <2>3. failures[p] \in Nat /\ (open[p] <=> failures[p] >= Threshold)
    BY DEF OpenAfterThreshold, TypeInv
  <2>4. open'[p] <=> failures'[p] >= Threshold
    BY <2>1, <2>3, ConstantsAssumption
  <2> QED
    BY <2>2, <2>4 DEF OpenAfterThreshold
<1>3. ASSUME NEW p \in Provider, RecordSuccess(p) PROVE OpenAfterThreshold'
  BY <1>3, ConstantsAssumption DEF RecordSuccess, OpenAfterThreshold, TypeInv
<1>4. ASSUME NEW c \in Call PROVE at[c] \in Provider
  BY DEF TypeInv
<1>5. ASSUME NEW c \in Call, NEW cost, Fail(c, cost) PROVE OpenAfterThreshold'
  BY <1>1, <1>2, <1>4, <1>5 DEF Fail, Retry, GiveUpOn, circuit
<1>6. ASSUME NEW c \in Call, Outcome(c) PROVE OpenAfterThreshold'
  BY <1>1, <1>2, <1>3, <1>4, <1>5, <1>6
  DEF Outcome, Respond, Reject, GiveUpOn, FailFast, TimeOut, CutOff, circuit
<1> QED
  BY <1>1, <1>6 DEF Next, Begin, Cool, vars, circuit

\* The breaker's state and its count of failures never disagree.
THEOREM OpenAfterThresholdAlways == Spec => []OpenAfterThreshold
  BY InitTypeInv, NextTypeInv, InitOpenAfterThreshold, NextOpenAfterThreshold, PTL DEF Spec
-----------------------------------------------------------------------------
(***************************************************************************)
(* Types, with the scores and the times                                    *)
(***************************************************************************)
MoreTypes ==
  /\ cooled \in [Provider -> BOOLEAN] /\ cutoffs \in [Provider -> Nat]
  /\ latency \in [Provider -> Nat] /\ rank \in [Call -> [Provider -> Nat]]
  /\ attempt \in [Call -> 0..MaxRetries]
  /\ waited \in [Call -> Nat] /\ spent \in [Call -> Nat]

\* 2 ^ n counts the subsets of 1..n.
LEMMA PowerNat == ASSUME NEW n \in Nat PROVE 2 ^ n \in Nat
<1>1. IsFiniteSet(1..n) /\ Cardinality(1..n) = n
  <2>1. /\ IsFiniteSet(1..n)
        /\ Cardinality(1..n) = IF 1 > n THEN 0 ELSE n - 1 + 1
    BY FS_Interval
  <2> QED
    BY <2>1
<1>2. IsFiniteSet(SUBSET (1..n)) /\ Cardinality(SUBSET (1..n)) = 2 ^ n
  BY <1>1, FS_SUBSET
<1> QED
  BY <1>2, FS_CardinalityType

LEMMA ShortType == ASSUME NEW total \in Nat, NEW count \in Nat PROVE Short(total, count) \in Nat
  BY DEF Short, Bad

LEMMA AtLeastOneType == ASSUME NEW n \in Nat PROVE AtLeastOne(n) \in Nat \ {0}
  BY DEF AtLeastOne

\* A score is a number of thousandths.
LEMMA HealthType == ASSUME TypeInv, MoreTypes, NEW p \in Provider PROVE Health(p) \in Nat
<1> DEFINE t == AtLeastOne(wins[p] + losses[p])
           n == AtLeastOne(wins[p])
           w == wins[p]
           d == Short(latency[p], n)
<1>1. wins[p] \in Nat /\ losses[p] \in Nat /\ latency[p] \in Nat
  BY DEF TypeInv, MoreTypes
<1>2. t \in Nat \ {0} /\ n \in Nat \ {0} /\ w \in Nat /\ d \in Nat
  <2>1. t \in Nat \ {0} /\ n \in Nat \ {0}
    BY <1>1, AtLeastOneType
  <2> HIDE DEF t, n
  <2>2. n \in Nat
    BY <2>1
  <2>3. d \in Nat
    BY <1>1, <2>2, ShortType
  <2> QED
    BY <1>1, <2>1, <2>3
<1> HIDE DEF t, n, w, d
<1>3. w * n \in Nat /\ d * t \in Nat /\ t * n \in Nat \ {0}
  BY <1>2, Z3
<1>4. ASSUME NEW k \in {1, 2}
      PROVE  (2 * ((600 * w * n + 40 * d * t) * k) + 2 * t * n) \div (2 * (2 * t * n)) \in Nat
  <2>1. /\ 600 * w * n = 600 * (w * n) /\ 40 * d * t = 40 * (d * t)
        /\ 2 * t * n = 2 * (t * n)
    BY <1>2, Z3
  <2>2. 2 * ((600 * w * n + 40 * d * t) * k) + 2 * t * n \in Nat
    BY <1>3, <2>1
  <2>3. 2 * (2 * t * n) \in Nat \ {0}
    BY <1>3, <2>1
  <2> QED
    BY <2>2, <2>3, Z3
<1>5. ASSUME NEW closed \in BOOLEAN PROVE Quality(p, closed) \in Nat
  BY <1>4 DEF Quality, t, n, w, d
<1> QED
  BY <1>5 DEF Health

LEMMA FinishMoreTypes ==
  ASSUME MoreTypes, NEW c \in Call, NEW how, Finish(c, how)
  PROVE  /\ rank' \in [Call -> [Provider -> Nat]] /\ attempt' \in [Call -> 0..MaxRetries]
         /\ waited' \in [Call -> Nat] /\ spent' \in [Call -> Nat]
  BY ConstantsAssumption DEF Finish, MoreTypes

LEMMA ProceedMoreTypes ==
  ASSUME MoreTypes, NEW c \in Call, NEW score \in [Provider -> Nat], NEW rest, NEW time \in Nat,
         Proceed(c, score, rest, time)
  PROVE  /\ rank' \in [Call -> [Provider -> Nat]] /\ attempt' \in [Call -> 0..MaxRetries]
         /\ waited' \in [Call -> Nat] /\ spent' \in [Call -> Nat]
<1>1. CASE Finish(c, "exhausted")
  BY <1>1, FinishMoreTypes
<1>2. CASE /\ attempt' = [attempt EXCEPT ![c] = 0]
           /\ waited' = [waited EXCEPT ![c] = 0]
           /\ spent' = [spent EXCEPT ![c] = time]
           /\ rank' = [rank EXCEPT ![c] = score]
  BY <1>2, ConstantsAssumption DEF MoreTypes
<1> QED
  BY <1>1, <1>2 DEF Proceed

LEMMA NextMoreTypes == TypeInv /\ MoreTypes /\ [Next]_vars => MoreTypes'
<1> SUFFICES ASSUME TypeInv, MoreTypes, [Next]_vars PROVE MoreTypes'
  OBVIOUS
<1>1. CASE UNCHANGED vars
  BY <1>1 DEF vars, circuit, metrics, call, MoreTypes
<1>2. ASSUME NEW p \in Provider, Cool(p) PROVE MoreTypes'
  BY <1>2 DEF Cool, metrics, call, MoreTypes
<1>3. ASSUME NEW c \in Call, Begin(c) PROVE MoreTypes'
  <2>1. [p \in Provider |-> Health(p)] \in [Provider -> Nat]
    BY HealthType
  <2>2. Proceed(c, [p \in Provider |-> Health(p)], Provider, 0)
    BY <1>3 DEF Begin
  <2> QED
    BY <1>3, <2>1, <2>2, ProceedMoreTypes DEF Begin, circuit, metrics, MoreTypes
<1>4. ASSUME NEW c \in Call, NEW cost \in Nat, GiveUpOn(c, cost) PROVE MoreTypes'
  <2>1. rank[c] \in [Provider -> Nat] /\ spent[c] + cost \in Nat
    BY DEF MoreTypes
  <2>2. Proceed(c, rank[c], left[c], spent[c] + cost)
    BY <1>4 DEF GiveUpOn
  <2>3. cooled' \in [Provider -> BOOLEAN] /\ cutoffs' \in [Provider -> Nat]
    BY <1>4 DEF GiveUpOn, RecordFailure, MoreTypes
  <2> QED
    BY <1>4, <2>1, <2>2, <2>3, ProceedMoreTypes DEF GiveUpOn, MoreTypes
<1>5. ASSUME NEW c \in Call, NEW cost \in Nat, Fail(c, cost) PROVE MoreTypes'
  <2>1. CASE attempt[c] < MaxRetries /\ Retry(c, cost)
    <3>1. attempt[c] + 1 \in 0..MaxRetries /\ attempt[c] \in Nat
      BY <2>1, ConstantsAssumption DEF MoreTypes
    <3>2. 2 ^ attempt[c] \in Nat
      BY <3>1, PowerNat
    <3>3. BaseDelay * 2 ^ attempt[c] \in Nat
      BY <3>2, ConstantsAssumption
    <3>4. /\ spent[c] + cost + BaseDelay * 2 ^ attempt[c] \in Nat
          /\ waited[c] + cost + BaseDelay * 2 ^ attempt[c] \in Nat
      BY <3>3 DEF MoreTypes
    <3>5. /\ attempt' \in [Call -> 0..MaxRetries]
          /\ waited' \in [Call -> Nat] /\ spent' \in [Call -> Nat]
      BY <2>1, <3>1, <3>4 DEF Retry, MoreTypes
    <3> QED
      BY <2>1, <3>5 DEF Retry, circuit, metrics, MoreTypes
  <2> QED
    BY <1>4, <1>5, <2>1 DEF Fail
<1>6. ASSUME NEW c \in Call, Respond(c) PROVE MoreTypes'
  <2>1. Finish(c, "answered") /\ cooled' = cooled /\ cutoffs' = [cutoffs EXCEPT ![at[c]] = 0]
    BY <1>6 DEF Respond, RecordSuccess
  <2>2. cutoffs' \in [Provider -> Nat] /\ cooled' \in [Provider -> BOOLEAN]
    BY <2>1 DEF MoreTypes
  <2>3. /\ rank' \in [Call -> [Provider -> Nat]] /\ attempt' \in [Call -> 0..MaxRetries]
        /\ waited' \in [Call -> Nat] /\ spent' \in [Call -> Nat]
    BY <2>1, FinishMoreTypes
  <2>4. latency' \in [Provider -> Nat]
    <3>1. PICK time \in Latencies : latency' = [latency EXCEPT ![at[c]] = @ + waited[c] + time]
      BY <1>6 DEF Respond
    <3>2. at[c] \in Provider /\ latency[at[c]] \in Nat /\ waited[c] \in Nat /\ time \in Nat
      BY ConstantsAssumption DEF TypeInv, MoreTypes
    <3>3. latency[at[c]] + waited[c] + time \in Nat
      BY <3>2
    <3> QED
      BY <3>1, <3>3 DEF MoreTypes
  <2> QED
    BY <2>2, <2>3, <2>4 DEF MoreTypes
<1>7. ASSUME NEW c \in Call, CutOff(c) PROVE MoreTypes'
  <2>1. Finish(c, "cut_off") /\ cooled' = cooled /\ cutoffs' = [cutoffs EXCEPT ![at[c]] = @ + 1]
    BY <1>7 DEF CutOff, circuit
  <2>2. cutoffs' \in [Provider -> Nat] /\ cooled' \in [Provider -> BOOLEAN]
    <3>1. at[c] \in Provider /\ cutoffs[at[c]] + 1 \in Nat
      BY DEF TypeInv, MoreTypes
    <3> QED
      BY <2>1, <3>1 DEF MoreTypes
  <2>3. /\ rank' \in [Call -> [Provider -> Nat]] /\ attempt' \in [Call -> 0..MaxRetries]
        /\ waited' \in [Call -> Nat] /\ spent' \in [Call -> Nat]
    BY <2>1, FinishMoreTypes
  <2> QED
    BY <1>7, <2>2, <2>3 DEF CutOff, metrics, MoreTypes
<1>8. ASSUME NEW c \in Call, Outcome(c) PROVE MoreTypes'
  <2>1. 0 \in Nat /\ Timeout \in Nat
    BY ConstantsAssumption
  <2> QED
    BY <1>4, <1>5, <1>6, <1>7, <1>8, <2>1 DEF Outcome, Reject, FailFast, TimeOut
<1> QED
  BY <1>1, <1>2, <1>3, <1>8 DEF Next

LEMMA TypesInvariant == Spec => [](TypeInv /\ MoreTypes)
<1>1. Init => MoreTypes
  BY ConstantsAssumption DEF Init, MoreTypes
<1> QED
  BY <1>1, InitTypeInv, NextTypeInv, NextMoreTypes, PTL DEF Spec

\* The variables keep their types, the times and the scores of a call among them: no
\* step divides by zero or takes an average below nothing.
THEOREM TypeCorrect == Spec => []TypeOK
<1>1. TypeInv /\ MoreTypes => TypeOK
  BY DEF TypeInv, MoreTypes, TypeOK
<1> QED
  BY <1>1, TypesInvariant, PTL
-----------------------------------------------------------------------------
LEMMA DivAtLeast ==
  ASSUME NEW a \in Nat, NEW b \in Nat \ {0}, NEW n \in Nat, a >= n * b
  PROVE  ~(a \div b < n)
  BY Z3

\* A provider that has only ever answered scores 0.4 or more, however slowly.
LEMMA NeverLost ==
  ASSUME TypeInv, MoreTypes, NEW p \in Provider, losses[p] = 0, wins[p] = 0 => latency[p] = 0
  PROVE  ~(Quality(p, TRUE) < Floor)
<1> DEFINE w == wins[p]
           d == Short(latency[p], AtLeastOne(wins[p]))
<1>0. w \in Nat /\ losses[p] = 0 /\ d \in Nat
  BY AtLeastOneType, ShortType DEF TypeInv, MoreTypes
<1>1. CASE w = 0
  <2>1. wins[p] = 0 /\ AtLeastOne(wins[p] + losses[p]) = 1 /\ AtLeastOne(wins[p]) = 1
    BY <1>0, <1>1 DEF AtLeastOne
  <2>2. latency[p] = 0
    BY <2>1
  <2> QED
    BY <2>1, <2>2 DEF Quality, Floor, Short, Bad
<1>2. CASE w # 0
  <2>1. AtLeastOne(wins[p] + losses[p]) = w /\ AtLeastOne(wins[p]) = w
    BY <1>0, <1>2 DEF AtLeastOne
  <2> DEFINE unit == 2 * w * w
             score == (600 * w * w + 40 * d * w) * 2
  <2>2. Quality(p, TRUE) = (2 * score + unit) \div (2 * unit)
    BY <2>1 DEF Quality
  <2> HIDE DEF d
  <2>3. w * w \in Nat \ {0} /\ d * w \in Nat
    BY <1>0, <1>2, Z3
  <2>4. unit = 2 * (w * w) /\ score = 1200 * (w * w) + 80 * (d * w)
    BY <1>0, Z3
  <2>5. /\ 2 * unit \in Nat \ {0} /\ 2 * score + unit \in Nat
        /\ 2 * score + unit >= 200 * (2 * unit)
    BY <2>3, <2>4
  <2>6. ~((2 * score + unit) \div (2 * unit) < 200)
    BY <2>5, DivAtLeast
  <2> QED
    BY <2>2, <2>6 DEF Floor
<1> QED
  BY <1>1, <1>2

\* A provider that always answers has a clean record.
CleanRecord ==
  \A p \in up : /\ losses[p] = 0 /\ ~open[p] /\ p \notin hangs
                /\ wins[p] = 0 => latency[p] = 0

\* A call that waits has not passed over all of them.
NotPassedOver ==
  \A c \in Call : pc[c] = "waiting" => \E p \in up : p = at[c] \/ p \in left[c]

ServeInv == CleanRecord /\ (up # {} => NotPassedOver) /\ ServedWhileOneIsUp

LEMMA CleanIsUsable == ASSUME TypeInv, MoreTypes, CleanRecord, NEW p \in up PROVE Usable(p)
<1>1. /\ p \in Provider /\ losses[p] = 0 /\ open[p] = FALSE
      /\ wins[p] = 0 => latency[p] = 0
  BY DEF TypeInv, CleanRecord
<1>2. ~(Quality(p, TRUE) < Floor)
  BY <1>1, NeverLost
<1> QED
  BY <1>1, <1>2, Zenon DEF Usable, Available, Health

\* While one that always answers is left, the loop finds a provider, and passes over
\* none of them.
LEMMA ProceedServes ==
  ASSUME TypeInv, MoreTypes, CleanRecord, NEW u \in up, NEW c \in Call, NEW score,
         NEW rest \in SUBSET Provider, u \in rest, NEW time, Proceed(c, score, rest, time)
  PROVE  pc'[c] = "waiting" /\ (u = at'[c] \/ u \in left'[c])
<1>1. u \in {p \in rest : Usable(p)}
  BY CleanIsUsable
<1>2. PICK p \in {q \in rest : Usable(q)} :
        /\ \A q \in {x \in rest : Usable(x)} \ {p} : Before(score, p, q)
        /\ pc' = [pc EXCEPT ![c] = "waiting"]
        /\ at' = [at EXCEPT ![c] = p]
        /\ left' = [left EXCEPT ![c] = {q \in rest \ {p} : Before(score, p, q)}]
  BY <1>1 DEF Proceed
<1>3. pc'[c] = "waiting" /\ at'[c] = p /\ left'[c] = {q \in rest \ {p} : Before(score, p, q)}
  BY <1>2 DEF TypeInv
<1> QED
  BY <1>1, <1>2, <1>3

\* A step of call c serves if the others stay where they are.
LEMMA OthersServed ==
  ASSUME TypeInv, ServeInv, NEW c \in Call, up' = up, CleanRecord',
         \A d \in Call \ {c} : pc'[d] = pc[d] /\ at'[d] = at[d] /\ left'[d] = left[d],
         up # {} => pc'[c] # "exhausted",
         up # {} /\ pc'[c] = "waiting" => \E p \in up : p = at'[c] \/ p \in left'[c]
  PROVE  ServeInv'
<1>1. ASSUME up # {} PROVE NotPassedOver'
  <2>1. NotPassedOver
    BY <1>1 DEF ServeInv
  <2> QED
    BY <1>1, <2>1 DEF NotPassedOver
<1>2. ServedWhileOneIsUp'
  BY DEF ServeInv, ServedWhileOneIsUp
<1> QED
  BY <1>1, <1>2 DEF ServeInv

LEMMA ProceedOthers ==
  ASSUME TypeInv, NEW c \in Call, NEW score, NEW rest \in SUBSET Provider, NEW time,
         Proceed(c, score, rest, time)
  PROVE  \A d \in Call \ {c} : pc'[d] = pc[d] /\ at'[d] = at[d] /\ left'[d] = left[d]
  BY DEF Proceed, Finish, TypeInv

LEMMA NextServeInv == TypeInv /\ MoreTypes /\ ServeInv /\ [Next]_vars => ServeInv'
<1> SUFFICES ASSUME TypeInv, MoreTypes, ServeInv, [Next]_vars PROVE ServeInv'
  OBVIOUS
<1>0. CleanRecord
  BY DEF ServeInv
<1>1. ASSUME UNCHANGED <<pc, at, left, up, hangs, open, metrics>> PROVE ServeInv'
  BY <1>1 DEF ServeInv, CleanRecord, NotPassedOver, ServedWhileOneIsUp, metrics
<1>2. CASE UNCHANGED vars
  BY <1>1, <1>2 DEF vars, world, circuit, metrics, call
<1>3. ASSUME NEW p \in Provider, Cool(p) PROVE ServeInv'
  BY <1>1, <1>3 DEF Cool, world, call
<1>4. ASSUME NEW c \in Call, Begin(c) PROVE ServeInv'
  <2>1. up' = up /\ CleanRecord'
    BY <1>0, <1>4 DEF Begin, world, circuit, metrics, CleanRecord
  <2>2. Proceed(c, [p \in Provider |-> Health(p)], Provider, 0)
    BY <1>4 DEF Begin
  <2>3. ASSUME NEW u \in up PROVE pc'[c] = "waiting" /\ (u = at'[c] \/ u \in left'[c])
    BY <1>0, <2>2, ProceedServes DEF TypeInv
  <2> QED
    BY <2>1, <2>2, <2>3, ProceedOthers, OthersServed
<1>5. ASSUME NEW c \in Call, NEW cost, GiveUpOn(c, cost), pc[c] = "waiting", at[c] \notin up PROVE ServeInv'
  <2>1. at[c] \in Provider /\ left[c] \in SUBSET Provider
    BY DEF TypeInv
  <2>2. up' = up /\ CleanRecord'
    <3>1. /\ up' = up /\ hangs' = hangs /\ wins' = wins /\ latency' = latency
          /\ \A p \in up : losses'[p] = losses[p] /\ open'[p] = open[p]
      BY <1>5 DEF GiveUpOn, RecordFailure, world, TypeInv
    <3> QED
      BY <1>0, <3>1 DEF CleanRecord
  <2>3. Proceed(c, rank[c], left[c], spent[c] + cost)
    BY <1>5 DEF GiveUpOn
  <2>4. ASSUME up # {} PROVE pc'[c] = "waiting" /\ \E p \in up : p = at'[c] \/ p \in left'[c]
    <3>1. PICK u \in up : u \in left[c]
      BY <1>5, <2>4 DEF ServeInv, NotPassedOver
    <3> QED
      BY <1>0, <2>1, <2>3, <3>1, ProceedServes
  <2> QED
    BY <2>1, <2>2, <2>3, <2>4, ProceedOthers, OthersServed
<1>6. ASSUME NEW c \in Call, NEW cost, Fail(c, cost) PROVE ServeInv'
  <2>1. CASE Retry(c, cost)
    BY <1>1, <2>1 DEF Retry, world, circuit
  <2> QED
    BY <1>5, <1>6, <2>1 DEF Fail
<1>7. ASSUME NEW c \in Call, Respond(c) PROVE ServeInv'
  <2>1. at[c] \in Provider
    BY DEF TypeInv
  <2>2. \A p \in up : wins'[p] = 0 => latency'[p] = 0
    <3>1. /\ wins' = [wins EXCEPT ![at[c]] = wins[at[c]] + 1]
          /\ \E n : latency' = [latency EXCEPT ![at[c]] = n]
      BY <1>7 DEF Respond
    <3>2. \A p \in up : p \in Provider /\ wins[p] \in Nat /\ (wins[p] = 0 => latency[p] = 0)
      BY <1>0 DEF TypeInv, CleanRecord
    <3>3. wins'[at[c]] # 0 /\ \A p \in Provider \ {at[c]} : wins'[p] = wins[p] /\ latency'[p] = latency[p]
      BY <3>1 DEF TypeInv, MoreTypes
    <3> QED
      BY <3>2, <3>3
  <2>3. /\ up' = up /\ hangs' = hangs /\ losses' = losses
        /\ open' = [open EXCEPT ![at[c]] = FALSE]
    BY <1>7 DEF Respond, RecordSuccess, world
  <2>4. CleanRecord'
    <3>1. \A p \in up : losses[p] = 0 /\ ~open[p] /\ p \notin hangs /\ p \in Provider
      BY <1>0 DEF CleanRecord, TypeInv
    <3>2. \A p \in up : open'[p] = FALSE
      BY <2>3, <3>1 DEF TypeInv
    <3> QED
      BY <2>2, <2>3, <3>1, <3>2 DEF CleanRecord
  <2>5. pc'[c] = "answered" /\ \A d \in Call \ {c} : pc'[d] = pc[d] /\ at'[d] = at[d] /\ left'[d] = left[d]
    BY <1>7 DEF Respond, Finish, TypeInv
  <2> QED
    BY <2>3, <2>4, <2>5, OthersServed
<1>8. ASSUME NEW c \in Call, CutOff(c) PROVE ServeInv'
  <2>1. up' = up /\ CleanRecord'
    BY <1>0, <1>8 DEF CutOff, world, circuit, metrics, CleanRecord
  <2>2. pc'[c] = "cut_off" /\ \A d \in Call \ {c} : pc'[d] = pc[d] /\ at'[d] = at[d] /\ left'[d] = left[d]
    BY <1>8 DEF CutOff, Finish, TypeInv
  <2> QED
    BY <2>1, <2>2, OthersServed
<1>9. ASSUME NEW c \in Call, Outcome(c) PROVE ServeInv'
  BY <1>5, <1>6, <1>7, <1>8, <1>9 DEF Outcome, Reject, FailFast, TimeOut
<1> QED
  BY <1>2, <1>3, <1>4, <1>9 DEF Next

\* However the outcomes interleave, no call gives up on the chain while one of its
\* providers always answers.
THEOREM ServedWhileOneIsUpAlways == Spec => []ServedWhileOneIsUp
<1>1. Init => ServeInv
  BY DEF Init, ServeInv, CleanRecord, NotPassedOver, ServedWhileOneIsUp
<1>2. ServeInv => ServedWhileOneIsUp
  BY DEF ServeInv
<1> QED
  BY <1>1, <1>2, TypesInvariant, NextServeInv, PTL DEF Spec
-----------------------------------------------------------------------------
(***************************************************************************)
(* The order in which a call tries its providers                           *)
(***************************************************************************)

\* What is left to a waiting call ranks behind the provider it waits for.
InTurn ==
  \A c \in Call : pc[c] = "waiting" =>
    at[c] \notin left[c] /\ \A q \in left[c] : Before(rank[c], at[c], q)

LEMMA ProceedInTurn ==
  ASSUME TypeInv, MoreTypes, InTurn, NEW c \in Call, NEW score, NEW rest \in SUBSET Provider,
         NEW time, Proceed(c, score, rest, time)
  PROVE  /\ InTurn'
         /\ pc'[c] = "waiting" =>
              /\ at'[c] \in rest /\ left'[c] \subseteq rest \ {at'[c]} /\ rank'[c] = score
              /\ attempt'[c] = 0 /\ Usable(at'[c])
<1>1. /\ pc \in [Call -> {"new", "waiting", "answered", "exhausted", "cut_off"}]
      /\ left \in [Call -> SUBSET Provider] /\ at \in [Call -> Provider]
      /\ rank \in [Call -> [Provider -> Nat]] /\ attempt \in [Call -> 0..MaxRetries]
  BY DEF TypeInv, MoreTypes
<1>2. \A d \in Call \ {c} : /\ pc'[d] = pc[d] /\ at'[d] = at[d] /\ left'[d] = left[d]
                            /\ rank'[d] = rank[d]
  BY <1>1 DEF Proceed, Finish
<1>3. CASE {p \in rest : Usable(p)} = {}
  <2>1. pc'[c] = "exhausted"
    BY <1>1, <1>3 DEF Proceed, Finish
  <2> QED
    BY <1>2, <2>1 DEF InTurn, Before
<1>4. CASE {p \in rest : Usable(p)} # {}
  <2>1. PICK p \in {q \in rest : Usable(q)} :
          /\ at' = [at EXCEPT ![c] = p] /\ attempt' = [attempt EXCEPT ![c] = 0]
          /\ rank' = [rank EXCEPT ![c] = score]
          /\ left' = [left EXCEPT ![c] = {q \in rest \ {p} : Before(score, p, q)}]
    BY <1>4 DEF Proceed
  <2>2. /\ at'[c] = p /\ p \in rest /\ rank'[c] = score /\ attempt'[c] = 0 /\ Usable(p)
        /\ left'[c] = {q \in rest \ {p} : Before(score, p, q)}
    BY <1>1, <2>1
  <2>3. \A q \in left'[c] : Before(rank[c], at[c], q)'
    BY <2>2 DEF Before
  <2>4. InTurn'
    BY <1>2, <2>2, <2>3 DEF InTurn, Before
  <2> QED
    BY <2>2, <2>4
<1> QED
  BY <1>3, <1>4

\* A step of another call, or of nobody.
LEMMA Unmoved ==
  ASSUME NEW c \in Call, pc'[c] = pc[c], rank'[c] = rank[c], at'[c] = at[c], left'[c] = left[c],
         attempt'[c] = attempt[c]
  PROVE  OnlyForward(c)
  BY DEF OnlyForward

\* A step of call d leaves the locals of the other calls alone.
LEMMA OthersUnmoved ==
  ASSUME TypeInv, MoreTypes, NEW d \in Call, Begin(d) \/ Outcome(d), NEW c \in Call, c # d
  PROVE  /\ pc'[c] = pc[c] /\ rank'[c] = rank[c] /\ at'[c] = at[c] /\ left'[c] = left[c]
         /\ attempt'[c] = attempt[c]
<1>1. /\ pc \in [Call -> {"new", "waiting", "answered", "exhausted", "cut_off"}]
      /\ left \in [Call -> SUBSET Provider] /\ at \in [Call -> Provider]
      /\ rank \in [Call -> [Provider -> Nat]] /\ attempt \in [Call -> 0..MaxRetries]
  BY DEF TypeInv, MoreTypes
<1>2. ASSUME NEW how, Finish(d, how)
      PROVE  /\ pc'[c] = pc[c] /\ rank'[c] = rank[c] /\ at'[c] = at[c] /\ left'[c] = left[c]
             /\ attempt'[c] = attempt[c]
  BY <1>1, <1>2 DEF Finish
<1>3. ASSUME NEW score, NEW rest, NEW time, Proceed(d, score, rest, time)
      PROVE  /\ pc'[c] = pc[c] /\ rank'[c] = rank[c] /\ at'[c] = at[c] /\ left'[c] = left[c]
             /\ attempt'[c] = attempt[c]
  BY <1>1, <1>2, <1>3 DEF Proceed
<1>4. ASSUME NEW cost, Retry(d, cost)
      PROVE  /\ pc'[c] = pc[c] /\ rank'[c] = rank[c] /\ at'[c] = at[c] /\ left'[c] = left[c]
             /\ attempt'[c] = attempt[c]
  BY <1>1, <1>4 DEF Retry
<1> QED
  BY <1>2, <1>3, <1>4
  DEF Begin, Outcome, Respond, Reject, FailFast, TimeOut, Fail, GiveUpOn, CutOff

LEMMA NextInTurn ==
  ASSUME TypeInv, MoreTypes, InTurn, [Next]_vars
  PROVE  InTurn' /\ \A c \in Call : OnlyForward(c)
<1>1. ASSUME UNCHANGED <<pc, rank, at, left, attempt>>
      PROVE  InTurn' /\ \A c \in Call : OnlyForward(c)
  BY <1>1 DEF InTurn, Before, OnlyForward
<1>2. ASSUME NEW d \in Call, Begin(d) \/ Outcome(d), InTurn', OnlyForward(d)
      PROVE  InTurn' /\ \A c \in Call : OnlyForward(c)
  BY <1>2, OthersUnmoved, Unmoved
<1>3. ASSUME NEW d \in Call, Begin(d) PROVE InTurn' /\ OnlyForward(d)
  <2>1. InTurn' /\ pc[d] = "new"
    BY <1>3, ProceedInTurn DEF Begin
  <2> QED
    BY <2>1 DEF OnlyForward
<1>4. ASSUME NEW d \in Call, NEW cost, GiveUpOn(d, cost), pc[d] = "waiting"
      PROVE  InTurn' /\ OnlyForward(d)
  <2>1. left[d] \in SUBSET Provider /\ Proceed(d, rank[d], left[d], spent[d] + cost)
    BY <1>4 DEF TypeInv, GiveUpOn
  <2>2. at[d] \notin left[d] /\ \A q \in left[d] : Before(rank[d], at[d], q)
    BY <1>4 DEF InTurn
  <2>3. /\ InTurn'
        /\ pc'[d] = "waiting" => /\ at'[d] \in left[d] /\ left'[d] \subseteq left[d] \ {at'[d]}
                                 /\ rank'[d] = rank[d] /\ attempt'[d] = 0 /\ Usable(at'[d])
    BY <2>1, ProceedInTurn
  <2> QED
    BY <2>2, <2>3 DEF OnlyForward
<1>5. ASSUME NEW d \in Call, NEW cost, Retry(d, cost) PROVE InTurn' /\ OnlyForward(d)
  <2>1. /\ pc' = pc /\ rank' = rank /\ at' = at /\ left' = left
        /\ attempt'[d] = attempt[d] + 1
    BY <1>5 DEF Retry, MoreTypes
  <2> QED
    BY <2>1 DEF InTurn, Before, OnlyForward
<1>6. ASSUME NEW d \in Call, NEW how \in {"answered", "cut_off"}, Finish(d, how)
      PROVE  InTurn' /\ OnlyForward(d)
  <2>1. /\ pc'[d] = how
        /\ \A c \in Call \ {d} : pc'[c] = pc[c] /\ rank'[c] = rank[c] /\ at'[c] = at[c] /\ left'[c] = left[c]
    BY <1>6 DEF Finish, TypeInv, MoreTypes
  <2>2. ASSUME NEW c \in Call, pc'[c] = "waiting"
        PROVE  /\ at'[c] \notin left'[c]
               /\ \A q \in left'[c] : Before(rank[c], at[c], q)'
    BY <2>1, <2>2 DEF InTurn, Before
  <2> QED
    BY <2>1, <2>2 DEF InTurn, OnlyForward
<1>7. ASSUME NEW d \in Call, Outcome(d) PROVE InTurn' /\ OnlyForward(d)
  BY <1>4, <1>5, <1>6, <1>7 DEF Outcome, Respond, Reject, FailFast, TimeOut, Fail, CutOff
<1>8. CASE \E p \in Provider : Cool(p)
  BY <1>1, <1>8 DEF Cool, call
<1>9. CASE UNCHANGED vars
  BY <1>1, <1>9 DEF vars, call
<1> QED
  BY <1>2, <1>3, <1>7, <1>8, <1>9 DEF Next

\* However scores and circuits change while it waits, a call tries each provider once,
\* in the order of the scores at its beginning and never through an open circuit.
THEOREM NoProviderTwiceAlways == Spec => NoProviderTwice
<1>1. Init => InTurn
  BY DEF Init, InTurn
<1>2. TypeInv /\ MoreTypes /\ InTurn /\ [Next]_vars => InTurn' /\ [\A c \in Call : OnlyForward(c)]_vars
  BY NextInTurn
<1> QED
  BY <1>1, <1>2, TypesInvariant, PTL DEF Spec, NoProviderTwice
=============================================================================
