------------------------ MODULE SummarizationProofs ------------------------
(***************************************************************************)
(* What holds of Summarization for any number of buckets, retries, key     *)
(* points, failures, crashes and expiries, with or without its defects.    *)
(***************************************************************************)
EXTENDS Summarization, TLAPS

Jobs == [step : Running \cup Ended \cup {"none", "queued"}, try : 0..(MaxTry + MaxCrash),
         messages : Nat, todo : 0..MaxPoints, out : Outcomes]
Turns == [step : {"idle", "persist", "context", "write", "count", "bucket", "enqueue"},
          old : Buckets \cup {0}, seen : Buckets \cup {0}, new : Int]

\* The steps after the row of the version is committed.
After == {"points", "session", "context", "save", "decrement", "mark"}

\* What the invariant says of one job: only a dying worker makes arq run it more
\* often than it retries, it is past "row" only with a row, and what it has still
\* to store is within what the summary has.
JobOK(b, r) ==
  /\ r \in Jobs
  /\ r.try <= MaxTry + crashes
  /\ r.step = "queued" => r.try < MaxTry + crashes
  /\ r.step \in After => b \in versions
  /\ r.step = "points" => points[b] + r.todo <= MaxPoints

JobsOK == job \in [Buckets -> Jobs] /\ \A b \in Buckets : JobOK(b, job[b])

\* A turn is sent while there is one to send, its copies of a summary's version are
\* of rows that are stored, and it enqueues a bucket that its count has reached.
TurnOK ==
  /\ chat \in Turns
  /\ {chat.old, chat.seen} \subseteq versions \cup {0}
  /\ chat.step = "persist" => sent < MaxMessages
  /\ chat.step \in {"bucket", "enqueue"} => chat.new \in Nat

StoreOK ==
  /\ sent \in 0..MaxMessages /\ count \in Int /\ lock \in Buckets \cup {NULL}
  /\ bucket \in [Buckets -> {"absent", "enqueued", "processed"}]
  /\ versions \subseteq Buckets /\ points \in [Buckets -> Nat]
  /\ faults \in 0..MaxFault /\ crashes \in 0..MaxCrash /\ lapses \in 0..MaxLapse

Marks == \A b \in Buckets : bucket[b] = "processed" => \E v \in versions : v >= b

IInv ==
  /\ StoreOK /\ JobsOK /\ TurnOK /\ Marks /\ KeyPointsStoredOnce
  /\ {current, context} \subseteq versions \cup {0}

-----------------------------------------------------------------------------
(***************************************************************************)
(* Facts about buckets and steps                                           *)
(***************************************************************************)
LEMMA BucketsAreNumbers == Buckets \subseteq Nat \ {0} /\ 0 \notin Buckets
  BY DEF Buckets

\* A count that has reached a bucket is positive.
LEMMA Counted == ASSUME NEW n \in Int, n \div Every > 0 PROVE n \in Nat
  BY BoundsAssumption

LEMMA StepsDistinct ==
  ASSUME NEW i \in 1..11, NEW j \in 1..11, Steps[i] = Steps[j] PROVE i = j
  BY DEF Steps

LEMMA FollowingStep == ASSUME NEW i \in 1..10 PROVE Following(Steps[i]) = Steps[i + 1]
<1> DEFINE I == {j \in 1..Len(Steps) : Steps[j] = Steps[i]}
<1>1. Len(Steps) = 11
  BY DEF Steps
<1>2. I = {i}
  BY <1>1, StepsDistinct
<1>3. Min(I) = i
  BY <1>2 DEF Min
<1>4. SelectInSeq(Steps, LAMBDA s : s = Steps[i]) = i
  BY <1>2, <1>3 DEF SelectInSeq
<1> QED
  BY <1>4 DEF Following

\* The order of the job's steps.
LEMMA FollowingIs ==
  /\ Following("check") = "version" /\ Following("version") = "build"
  /\ Following("build") = "summarise" /\ Following("summarise") = "row"
  /\ Following("row") = "points" /\ Following("points") = "session"
  /\ Following("session") = "context" /\ Following("context") = "save"
  /\ Following("save") = "decrement" /\ Following("decrement") = "mark"
<1>1. /\ Steps[1] = "check" /\ Steps[2] = "version" /\ Steps[3] = "build"
      /\ Steps[4] = "summarise" /\ Steps[5] = "row" /\ Steps[6] = "points"
      /\ Steps[7] = "session" /\ Steps[8] = "context" /\ Steps[9] = "save"
      /\ Steps[10] = "decrement" /\ Steps[11] = "mark"
  BY DEF Steps
<1>2. /\ Following(Steps[1]) = Steps[2] /\ Following(Steps[2]) = Steps[3]
      /\ Following(Steps[3]) = Steps[4] /\ Following(Steps[4]) = Steps[5]
      /\ Following(Steps[5]) = Steps[6] /\ Following(Steps[6]) = Steps[7]
      /\ Following(Steps[7]) = Steps[8] /\ Following(Steps[8]) = Steps[9]
      /\ Following(Steps[9]) = Steps[10] /\ Following(Steps[10]) = Steps[11]
  <2>1. \A i \in 1..10 : Following(Steps[i]) = Steps[i + 1]
    BY FollowingStep
  <2> HIDE DEF Following, Steps
  <2> QED
    BY <2>1
<1> QED
  BY <1>1, <1>2

LEMMA StepNames ==
  /\ {"check", "version", "build", "summarise", "row", "points", "session", "context",
      "save", "decrement", "mark"} = Inside
  /\ Inside \subseteq Running /\ {"lock", "release"} \subseteq Running
<1>1. Len(Steps) = 11
  BY DEF Steps
<1>2. Inside = {Steps[i] : i \in 1..11}
  BY <1>1 DEF Inside, ToSet, Steps
<1>3. Inside = {"check", "version", "build", "summarise", "row", "points", "session", "context",
                "save", "decrement", "mark"}
  BY <1>2 DEF Steps
<1> QED
  BY <1>3 DEF Running

-----------------------------------------------------------------------------
(***************************************************************************)
(* Steps of one job                                                        *)
(***************************************************************************)

\* What a job may do beside its own record without disturbing the invariant.
Harmless ==
  /\ sent' = sent /\ chat' = chat /\ versions' = versions /\ points' = points
  /\ count' \in Int /\ lock' \in Buckets \cup {NULL}
  /\ bucket' \in [Buckets -> {"absent", "enqueued", "processed"}] /\ Marks'
  /\ {current', context'} \subseteq versions \cup {0}
  /\ faults' \in 0..MaxFault /\ lapses' = lapses
  /\ crashes' \in 0..MaxCrash /\ crashes <= crashes'

LEMMA JobStep ==
  ASSUME IInv, Harmless, NEW b \in Buckets, NEW r, job' = [job EXCEPT ![b] = r],
         r \in Jobs, r.try <= MaxTry + crashes', r.step = "queued" => r.try < MaxTry + crashes',
         r.step \in After => b \in versions,
         r.step = "points" => points[b] + r.todo <= MaxPoints
  PROVE  IInv'
<1>1. StoreOK' /\ Marks' /\ KeyPointsStoredOnce' /\ {current', context'} \subseteq versions' \cup {0}
  BY DEF IInv, StoreOK, Harmless, KeyPointsStoredOnce
<1>2. TurnOK'
  BY DEF IInv, TurnOK, Harmless
<1>3. job' \in [Buckets -> Jobs]
  BY DEF IInv, JobsOK
<1>4. ASSUME NEW c \in Buckets PROVE JobOK(c, job[c])'
  <2>1. CASE c = b
    <3>1. job'[c] = r
      BY <2>1 DEF IInv, JobsOK
    <3> QED
      BY <2>1, <3>1 DEF JobOK, Harmless
  <2>2. CASE c # b
    <3>1. job'[c] = job[c] /\ JobOK(c, job[c])
      BY <2>2 DEF IInv, JobsOK
    <3>2. crashes \in Nat /\ crashes' \in Nat /\ MaxTry \in Nat /\ job[c].try \in Nat
      BY BoundsAssumption DEF IInv, StoreOK, JobsOK, Jobs, Harmless
    <3> QED
      BY <3>1, <3>2 DEF JobOK, Harmless
  <2> QED
    BY <2>1, <2>2
<1> QED
  BY <1>1, <1>2, <1>3, <1>4 DEF IInv, JobsOK

\* The record of a job, with what the invariant says of it.
LEMMA JobIs ==
  ASSUME IInv, NEW b \in Buckets
  PROVE  /\ job[b] \in Jobs /\ JobOK(b, job[b]) /\ b \in Nat \ {0}
         /\ crashes \in Nat /\ MaxTry \in Nat \ {0} /\ job[b].try \in Nat
  BY BoundsAssumption, BucketsAreNumbers DEF IInv, JobsOK, StoreOK, Jobs

\* A job changes its step, and perhaps how it will leave.
LEMMA Moved ==
  ASSUME IInv, Harmless, NEW b \in Buckets, NEW step, NEW out \in Outcomes, NEW r,
         job' = [job EXCEPT ![b] = r],
         r = [job[b] EXCEPT !.step = step] \/ r = [job[b] EXCEPT !.step = step, !.out = out],
         step \in Running \cup Ended \cup {"queued"},
         step = "queued" => job[b].try < MaxTry + crashes',
         step \in After => b \in versions, step # "points"
  PROVE  IInv'
<1>1. r \in Jobs /\ r.step = step /\ r.try = job[b].try
  BY JobIs DEF Jobs
<1>2. r.try <= MaxTry + crashes'
  <2>1. job[b].try <= MaxTry + crashes /\ crashes \in Nat /\ MaxTry \in Nat /\ job[b].try \in Nat
    BY JobIs DEF JobOK
  <2>2. crashes' \in Nat /\ crashes <= crashes'
    BY DEF Harmless
  <2> QED
    BY <1>1, <2>1, <2>2
<1> QED
  BY <1>1, <1>2, JobStep

\* What the finally block and arq make of an outcome.
LEMMA Verdicts ==
  ASSUME IInv, NEW b \in Buckets, NEW outcome
  PROVE  /\ Verdict(b, outcome) \in Ended \cup {"queued"}
         /\ Verdict(b, outcome) = "queued" => job[b].try < MaxTry + crashes
<1>1. Verdict(b, outcome) \in Ended \cup {"queued"}
  BY DEF Verdict, Ended
<1>2. Verdict(b, outcome) = "queued" => job[b].try < MaxTry
  BY DEF Verdict
<1> QED
  BY <1>1, <1>2, JobIs

\* A step that only the records of the jobs tell.
LEMMA StillHarmless ==
  ASSUME IInv, UNCHANGED <<sent, chat, versions, points, lapses>>,
         count' = count \/ count' \in Int, lock' = lock \/ lock' \in Buckets \cup {NULL},
         bucket' = bucket, current' = current, context' = context,
         faults' = faults \/ Spend, crashes' = crashes
  PROVE  Harmless
<1>1. Marks'
  BY DEF IInv, Marks
<1>2. faults' \in 0..MaxFault
  BY BoundsAssumption DEF IInv, StoreOK, Spend
<1>3. crashes' \in 0..MaxCrash /\ crashes <= crashes'
  BY DEF IInv, StoreOK
<1> QED
  BY <1>1, <1>2, <1>3 DEF IInv, StoreOK, Harmless

LEMMA TakeInv == ASSUME IInv, NEW b \in Buckets, Take(b) PROVE IInv'
<1> DEFINE r == [job[b] EXCEPT !.step = "lock", !.try = @ + 1]
<1>1. job' = [job EXCEPT ![b] = r]
  BY DEF Take
<1>2. Harmless
  BY StillHarmless DEF Take, stored, budgets
<1>3. job[b].try < MaxTry + crashes
  BY JobIs DEF Take, At, JobOK
<1>4. /\ job[b].try + 1 \in 0..(MaxTry + MaxCrash) /\ job[b].try + 1 <= MaxTry + crashes
      /\ crashes' = crashes
  <2>1. crashes <= MaxCrash /\ MaxCrash \in Nat
    BY BoundsAssumption DEF IInv, StoreOK
  <2> QED
    BY <1>3, <2>1, JobIs DEF Take, budgets
<1>5. r \in Jobs /\ r.step = "lock" /\ r.try = job[b].try + 1
  BY <1>4, JobIs, StepNames DEF Jobs
<1> QED
  BY <1>1, <1>2, <1>4, <1>5, JobStep DEF After

LEMMA LockInv == ASSUME IInv, NEW b \in Buckets, Acquire(b) \/ SkipLocked(b) PROVE IInv'
<1>1. Harmless
  BY StillHarmless DEF Acquire, SkipLocked, stored, budgets
<1>2. CASE Acquire(b)
  <2>1. job' = [job EXCEPT ![b] = [job[b] EXCEPT !.step = "check"]]
    BY <1>2 DEF Acquire
  <2> QED
    BY <1>1, <2>1, StepNames, Moved DEF Outcomes, After
<1>3. CASE SkipLocked(b)
  <2>1. job' = [job EXCEPT ![b] = [job[b] EXCEPT !.step = Verdict(b, Logged)]] /\ crashes' = crashes
    BY <1>3 DEF SkipLocked, budgets
  <2>2. /\ Verdict(b, Logged) \in Running \cup Ended \cup {"queued"}
        /\ Verdict(b, Logged) \notin After
        /\ Verdict(b, Logged) = "queued" => job[b].try < MaxTry + crashes
    BY Verdicts DEF After, Ended
  <2> QED
    BY <1>1, <2>1, <2>2, Moved DEF Outcomes, After
<1> QED
  BY <1>2, <1>3

LEMMA LoggedOutcome == Logged \in Outcomes
  BY DEF Logged, Outcomes

\* A job that leaves the try block.
LEMMA LeaveInv ==
  ASSUME IInv, Harmless, NEW b \in Buckets, NEW outcome \in Outcomes, Leave(b, outcome)
  PROVE  IInv'
<1>1. job' = [job EXCEPT ![b] = [job[b] EXCEPT !.step = "release", !.out = outcome]]
  BY DEF Leave
<1> QED
  BY <1>1, StepNames, Moved DEF After

\* A job that goes on to its next step, but for the key points.
LEMMA MoveInv ==
  ASSUME IInv, Harmless, NEW b \in Buckets, Move(b),
         NEW step \in Inside, Following(job[b].step) = step, step # "points",
         step \in After => b \in versions
  PROVE  IInv'
<1>1. job' = [job EXCEPT ![b] = [job[b] EXCEPT !.step = step]]
  BY DEF Move
<1>2. step # "queued" /\ step \in Running
  BY StepNames
<1> QED
  BY <1>1, <1>2, Moved DEF Outcomes

LEMMA CheckInv == ASSUME IInv, NEW b \in Buckets, CheckBucket(b) \/ CheckVersion(b) PROVE IInv'
<1>1. CASE CheckBucket(b)
  <2>1. Harmless
    BY <1>1, StillHarmless DEF CheckBucket, stored, budgets
  <2>2. Leave(b, Logged) \/ (Move(b) /\ Following(job[b].step) = "version")
    BY <1>1, FollowingIs DEF CheckBucket, At
  <2> QED
    BY <2>1, <2>2, LoggedOutcome, LeaveInv, MoveInv, StepNames DEF After
<1>2. CASE CheckVersion(b)
  <2>1. Marks' /\ bucket' \in [Buckets -> {"absent", "enqueued", "processed"}]
    BY <1>2 DEF CheckVersion, IInv, Marks, StoreOK, stored
  <2>2. Harmless
    BY <1>2, <2>1 DEF CheckVersion, Harmless, stored, budgets, IInv, StoreOK
  <2>3. Leave(b, Logged) \/ (Move(b) /\ Following(job[b].step) = "build")
    BY <1>2, FollowingIs DEF CheckVersion, At
  <2> QED
    BY <2>2, <2>3, LoggedOutcome, LeaveInv, MoveInv, StepNames DEF After
<1> QED
  BY <1>1, <1>2

LEMMA BuildInv == ASSUME IInv, NEW b \in Buckets, Build(b) \/ Summarise(b) PROVE IInv'
<1>1. Harmless
  BY StillHarmless DEF Build, Summarise, stored, budgets
<1>2. CASE Build(b)
  <2>1. Move(b) /\ Following(job[b].step) = "summarise"
    BY <1>2, FollowingIs DEF Build, At
  <2> QED
    BY <1>1, <2>1, MoveInv, StepNames DEF After
<1>3. CASE Summarise(b)
  <2>1. PICK n \in 0..MaxPoints : job' = [job EXCEPT ![b].step = Following(@), ![b].todo = n]
    <3>1. MaxPoints \in Nat
      BY BoundsAssumption
    <3>2. 0..(IF "summarizer" \in Defects THEN 0 ELSE MaxPoints) \subseteq 0..MaxPoints
      BY <3>1
    <3> QED
      BY <1>3, <3>2 DEF Summarise
  <2>2. Following(job[b].step) = "row"
    BY <1>3, FollowingIs DEF Summarise, At
  <2> DEFINE r == [job[b] EXCEPT !.step = "row", !.todo = n]
  <2>3. job' = [job EXCEPT ![b] = r]
    BY <2>1, <2>2
  <2>4. r \in Jobs /\ r.step = "row" /\ r.try = job[b].try
    BY JobIs, StepNames DEF Jobs
  <2>5. r.try <= MaxTry + crashes'
    BY <1>3, <2>4, JobIs DEF JobOK, Summarise, budgets
  <2> QED
    BY <1>1, <2>3, <2>4, <2>5, JobStep DEF After
<1> QED
  BY <1>2, <1>3

\* The row: from here on the bucket has its version.
LEMMA StoreRowInv == ASSUME IInv, NEW b \in Buckets, StoreRow(b) PROVE IInv'
<1> DEFINE r == [job[b] EXCEPT !.step = "points"]
<1>1. /\ b \notin versions /\ versions' = versions \cup {b} /\ sent' = sent /\ chat' = chat
      /\ count' = count /\ bucket' = bucket /\ lock' = lock /\ points' = points
      /\ current' = current /\ context' = context /\ faults' = faults
      /\ crashes' = crashes /\ lapses' = lapses
  BY DEF StoreRow, budgets
<1>2. job' = [job EXCEPT ![b] = r]
  BY FollowingIs DEF StoreRow, At, Move
<1>3. r \in Jobs /\ r.step = "points" /\ r.try = job[b].try /\ r.todo = job[b].todo
  BY JobIs, StepNames DEF Jobs
<1>4. points[b] = 0
  <2>1. points[b] \in Nat /\ ~(points[b] > 0)
    BY <1>1 DEF IInv, KeyPointsStoredOnce, StoreOK
  <2> QED
    BY <2>1
<1>5. r.todo <= MaxPoints
  BY <1>3, BoundsAssumption DEF Jobs
<1>6. r.try <= MaxTry + crashes /\ points[b] + r.todo <= MaxPoints
  BY <1>3, <1>4, <1>5, JobIs DEF JobOK, Jobs
<1>7. JobsOK'
  <2>1. job' \in [Buckets -> Jobs]
    BY <1>2, <1>3 DEF IInv, JobsOK
  <2>2. ASSUME NEW c \in Buckets, c # b PROVE JobOK(c, job[c])'
    BY <1>1, <1>2, <2>2 DEF IInv, JobsOK, JobOK
  <2>3. job'[b] = r
    BY <1>2 DEF IInv, JobsOK
  <2>4. JobOK(b, job[b])'
    BY <1>1, <1>3, <1>6, <2>3 DEF JobOK
  <2> QED
    BY <2>1, <2>2, <2>4 DEF JobsOK
<1>8. TurnOK' /\ Marks' /\ KeyPointsStoredOnce'
  BY <1>1 DEF IInv, TurnOK, Marks, KeyPointsStoredOnce
<1>9. StoreOK' /\ {current', context'} \subseteq versions' \cup {0}
  BY <1>1 DEF IInv, StoreOK
<1> QED
  BY <1>7, <1>8, <1>9 DEF IInv

\* One key point: what is stored and what is still to be stored keep their sum.
LEMMA StorePointInv == ASSUME IInv, NEW b \in Buckets, StorePoint(b) PROVE IInv'
<1> DEFINE r == [job[b] EXCEPT !.todo = @ - 1]
<1>1. /\ job[b].step = "points" /\ job[b].todo > 0 /\ versions' = versions /\ sent' = sent
      /\ chat' = chat /\ count' = count /\ bucket' = bucket /\ lock' = lock
      /\ current' = current /\ context' = context /\ faults' = faults
      /\ crashes' = crashes /\ lapses' = lapses
  BY DEF StorePoint, At, budgets
<1>2. job' = [job EXCEPT ![b] = r] /\ points' = [points EXCEPT ![b] = @ + 1]
  BY DEF StorePoint
<1>3. /\ job[b].todo \in Nat /\ job[b].todo - 1 \in 0..MaxPoints /\ MaxPoints \in Nat
      /\ points[b] \in Nat /\ points[b] + job[b].todo <= MaxPoints /\ b \in versions
  BY <1>1, JobIs, BoundsAssumption DEF Jobs, JobOK, After, IInv, StoreOK
<1>4. r \in Jobs /\ r.step = "points" /\ r.try = job[b].try /\ r.todo = job[b].todo - 1
  BY <1>1, <1>3, JobIs DEF Jobs
<1>5. /\ points' \in [Buckets -> Nat] /\ points'[b] = points[b] + 1
      /\ \A c \in Buckets : c # b => points'[c] = points[c]
  BY <1>2, <1>3 DEF IInv, StoreOK
<1>6. points'[b] + r.todo <= MaxPoints
  BY <1>3, <1>4, <1>5
<1>7. JobsOK'
  <2>1. job' \in [Buckets -> Jobs] /\ job'[b] = r
    BY <1>2, <1>4 DEF IInv, JobsOK
  <2>2. ASSUME NEW c \in Buckets, c # b PROVE JobOK(c, job[c])'
    BY <1>1, <1>2, <1>5, <2>2 DEF IInv, JobsOK, JobOK
  <2>3. JobOK(b, job[b])'
    BY <1>1, <1>3, <1>4, <1>6, <2>1, JobIs DEF JobOK
  <2> QED
    BY <2>1, <2>2, <2>3 DEF JobsOK
<1>8. KeyPointsStoredOnce'
  <2>1. points'[b] <= MaxPoints
    BY <1>3, <1>5
  <2> QED
    BY <1>1, <1>3, <1>5, <2>1 DEF IInv, KeyPointsStoredOnce
<1>9. TurnOK' /\ Marks' /\ StoreOK' /\ {current', context'} \subseteq versions' \cup {0}
  BY <1>1, <1>5 DEF IInv, TurnOK, Marks, StoreOK
<1> QED
  BY <1>7, <1>8, <1>9 DEF IInv

\* What follows the row: the session row, the context, the counter, the mark.
LEMMA WriteInv ==
  ASSUME IInv, NEW b \in Buckets,
         \/ PointsStored(b) \/ UpdateSession(b) \/ ReadForSummary(b) \/ SaveSummary(b)
         \/ SaveSummaryFails(b) \/ Decrement(b) \/ MarkProcessed(b)
  PROVE  IInv'
<1>1. job[b].step \in After \/ At(b, "mark")
  BY DEF PointsStored, UpdateSession, ReadForSummary, SaveSummary, SaveSummaryFails, Decrement,
         MarkProcessed, At, After
<1>2. b \in versions
  BY <1>1, JobIs DEF JobOK, At, After
<1>3. CASE PointsStored(b) \/ ReadForSummary(b)
  <2>1. Harmless
    BY <1>3, StillHarmless DEF PointsStored, ReadForSummary, stored, budgets
  <2>2. Move(b) /\ Following(job[b].step) \in {"session", "save"}
    BY <1>3, FollowingIs DEF PointsStored, ReadForSummary, At
  <2> QED
    BY <1>2, <2>1, <2>2, MoveInv, StepNames
<1>7. CASE SaveSummaryFails(b)
  <2>1. Harmless
    BY <1>7, StillHarmless DEF SaveSummaryFails, stored, budgets
  <2>2. job' = [job EXCEPT ![b] = [job[b] EXCEPT !.step = "decrement"]]
    BY <1>7, FollowingIs DEF SaveSummaryFails
  <2>3. "decrement" # "queued" /\ "decrement" \in Running
    BY StepNames
  <2> QED
    BY <1>2, <2>1, <2>2, <2>3, Moved DEF Outcomes
<1>4. CASE UpdateSession(b) \/ SaveSummary(b)
  <2>1. {current', context'} \subseteq versions \cup {0}
    BY <1>2, <1>4 DEF UpdateSession, SaveSummary, IInv, stored
  <2>2. Marks'
    BY <1>4 DEF UpdateSession, SaveSummary, IInv, Marks, stored
  <2>3. Harmless
    BY <1>4, <2>1, <2>2 DEF UpdateSession, SaveSummary, Harmless, IInv, StoreOK, stored, budgets
  <2>4. Move(b) /\ Following(job[b].step) \in {"context", "decrement"}
    BY <1>4, FollowingIs DEF UpdateSession, SaveSummary, At
  <2> QED
    BY <1>2, <2>3, <2>4, MoveInv, StepNames
<1>5. CASE Decrement(b)
  <2>1. count' \in Int
    BY <1>5, JobIs DEF Decrement, Jobs, IInv, StoreOK
  <2>2. Harmless
    BY <1>5, <2>1, StillHarmless DEF Decrement, stored, budgets
  <2>3. Move(b) /\ Following(job[b].step) = "mark"
    BY <1>5, FollowingIs DEF Decrement, At
  <2> QED
    BY <1>2, <2>2, <2>3, MoveInv, StepNames
<1>6. CASE MarkProcessed(b)
  <2>1. bucket' = [bucket EXCEPT ![b] = "processed"] /\ bucket \in [Buckets -> {"absent", "enqueued", "processed"}]
    BY <1>6 DEF MarkProcessed, IInv, StoreOK
  <2>2. bucket' \in [Buckets -> {"absent", "enqueued", "processed"}]
    BY <2>1
  <2>3. Marks'
    <3>1. versions' = versions /\ b >= b
      BY <1>6, JobIs DEF MarkProcessed, stored
    <3> QED
      BY <1>2, <2>1, <3>1 DEF IInv, Marks
  <2>4. Harmless
    BY <1>6, <2>2, <2>3 DEF MarkProcessed, Harmless, IInv, StoreOK, stored, budgets
  <2> QED
    BY <1>6, <2>4, LeaveInv, LoggedOutcome DEF MarkProcessed
<1> QED
  BY <1>3, <1>4, <1>5, <1>6, <1>7

\* The ways a run of the job ends.
LEMMA EndInv ==
  ASSUME IInv, NEW b \in Buckets,
         Release(b) \/ ReleaseFails(b) \/ JobRaises(b) \/ JobTimesOut(b)
  PROVE  IInv'
<1>1. Harmless /\ crashes' = crashes
  BY StillHarmless DEF Release, ReleaseFails, JobRaises, JobTimesOut, stored, budgets
<1>2. ASSUME NEW outcome, job' = [job EXCEPT ![b].step = Verdict(b, outcome)] PROVE IInv'
  <2>1. job' = [job EXCEPT ![b] = [job[b] EXCEPT !.step = Verdict(b, outcome)]]
    BY <1>2
  <2>2. /\ Verdict(b, outcome) \in Running \cup Ended \cup {"queued"}
        /\ Verdict(b, outcome) \notin After
        /\ Verdict(b, outcome) = "queued" => job[b].try < MaxTry + crashes
    BY Verdicts DEF After, Ended
  <2> QED
    BY <1>1, <2>1, <2>2, Moved DEF Outcomes, After
<1>3. ASSUME NEW outcome \in Outcomes, JobFails(b, outcome) PROVE IInv'
  BY <1>1, <1>2, <1>3, LeaveInv DEF JobFails
<1> QED
  BY <1>2, <1>3 DEF Release, ReleaseFails, JobRaises, JobTimesOut, Outcomes

LEMMA WorkerDiesInv == ASSUME IInv, NEW b \in Buckets, WorkerDies(b) PROVE IInv'
<1>1. crashes < MaxCrash /\ crashes' = crashes + 1 /\ MaxCrash \in Nat
  BY BoundsAssumption DEF WorkerDies
<1>2. crashes' \in 0..MaxCrash /\ crashes <= crashes'
  BY <1>1, JobIs
<1>3. Harmless
  <2>1. Marks'
    BY DEF IInv, Marks, WorkerDies, stored
  <2> QED
    BY <1>2, <2>1 DEF IInv, StoreOK, WorkerDies, stored, Harmless
<1>4. job[b].try < MaxTry + crashes'
  <2>1. job[b].try <= MaxTry + crashes
    BY JobIs DEF JobOK
  <2> QED
    BY <1>1, <2>1, JobIs
<1>5. job' = [job EXCEPT ![b] = [job[b] EXCEPT !.step = "queued"]]
  BY DEF WorkerDies
<1> QED
  BY <1>3, <1>4, <1>5, Moved DEF Outcomes, After

-----------------------------------------------------------------------------
(***************************************************************************)
(* Steps of a turn, and expiry                                             *)
(***************************************************************************)

\* Jobs and their guarantees do not depend on the turn and on what expires.
LEMMA OutsideStep ==
  ASSUME IInv, UNCHANGED <<job, versions, points, crashes>>,
         sent' \in 0..MaxMessages, count' \in Int, lock' \in Buckets \cup {NULL},
         bucket' \in [Buckets -> {"absent", "enqueued", "processed"}],
         \A b \in Buckets : bucket'[b] = "processed" => bucket[b] = "processed",
         faults' \in 0..MaxFault, lapses' \in 0..MaxLapse,
         {current', context'} \subseteq versions \cup {0}, TurnOK'
  PROVE  IInv'
<1>1. JobsOK'
  BY DEF IInv, JobsOK, JobOK
<1>2. StoreOK' /\ Marks' /\ KeyPointsStoredOnce'
  BY DEF IInv, StoreOK, Marks, KeyPointsStoredOnce
<1> QED
  BY <1>1, <1>2 DEF IInv

LEMMA NoJobOK == NoJob \in Jobs /\ NoJob.step = "none" /\ NoJob.try = 0
<1>1. 0 \in 0..(MaxTry + MaxCrash) /\ 0 \in 0..MaxPoints
  BY BoundsAssumption
<1>2. "none" \in Running \cup Ended \cup {"none", "queued"} /\ "done" \in Outcomes
  BY DEF Outcomes
<1> QED
  BY <1>1, <1>2 DEF NoJob, Jobs

LEMMA NoTurnOK == NoTurn \in Turns /\ NoTurn.old = 0 /\ NoTurn.seen = 0 /\ NoTurn.step = "idle"
  BY DEF NoTurn, Turns

\* A turn only copies versions it has found in a store.
LEMMA TurnStep ==
  ASSUME IInv, BeginTurn \/ PersistTurn \/ ReadContext \/ WriteContext \/ CountTurn \/ ClaimBucket
  PROVE  IInv'
<1>1. versions \subseteq Buckets /\ current \in versions \cup {0} /\ context \in versions \cup {0}
  BY DEF IInv, StoreOK
<1>2. TurnOK'
  <2>1. CASE BeginTurn
    <3>1. chat' = [NoTurn EXCEPT !.step = "persist", !.old = current] /\ versions' = versions
      BY <2>1 DEF BeginTurn, stored
    <3>2. chat' \in Turns /\ chat'.old = current /\ chat'.seen = 0 /\ chat'.step = "persist"
      <4>1. chat' = [step |-> "persist", old |-> current, seen |-> 0, new |-> 0]
        BY <3>1 DEF NoTurn
      <4>2. current \in Buckets \cup {0}
        BY <1>1
      <4> QED
        BY <4>1, <4>2 DEF Turns
    <3>3. sent' < MaxMessages
      BY <2>1 DEF BeginTurn
    <3> QED
      BY <1>1, <3>1, <3>2, <3>3 DEF TurnOK
  <2>2. CASE PersistTurn
    <3>1. chat' = [chat EXCEPT !.step = "context"] /\ versions' = versions
      BY <2>2 DEF PersistTurn
    <3> QED
      BY <3>1 DEF IInv, TurnOK, Turns
  <2>3. CASE ReadContext
    <3>1. chat' = [chat EXCEPT !.step = "write", !.seen = context] /\ versions' = versions
      BY <2>3 DEF ReadContext, stored
    <3> QED
      BY <1>1, <3>1 DEF IInv, TurnOK, Turns
  <2>4. CASE WriteContext
    <3>1. chat' = [chat EXCEPT !.step = "count"] /\ versions' = versions
      BY <2>4 DEF WriteContext, stored
    <3> QED
      BY <3>1 DEF IInv, TurnOK, Turns
  <2>5. CASE CountTurn
    <3>1. count' \in Int /\ versions' = versions
      BY <2>5 DEF CountTurn, IInv, StoreOK, stored
    <3>2. CASE count' \div Every > 0
      <4>1. chat' = [chat EXCEPT !.step = "bucket", !.new = count'] /\ count' \in Nat
        BY <2>5, <3>1, <3>2, Counted DEF CountTurn
      <4> HIDE <3>2
      <4> QED
        BY <3>1, <4>1 DEF IInv, TurnOK, Turns
    <3>3. CASE ~(count' \div Every > 0)
      <4>1. chat' = NoTurn
        BY <2>5, <3>3 DEF CountTurn
      <4> HIDE <3>3
      <4> QED
        BY <3>1, <4>1, NoTurnOK DEF TurnOK
    <3> QED
      BY <3>2, <3>3
  <2>6. CASE ClaimBucket
    <3>1. chat.new \in Nat /\ versions' = versions
      BY <2>6 DEF ClaimBucket, IInv, TurnOK, stored
    <3>2. chat' = [chat EXCEPT !.step = "enqueue"] \/ chat' = NoTurn
      BY <2>6 DEF ClaimBucket
    <3> QED
      BY <3>1, <3>2, NoTurnOK DEF IInv, TurnOK, Turns
  <2> QED
    BY <2>1, <2>2, <2>3, <2>4, <2>5, <2>6
<1>3. /\ job' = job /\ versions' = versions /\ points' = points /\ crashes' = crashes
      /\ faults' = faults /\ lapses' = lapses /\ lock' = lock
  BY DEF BeginTurn, PersistTurn, ReadContext, WriteContext, CountTurn, ClaimBucket, stored, budgets
<1>4. sent' \in 0..MaxMessages
  <2>1. CASE PersistTurn
    <3>1. sent' = sent + 1 /\ sent \in Nat /\ MaxMessages \in Nat
      BY <2>1, BoundsAssumption DEF PersistTurn, IInv, StoreOK
    <3>2. sent < MaxMessages
      BY <2>1 DEF PersistTurn, IInv, TurnOK
    <3> QED
      BY <3>1, <3>2
  <2>2. CASE ~PersistTurn
    BY <2>2 DEF BeginTurn, ReadContext, WriteContext, CountTurn, ClaimBucket, IInv, StoreOK
  <2> QED
    BY <2>1, <2>2
<1>5. count' \in Int
  BY DEF BeginTurn, PersistTurn, ReadContext, WriteContext, CountTurn, ClaimBucket, IInv, StoreOK
<1>6. {current', context'} \subseteq versions \cup {0}
  BY DEF BeginTurn, PersistTurn, ReadContext, WriteContext, CountTurn, ClaimBucket, IInv, TurnOK, stored
<1>7. /\ bucket' \in [Buckets -> {"absent", "enqueued", "processed"}]
      /\ \A b \in Buckets : bucket'[b] = "processed" => bucket[b] = "processed"
  <2>1. bucket' = bucket \/ bucket' = [bucket EXCEPT ![TurnBucket] = "enqueued"]
    BY DEF BeginTurn, PersistTurn, ReadContext, WriteContext, CountTurn, ClaimBucket
  <2> HIDE DEF TurnBucket
  <2> QED
    BY <2>1 DEF IInv, StoreOK
<1>8. faults' \in 0..MaxFault /\ lapses' \in 0..MaxLapse /\ lock' \in Buckets \cup {NULL}
  BY <1>3 DEF IInv, StoreOK
<1> QED
  BY <1>2, <1>3, <1>4, <1>5, <1>6, <1>7, <1>8, OutsideStep

LEMMA EnqueueInv == ASSUME IInv, Enqueue PROVE IInv'
<1> DEFINE r == [NoJob EXCEPT !.step = "queued", !.messages = chat.new]
<1>1. chat.new \in Nat
  BY DEF Enqueue, IInv, TurnOK
<1>2. r \in Jobs /\ r.step = "queued" /\ r.try = 0
  <2> HIDE DEF NoJob
  <2> QED
    BY <1>1, NoJobOK DEF Jobs
<1>3. /\ job' = [job EXCEPT ![TurnBucket] = r] /\ chat' = NoTurn /\ sent' = sent /\ count' = count
      /\ bucket' = bucket /\ lock' = lock /\ versions' = versions /\ points' = points
      /\ current' = current /\ context' = context /\ faults' = faults /\ crashes' = crashes
      /\ lapses' = lapses
  BY DEF Enqueue, stored, budgets
<1>4. JobsOK'
  <2> HIDE DEF TurnBucket
  <2>1. job' \in [Buckets -> Jobs] /\ \A c \in Buckets : job'[c] = job[c] \/ job'[c] = r
    BY <1>2, <1>3 DEF IInv, JobsOK
  <2>2. 0 < MaxTry + crashes /\ 0 <= MaxTry + crashes
    BY BoundsAssumption DEF IInv, StoreOK
  <2>3. ASSUME NEW c \in Buckets PROVE JobOK(c, job[c])'
    <3>1. CASE job'[c] = job[c]
      BY <1>3, <3>1 DEF IInv, JobsOK, JobOK
    <3>2. CASE job'[c] = r
      BY <1>2, <1>3, <2>2, <3>2 DEF JobOK, After
    <3> QED
      BY <2>1, <3>1, <3>2
  <2> QED
    BY <2>1, <2>3 DEF JobsOK
<1>5. TurnOK' /\ StoreOK' /\ Marks' /\ KeyPointsStoredOnce'
  BY <1>3, NoTurnOK DEF IInv, TurnOK, StoreOK, Marks, KeyPointsStoredOnce
<1> QED
  BY <1>3, <1>4, <1>5 DEF IInv

LEMMA TurnFailsInv == ASSUME IInv, TurnFails PROVE IInv'
<1>1. /\ job' = job /\ versions' = versions /\ points' = points /\ crashes' = crashes
      /\ lapses' = lapses /\ lock' = lock /\ sent' = sent /\ current' = current /\ context' = context
  BY DEF TurnFails, stored
<1>2. faults' \in 0..MaxFault
  BY BoundsAssumption DEF TurnFails, Spend, IInv, StoreOK
<1>3. count' \in Int
  BY DEF TurnFails, IInv, StoreOK
<1>4. /\ bucket' \in [Buckets -> {"absent", "enqueued", "processed"}]
      /\ \A b \in Buckets : bucket'[b] = "processed" => bucket[b] = "processed"
  <2>1. bucket' = bucket \/ bucket' = [bucket EXCEPT ![TurnBucket] = "enqueued"]
    BY DEF TurnFails
  <2> HIDE DEF TurnBucket
  <2> QED
    BY <2>1 DEF IInv, StoreOK
<1>5. TurnOK'
  <2>1. chat' = NoTurn \/ chat' = [chat EXCEPT !.step = "count"]
    BY DEF TurnFails
  <2> QED
    BY <1>1, <2>1, NoTurnOK DEF IInv, TurnOK, Turns
<1>6. /\ sent' \in 0..MaxMessages /\ lapses' \in 0..MaxLapse /\ lock' \in Buckets \cup {NULL}
      /\ {current', context'} \subseteq versions \cup {0}
  BY <1>1 DEF IInv, StoreOK
<1> QED
  BY <1>1, <1>2, <1>3, <1>4, <1>5, <1>6, OutsideStep

LEMMA TurnDiesInv == ASSUME IInv, TurnDies PROVE IInv'
<1>1. /\ job' = job /\ versions' = versions /\ points' = points /\ crashes' = crashes + 1
      /\ crashes < MaxCrash /\ faults' = faults /\ lapses' = lapses /\ lock' = lock /\ sent' = sent
      /\ current' = current /\ context' = context /\ chat' = NoTurn /\ count' = count /\ bucket' = bucket
  BY DEF TurnDies, stored
<1>2. crashes \in Nat /\ crashes' \in 0..MaxCrash /\ MaxTry \in Nat
  BY <1>1, BoundsAssumption DEF IInv, StoreOK
<1>3. JobsOK'
  <2>1. ASSUME NEW c \in Buckets PROVE JobOK(c, job[c])'
    BY <1>1, <1>2, JobIs DEF JobOK
  <2> QED
    BY <1>1, <2>1 DEF IInv, JobsOK
<1>4. TurnOK' /\ StoreOK' /\ Marks' /\ KeyPointsStoredOnce'
  BY <1>1, <1>2, NoTurnOK DEF IInv, TurnOK, StoreOK, Marks, KeyPointsStoredOnce
<1> QED
  BY <1>1, <1>3, <1>4 DEF IInv

LEMMA ExpiryInv == ASSUME IInv, LockExpires \/ Expire PROVE IInv'
<1>1. /\ job' = job /\ versions' = versions /\ points' = points /\ crashes' = crashes
      /\ faults' = faults /\ sent' = sent /\ current' = current /\ chat' = chat
  BY DEF LockExpires, Expire, stored, budgets
<1>2. lapses' \in 0..MaxLapse
  BY BoundsAssumption DEF LockExpires, Expire, budgets, IInv, StoreOK
<1>3. lock' \in Buckets \cup {NULL} /\ count' \in Int
  BY DEF LockExpires, Expire, IInv, StoreOK
<1>4. context' = context \/ context' = 0
  BY DEF LockExpires, Expire
<1>5. /\ bucket' \in [Buckets -> {"absent", "enqueued", "processed"}]
      /\ \A b \in Buckets : bucket'[b] = "processed" => bucket[b] = "processed"
  <2>1. bucket' = bucket \/ \E b \in Buckets : bucket' = [bucket EXCEPT ![b] = "absent"]
    BY DEF LockExpires, Expire
  <2> QED
    BY <2>1 DEF IInv, StoreOK
<1>6. /\ TurnOK' /\ sent' \in 0..MaxMessages /\ faults' \in 0..MaxFault
      /\ {current', context'} \subseteq versions \cup {0}
  BY <1>1, <1>4 DEF IInv, TurnOK, StoreOK
<1> QED
  BY <1>1, <1>2, <1>3, <1>5, <1>6, OutsideStep

-----------------------------------------------------------------------------
(***************************************************************************)
(* The invariant                                                           *)
(***************************************************************************)
LEMMA InitInv == Init => IInv
<1> SUFFICES ASSUME Init PROVE IInv
  OBVIOUS
<1>1. /\ sent = 0 /\ chat = NoTurn /\ count = 0 /\ lock = NULL /\ versions = {}
      /\ current = 0 /\ context = 0 /\ faults = 0 /\ crashes = 0 /\ lapses = 0
      /\ bucket = [b \in Buckets |-> "absent"] /\ job = [b \in Buckets |-> NoJob]
      /\ points = [b \in Buckets |-> 0]
  BY DEF Init
<1>2. {MaxMessages, MaxFault, MaxCrash, MaxLapse, MaxPoints, MaxTry} \subseteq Nat
  BY BoundsAssumption
<1>3. StoreOK
  BY <1>1, <1>2 DEF StoreOK
<1>4. JobsOK
  BY <1>1, <1>2, NoJobOK DEF JobsOK, JobOK, After
<1>5. TurnOK
  BY <1>1, NoTurnOK DEF TurnOK
<1>6. Marks /\ KeyPointsStoredOnce
  BY <1>1, <1>2 DEF Marks, KeyPointsStoredOnce
<1> QED
  BY <1>1, <1>3, <1>4, <1>5, <1>6 DEF IInv

LEMMA StutterInv == ASSUME IInv, UNCHANGED vars PROVE IInv'
<1>1. JobsOK' /\ StoreOK'
  BY DEF IInv, JobsOK, JobOK, StoreOK, vars, stored, budgets
<1>2. TurnOK' /\ Marks' /\ KeyPointsStoredOnce'
  BY DEF IInv, TurnOK, Marks, KeyPointsStoredOnce, vars, stored, budgets
<1> QED
  BY <1>1, <1>2 DEF IInv, vars, stored, budgets

LEMMA NextInv == ASSUME IInv, [Next]_vars PROVE IInv'
<1>1. CASE Turn
  BY <1>1, TurnStep, EnqueueInv DEF Turn
<1>2. ASSUME NEW b \in Buckets, Job(b) PROVE IInv'
  BY <1>2, TakeInv, LockInv, CheckInv, BuildInv, StoreRowInv, StorePointInv, WriteInv, EndInv DEF Job
<1>3. CASE Fault
  <2>1. ASSUME NEW b \in Buckets,
               SaveSummaryFails(b) \/ ReleaseFails(b) \/ JobRaises(b) \/ JobTimesOut(b) \/ WorkerDies(b)
        PROVE  IInv'
    BY <2>1, WriteInv, EndInv, WorkerDiesInv
  <2> QED
    BY <1>3, <2>1, TurnFailsInv, TurnDiesInv DEF Fault
<1>4. CASE LockExpires \/ Expire
  BY <1>4, ExpiryInv
<1>5. CASE UNCHANGED vars
  BY <1>5, StutterInv
<1> QED
  BY <1>1, <1>2, <1>3, <1>4, <1>5 DEF Next

LEMMA Invariant == Spec => []IInv
<1>1. Init => IInv
  BY InitInv
<1>2. IInv /\ [Next]_vars => IInv'
  BY NextInv
<1> QED
  BY <1>1, <1>2, PTL DEF Spec

-----------------------------------------------------------------------------
(***************************************************************************)
(* Theorems                                                                *)
(***************************************************************************)

\* Every variable keeps its type; a job is run at most ARQ_MAX_RETRIES times, and
\* once more for every worker that dies.
THEOREM TypeCorrect == Spec => []TypeOK
<1>1. IInv => TypeOK
  BY DEF IInv, StoreOK, JobsOK, Jobs, TurnOK, Turns, TypeOK
<1> QED
  BY <1>1, Invariant, PTL

\* Retries, reruns and jobs that are enqueued again store the key points of a
\* bucket once, and only with its version.
THEOREM KeyPointsStoredOnceAlways == Spec => []KeyPointsStoredOnce
<1>1. IInv => KeyPointsStoredOnce
  BY DEF IInv
<1> QED
  BY <1>1, Invariant, PTL

\* The session row, the cached context and the mark of a bucket only ever refer to
\* summaries that are stored, lost updates included.
THEOREM SummaryIsStoredAlways == Spec => []SummaryIsStored
<1>1. IInv => SummaryIsStored
  BY DEF IInv, Marks, SummaryIsStored
<1> QED
  BY <1>1, Invariant, PTL
-----------------------------------------------------------------------------
(***************************************************************************)
(* One job at a time, and versions in order                                *)
(***************************************************************************)

\* The steps between the version check and the commit of the row.
Before == {"build", "summarise", "row"}

\* A run between lock and release holds the lock; what it has read of the versions
\* is still true when it commits its row, and its row is the newest until it ends.
SerialOK(b, step) ==
  /\ step \in Inside \cup {"release"} => lock = b
  /\ step \in Before => \A v \in versions : v < b
  /\ step \in After => \A v \in versions : v <= b

Serial == \A b \in Buckets : SerialOK(b, job[b].step)

\* The lock only passes between nobody and the job that takes the step.
LockMoves(b) == lock' = lock \/ (lock = b /\ lock' = NULL) \/ (lock = NULL /\ lock' = b)

LEMMA SerialStep ==
  ASSUME IInv, Serial, NEW b \in Buckets, NEW r, job' = [job EXCEPT ![b] = r],
         versions' = versions, LockMoves(b), SerialOK(b, r.step)'
  PROVE  Serial'
<1> SUFFICES ASSUME NEW c \in Buckets PROVE SerialOK(c, job[c].step)'
  BY DEF Serial
<1>1. CASE c = b
  <2>1. job'[c] = r
    BY <1>1 DEF IInv, JobsOK
  <2> QED
    BY <1>1, <2>1
<1>2. CASE c # b
  <2>1. job'[c] = job[c] /\ SerialOK(c, job[c].step)
    BY <1>2 DEF IInv, JobsOK, Serial
  <2> QED
    BY <1>2, <2>1, NullAssumption DEF SerialOK, LockMoves
<1> QED
  BY <1>1, <1>2

\* A job changes its step, and perhaps how it will leave.
LEMMA SerialMoved ==
  ASSUME IInv, Serial, NEW b \in Buckets, NEW step, NEW out,
         \/ job' = [job EXCEPT ![b].step = step]
         \/ job' = [job EXCEPT ![b].step = step, ![b].out = out],
         versions' = versions, LockMoves(b), SerialOK(b, step)'
  PROVE  Serial'
<1>1. job[b] \in Jobs
  BY JobIs
<1> DEFINE r == [job[b] EXCEPT !.step = step]
<1> DEFINE s == [job[b] EXCEPT !.step = step, !.out = out]
<1>2. r.step = step /\ s.step = step
  BY <1>1 DEF Jobs
<1>3. job' = [job EXCEPT ![b] = r] \/ job' = [job EXCEPT ![b] = s]
  OBVIOUS
<1> QED
  BY <1>2, <1>3, SerialStep

\* A step that ends a run, or that is not yet inside, asks for nothing.
LEMMA OutsideOK ==
  ASSUME NEW b \in Buckets, NEW step \in Ended \cup {"queued", "lock"}
  PROVE  SerialOK(b, step)'
  BY StepNames DEF Ended, Before, After, SerialOK

LEMMA SerialTurn ==
  ASSUME IInv, Serial, Turn \/ TurnFails \/ TurnDies \/ LockExpires \/ Expire
  PROVE  Serial'
<1>1. CASE Enqueue
  <2> DEFINE r == [NoJob EXCEPT !.step = "queued", !.messages = chat.new]
  <2>1. r.step = "queued"
    BY DEF NoJob
  <2>2. job' = [job EXCEPT ![TurnBucket] = r] /\ versions' = versions /\ lock' = lock
    BY <1>1 DEF Enqueue, stored
  <2> HIDE DEF r, TurnBucket
  <2>3. ASSUME NEW c \in Buckets PROVE SerialOK(c, job[c].step)'
    <3>1. job'[c] = job[c] \/ job'[c] = r
      BY <2>2 DEF IInv, JobsOK
    <3>2. SerialOK(c, job[c].step)
      BY DEF Serial
    <3> QED
      BY <2>1, <2>2, <3>1, <3>2, OutsideOK DEF SerialOK
  <2> QED
    BY <2>3 DEF Serial
<1>2. CASE LockExpires
  <2>1. job' = job /\ versions' = versions /\ job[lock].step \notin Inside \cup {"release"}
    BY <1>2 DEF LockExpires, stored
  <2> QED
    BY <2>1 DEF Serial, SerialOK
<1>3. CASE \/ BeginTurn \/ PersistTurn \/ ReadContext \/ WriteContext \/ CountTurn \/ ClaimBucket
           \/ TurnFails \/ TurnDies \/ Expire
  <2>1. job' = job /\ versions' = versions /\ lock' = lock
    BY <1>3 DEF BeginTurn, PersistTurn, ReadContext, WriteContext, CountTurn, ClaimBucket,
                TurnFails, TurnDies, Expire, stored
  <2> QED
    BY <2>1 DEF Serial, SerialOK
<1> QED
  BY <1>1, <1>2, <1>3 DEF Turn

LEMMA SerialEnter ==
  ASSUME IInv, Serial, NEW b \in Buckets,
         Take(b) \/ Acquire(b) \/ SkipLocked(b) \/ CheckBucket(b) \/ CheckVersion(b)
  PROVE  Serial'
<1>0. job[b] \in Jobs /\ SerialOK(b, job[b].step) /\ versions \subseteq Buckets
  BY JobIs DEF Serial, IInv, StoreOK
<1>1. CASE Take(b)
  <2> DEFINE r == [job[b] EXCEPT !.step = "lock", !.try = @ + 1]
  <2>1. job' = [job EXCEPT ![b] = r] /\ versions' = versions /\ LockMoves(b)
    BY <1>1 DEF Take, stored, LockMoves
  <2>2. r.step = "lock"
    BY <1>0 DEF Jobs
  <2>3. SerialOK(b, "lock")'
    BY OutsideOK
  <2> QED
    BY <2>1, <2>2, <2>3, SerialStep
<1>2. CASE Acquire(b)
  <2>1. job' = [job EXCEPT ![b].step = "check"] /\ versions' = versions /\ LockMoves(b) /\ lock' = b
    BY <1>2 DEF Acquire, stored, LockMoves
  <2>2. SerialOK(b, "check")'
    BY <2>1 DEF SerialOK, Before, After
  <2> QED
    BY <2>1, <2>2, SerialMoved
<1>3. CASE SkipLocked(b)
  <2>1. job' = [job EXCEPT ![b].step = Verdict(b, Logged)] /\ versions' = versions /\ LockMoves(b)
    BY <1>3 DEF SkipLocked, stored, LockMoves
  <2> DEFINE step == Verdict(b, Logged)
  <2>2. step \in Ended \cup {"queued"} /\ job' = [job EXCEPT ![b].step = step]
    BY <2>1, Verdicts
  <2> HIDE DEF step
  <2> QED
    BY <2>1, <2>2, OutsideOK, SerialMoved
<1>4. CASE CheckBucket(b)
  <2>1. /\ versions' = versions /\ lock' = lock /\ job[b].step = "check"
        /\ \/ job' = [job EXCEPT ![b].step = "release", ![b].out = Logged]
           \/ job' = [job EXCEPT ![b].step = "version"]
    BY <1>4, FollowingIs DEF CheckBucket, At, Leave, Move, stored
  <2>2. lock' = b
    BY <1>0, <2>1, StepNames DEF SerialOK
  <2>3. SerialOK(b, "release")' /\ SerialOK(b, "version")'
    BY <2>2 DEF SerialOK, Before, After
  <2> QED
    BY <2>1, <2>3, SerialMoved DEF LockMoves
<1>5. CASE CheckVersion(b)
  <2>1. /\ versions' = versions /\ lock' = lock /\ job[b].step = "version"
        /\ \/ job' = [job EXCEPT ![b].step = "release", ![b].out = Logged]
           \/ (~\E v \in versions : v >= b) /\ job' = [job EXCEPT ![b].step = "build"]
    BY <1>5, FollowingIs DEF CheckVersion, At, Leave, Move, stored
  <2>2. lock' = b
    BY <1>0, <2>1, StepNames DEF SerialOK
  <2>3. SerialOK(b, "release")'
    BY <2>2 DEF SerialOK, Before, After
  <2>4. ASSUME ~\E v \in versions : v >= b PROVE SerialOK(b, "build")'
    <3>1. \A v \in versions : v \in Nat /\ b \in Nat
      BY <1>0, BucketsAreNumbers, JobIs
    <3>2. \A v \in versions : v < b
      BY <2>4, <3>1
    <3> QED
      BY <2>1, <2>2, <3>2 DEF SerialOK, Before, After
  <2> QED
    BY <2>1, <2>3, <2>4, SerialMoved DEF LockMoves
<1> QED
  BY <1>1, <1>2, <1>3, <1>4, <1>5

\* The commit of the row: the lock has kept every other job out since the check.
LEMMA SerialRow == ASSUME IInv, Serial, NEW b \in Buckets, StoreRow(b) PROVE Serial'
<1>1. /\ job[b].step = "row" /\ versions' = versions \cup {b} /\ lock' = lock
      /\ job' = [job EXCEPT ![b].step = "points"]
  BY FollowingIs DEF StoreRow, At, Move
<1>2. lock = b /\ (\A v \in versions : v < b) /\ versions \subseteq Nat /\ b \in Nat
  BY <1>1, StepNames, JobIs, BucketsAreNumbers DEF Serial, SerialOK, Before, IInv, StoreOK
<1>3. ASSUME NEW c \in Buckets PROVE SerialOK(c, job[c].step)'
  <2>1. CASE c = b
    <3>1. job'[c].step = "points"
      BY <1>1, <2>1, JobIs DEF IInv, JobsOK, Jobs
    <3>2. \A v \in versions' : v <= b
      BY <1>1, <1>2
    <3> QED
      BY <1>1, <1>2, <2>1, <3>1, <3>2 DEF SerialOK, Before
  <2>2. CASE c # b
    <3>1. job'[c] = job[c] /\ SerialOK(c, job[c].step)
      BY <1>1, <2>2 DEF IInv, JobsOK, Serial
    <3>2. job[c].step \notin Inside \cup {"release"}
      BY <1>2, <2>2, <3>1 DEF SerialOK
    <3> QED
      BY <3>1, <3>2, StepNames DEF SerialOK, Before, After
  <2> QED
    BY <2>1, <2>2
<1> QED
  BY <1>3 DEF Serial

LEMMA SerialInside ==
  ASSUME IInv, Serial, NEW b \in Buckets,
         \/ Build(b) \/ Summarise(b) \/ StorePoint(b) \/ PointsStored(b) \/ UpdateSession(b)
         \/ ReadForSummary(b) \/ SaveSummary(b) \/ SaveSummaryFails(b) \/ Decrement(b) \/ MarkProcessed(b)
  PROVE  Serial'
<1>0. job[b] \in Jobs /\ SerialOK(b, job[b].step)
  BY JobIs DEF Serial
<1>1. /\ versions' = versions /\ lock' = lock /\ LockMoves(b)
      /\ job[b].step \in {"build", "summarise"} \cup After
  BY DEF Build, Summarise, StorePoint, PointsStored, UpdateSession, ReadForSummary, SaveSummary,
         SaveSummaryFails, Decrement, MarkProcessed, At, After, stored, LockMoves
<1>2. /\ lock' = b
      /\ job[b].step \in After => \A v \in versions' : v <= b
      /\ job[b].step \notin After => \A v \in versions' : v < b
  BY <1>0, <1>1, StepNames DEF SerialOK, Before, After
<1>3. /\ SerialOK(b, "release")'
      /\ job[b].step \in After => \A step \in After : SerialOK(b, step)'
      /\ job[b].step \notin After => \A step \in Before : SerialOK(b, step)'
  BY <1>2 DEF SerialOK, Before, After
<1>4. CASE Summarise(b)
  <2>1. PICK n \in 0..(IF "summarizer" \in Defects THEN 0 ELSE MaxPoints) :
               job' = [job EXCEPT ![b].step = Following(job[b].step), ![b].todo = n]
    BY <1>4 DEF Summarise
  <2>4. Following(job[b].step) = "row"
    BY <1>4, FollowingIs DEF Summarise, At
  <2> DEFINE r == [job[b] EXCEPT !.step = "row", !.todo = n]
  <2>2. job' = [job EXCEPT ![b] = r] /\ r.step = "row"
    BY <1>0, <2>1, <2>4 DEF Jobs
  <2>3. SerialOK(b, "row")'
    BY <1>3, <1>4 DEF Summarise, At, After, Before
  <2> QED
    BY <1>1, <2>2, <2>3, SerialStep
<1>5. CASE StorePoint(b)
  <2> DEFINE r == [job[b] EXCEPT !.todo = @ - 1]
  <2>1. job' = [job EXCEPT ![b] = r] /\ r.step = "points"
    BY <1>0, <1>5 DEF StorePoint, At, Jobs
  <2>2. SerialOK(b, "points")'
    BY <1>3, <1>5 DEF StorePoint, At, After
  <2> QED
    BY <1>1, <2>1, <2>2, SerialStep
<1>6. CASE MarkProcessed(b)
  <2>1. job' = [job EXCEPT ![b].step = "release", ![b].out = Logged]
    BY <1>6 DEF MarkProcessed, Leave
  <2> QED
    BY <1>1, <1>3, <2>1, SerialMoved
<1>7. CASE Build(b)
  <2>1. job' = [job EXCEPT ![b].step = "summarise"]
    BY <1>7, FollowingIs DEF Build, Move, At
  <2>2. SerialOK(b, "summarise")'
    BY <1>3, <1>7 DEF Build, At, After, Before
  <2> QED
    BY <1>1, <2>1, <2>2, SerialMoved
<1>8. CASE PointsStored(b) \/ UpdateSession(b) \/ ReadForSummary(b) \/ SaveSummary(b) \/ SaveSummaryFails(b) \/ Decrement(b)
  <2>1. PICK step \in After : job' = [job EXCEPT ![b].step = step]
    BY <1>8, FollowingIs DEF PointsStored, UpdateSession, ReadForSummary, SaveSummary, SaveSummaryFails, Decrement,
                             Move, At, After
  <2>2. job[b].step \in After
    BY <1>8 DEF PointsStored, UpdateSession, ReadForSummary, SaveSummary, SaveSummaryFails, Decrement, At, After
  <2>3. SerialOK(b, step)'
    BY <1>3, <2>2
  <2> QED
    BY <1>1, <2>1, <2>3, SerialMoved
<1> QED
  BY <1>4, <1>5, <1>6, <1>7, <1>8

LEMMA SerialEnd ==
  ASSUME IInv, Serial, NEW b \in Buckets,
         Release(b) \/ ReleaseFails(b) \/ JobRaises(b) \/ JobTimesOut(b) \/ WorkerDies(b)
  PROVE  Serial'
<1>1. versions' = versions /\ LockMoves(b)
  BY DEF Release, ReleaseFails, JobRaises, JobTimesOut, WorkerDies, stored, LockMoves
<1>2. \A outcome : Verdict(b, outcome) \in Ended \cup {"queued"}
  BY Verdicts
<1>3. \/ \E step \in Ended \cup {"queued"} : job' = [job EXCEPT ![b].step = step]
      \/ /\ job[b].step \in Inside /\ lock' = lock
         /\ \E outcome : job' = [job EXCEPT ![b].step = "release", ![b].out = outcome]
  <2> HIDE DEF Verdict
  <2> QED
    BY <1>2 DEF Release, ReleaseFails, JobRaises, JobTimesOut, JobFails, Leave, WorkerDies, At
<1>4. \A step \in Ended \cup {"queued"} : SerialOK(b, step)'
  BY OutsideOK
<1>5. ASSUME job[b].step \in Inside, lock' = lock PROVE SerialOK(b, "release")'
  BY <1>5 DEF Serial, SerialOK, Before, After
<1> QED
  BY <1>1, <1>3, <1>4, <1>5, SerialMoved

LEMMA NextSerial == ASSUME IInv, Serial, [Next]_vars PROVE Serial'
<1>1. CASE UNCHANGED vars
  BY <1>1 DEF vars, stored, Serial, SerialOK
<1> QED
  BY <1>1, SerialTurn, SerialEnter, SerialRow, SerialInside, SerialEnd DEF Next, Fault, Job

LEMMA SerialInvariant == Spec => [](IInv /\ Serial)
<1>1. Init => IInv /\ Serial
  <2>1. Init => Serial
    BY NoJobOK, StepNames DEF Init, Serial, SerialOK, Before, After
  <2> QED
    BY <2>1, InitInv
<1>2. IInv /\ Serial /\ [Next]_vars => (IInv /\ Serial)'
  BY NextInv, NextSerial
<1> QED
  BY <1>1, <1>2, PTL DEF Spec

\* Two jobs of a session never write at the same time, whatever fails or expires:
\* the lock outlives the longest run and only its holder frees it.
OneJobAtATime ==
  \A b, c \in Buckets : job[b].step \in Inside /\ job[c].step \in Inside => b = c

THEOREM OneJobAtATimeAlways == Spec => []OneJobAtATime
<1>1. IInv /\ Serial => OneJobAtATime
  BY DEF Serial, SerialOK, OneJobAtATime
<1> QED
  BY <1>1, SerialInvariant, PTL

\* Versions are never lost, and a summary is never stored after a newer one: what the
\* job has read of the versions, two calls of a model earlier, still holds when it
\* commits.  Key points are only ever stored with the newest version.
NewestOnly ==
  /\ versions \subseteq versions'
  /\ \A b \in versions' \ versions : \A v \in versions : v < b
  /\ \A b \in Buckets : points'[b] # points[b] => b \in versions /\ \A v \in versions : v <= b

LEMMA NewestStep == ASSUME IInv, Serial, [Next]_vars PROVE NewestOnly
<1>1. CASE versions' = versions /\ points' = points
  BY <1>1 DEF NewestOnly
<1>2. ASSUME NEW b \in Buckets, StoreRow(b) PROVE NewestOnly
  <2>1. versions' = versions \cup {b} /\ points' = points /\ job[b].step = "row"
    BY <1>2 DEF StoreRow, At
  <2>2. \A v \in versions : v < b
    BY <2>1 DEF Serial, SerialOK, Before
  <2> QED
    BY <2>1, <2>2 DEF NewestOnly
<1>3. ASSUME NEW b \in Buckets, StorePoint(b) PROVE NewestOnly
  <2>1. /\ versions' = versions /\ points' = [points EXCEPT ![b] = @ + 1]
        /\ job[b].step = "points"
    BY <1>3 DEF StorePoint, At
  <2>2. b \in versions /\ \A v \in versions : v <= b
    BY <2>1, JobIs DEF Serial, SerialOK, JobOK, After
  <2>3. \A c \in Buckets : c # b => points'[c] = points[c]
    BY <2>1 DEF IInv, StoreOK
  <2> QED
    BY <2>1, <2>2, <2>3 DEF NewestOnly
<1>4. ASSUME NEW b \in Buckets, Job(b) PROVE NewestOnly
  <2>1. ASSUME ~StoreRow(b), ~StorePoint(b) PROVE versions' = versions /\ points' = points
    BY <1>4, <2>1 DEF Job, Take, Acquire, SkipLocked, CheckBucket, CheckVersion, Build, Summarise,
          PointsStored, UpdateSession, ReadForSummary, SaveSummary, Decrement, MarkProcessed, Release, stored
  <2> QED
    BY <1>1, <1>2, <1>3, <2>1
<1>5. ASSUME Turn \/ Fault \/ LockExpires \/ Expire \/ UNCHANGED vars
      PROVE  versions' = versions /\ points' = points
  <2>1. ASSUME Turn PROVE versions' = versions /\ points' = points
    BY <2>1 DEF Turn, BeginTurn, PersistTurn, ReadContext, WriteContext, CountTurn, ClaimBucket,
                Enqueue, stored
  <2>2. ASSUME Fault PROVE versions' = versions /\ points' = points
    BY <2>2 DEF Fault, TurnFails, TurnDies, SaveSummaryFails, ReleaseFails, JobRaises, JobTimesOut,
                WorkerDies, stored
  <2>3. ASSUME LockExpires \/ Expire \/ UNCHANGED vars PROVE versions' = versions /\ points' = points
    BY <2>3 DEF LockExpires, Expire, vars, stored
  <2> QED
    BY <1>5, <2>1, <2>2, <2>3
<1> QED
  BY <1>1, <1>4, <1>5 DEF Next

THEOREM VersionsInOrderAlways == Spec => [][NewestOnly]_vars
<1>1. IInv /\ Serial /\ [Next]_vars => [NewestOnly]_vars
  BY NewestStep
<1> QED
  BY <1>1, SerialInvariant, PTL DEF Spec

-----------------------------------------------------------------------------
(***************************************************************************)
(* The code as it stands: with its defects                                 *)
(***************************************************************************)

\* How far a job gets: not into a run while nobody polls the queue, and not past
\* the service that is built without an argument.
Reached == IF "queue" \in Defects THEN {"none", "queued"}
           ELSE {"none", "queued", "lock", "check", "version", "build", "release"} \cup Ended

Stuck == versions = {} /\ \A b \in Buckets : job[b].step \in Reached

LEMMA StuckStep ==
  ASSUME IInv, Stuck, NEW b \in Buckets, NEW r, job' = [job EXCEPT ![b] = r],
         r.step \in Reached, versions' = versions
  PROVE  Stuck'
<1> SUFFICES ASSUME NEW c \in Buckets PROVE job'[c].step \in Reached
  BY DEF Stuck
<1>1. job'[c] = job[c] \/ job'[c] = r
  BY DEF IInv, JobsOK
<1> QED
  BY <1>1 DEF Stuck

LEMMA StuckMoved ==
  ASSUME IInv, Stuck, NEW b \in Buckets, NEW step \in Reached, NEW out,
         \/ job' = [job EXCEPT ![b].step = step]
         \/ job' = [job EXCEPT ![b].step = step, ![b].out = out],
         versions' = versions
  PROVE  Stuck'
<1>1. job[b] \in Jobs
  BY JobIs
<1> DEFINE r == [job[b] EXCEPT !.step = step]
<1> DEFINE s == [job[b] EXCEPT !.step = step, !.out = out]
<1>2. r.step \in Reached /\ s.step \in Reached
  BY <1>1 DEF Jobs
<1>3. job' = [job EXCEPT ![b] = r] \/ job' = [job EXCEPT ![b] = s]
  OBVIOUS
<1> HIDE DEF r, s, Reached
<1> QED
  BY <1>2, <1>3, StuckStep

LEMMA StuckJob ==
  ASSUME "queue" \in Defects \/ "builder" \in Defects, IInv, Stuck, NEW b \in Buckets,
         \/ Job(b) \/ SaveSummaryFails(b) \/ ReleaseFails(b) \/ JobRaises(b) \/ JobTimesOut(b)
         \/ WorkerDies(b)
  PROVE  Stuck'
<1>1. job[b].step \in Reached
  BY DEF Stuck
<1>2. CASE "queue" \in Defects
  <2>1. job[b].step \in {"none", "queued"} /\ job[b].step \notin Running
    BY <1>1, <1>2, StepNames DEF Reached, Running
  <2> QED
    BY <1>2, <2>1, StepNames DEF Job, Take, Acquire, SkipLocked, CheckBucket, CheckVersion, Build,
          Summarise, StoreRow, StorePoint, PointsStored, UpdateSession, ReadForSummary, SaveSummary, Decrement,
          MarkProcessed, Release, SaveSummaryFails, ReleaseFails, JobRaises, JobTimesOut, WorkerDies, At
<1>3. CASE "queue" \notin Defects
  <2>0. Reached = {"none", "queued", "lock", "check", "version", "build", "release"} \cup Ended
    BY <1>3 DEF Reached
  <2>1. /\ job[b].step \notin {"summarise", "row"} \cup After
        /\ \A outcome : Verdict(b, outcome) \in Reached
    BY <1>1, <2>0, Verdicts DEF Ended, After
  <2>2. CASE Take(b)
    <3> DEFINE r == [job[b] EXCEPT !.step = "lock", !.try = @ + 1]
    <3>1. job' = [job EXCEPT ![b] = r] /\ versions' = versions
      BY <2>2 DEF Take, stored
    <3>2. r.step \in Reached
      BY <2>0, JobIs DEF Jobs
    <3> HIDE DEF r, Reached
    <3> QED
      BY <3>1, <3>2, StuckStep
  <2>3. CASE Acquire(b) \/ CheckBucket(b) \/ CheckVersion(b)
    <3>1. /\ versions' = versions
          /\ \/ \E step \in {"check", "version", "build"} : job' = [job EXCEPT ![b].step = step]
             \/ \E out : job' = [job EXCEPT ![b].step = "release", ![b].out = out]
      BY <2>3, FollowingIs DEF Acquire, CheckBucket, CheckVersion, Leave, Move, At, stored
    <3> QED
      BY <2>0, <3>1, StuckMoved
  <2>4. CASE SkipLocked(b) \/ Release(b) \/ ReleaseFails(b) \/ JobRaises(b) \/ JobTimesOut(b) \/ WorkerDies(b)
    <3>1. versions' = versions
      BY <2>4 DEF SkipLocked, Release, ReleaseFails, JobRaises, JobTimesOut, WorkerDies, stored
    <3>2. \/ \E step \in Reached : job' = [job EXCEPT ![b].step = step]
          \/ \E out : job' = [job EXCEPT ![b].step = "release", ![b].out = out]
      <4>1. "queued" \in Reached
        BY <2>0
      <4> HIDE DEF Verdict, Reached
      <4> QED
        BY <2>1, <2>4, <4>1 DEF SkipLocked, Release, ReleaseFails, JobRaises, JobTimesOut, WorkerDies,
                                JobFails, Leave
    <3> QED
      BY <2>0, <3>1, <3>2, StuckMoved
  <2>5. ~Build(b)
    BY <1>3 DEF Build
  <2>6. ~(\/ Summarise(b) \/ StoreRow(b) \/ StorePoint(b) \/ PointsStored(b) \/ UpdateSession(b)
          \/ ReadForSummary(b) \/ SaveSummary(b) \/ SaveSummaryFails(b) \/ Decrement(b) \/ MarkProcessed(b))
    BY <2>1 DEF Summarise, StoreRow, StorePoint, PointsStored, UpdateSession, ReadForSummary, SaveSummary,
                SaveSummaryFails, Decrement, MarkProcessed, At, After
  <2> QED
    BY <2>2, <2>3, <2>4, <2>5, <2>6 DEF Job
<1> QED
  BY <1>2, <1>3

LEMMA NextStuck ==
  ASSUME "queue" \in Defects \/ "builder" \in Defects, IInv, Stuck, [Next]_vars
  PROVE  Stuck'
<1>1. CASE Enqueue
  <2> DEFINE r == [NoJob EXCEPT !.step = "queued", !.messages = chat.new]
  <2>1. r.step = "queued" /\ "queued" \in Reached
    BY DEF NoJob, Reached
  <2>2. job' = [job EXCEPT ![TurnBucket] = r] /\ versions' = versions
    BY <1>1 DEF Enqueue, stored
  <2> HIDE DEF r, TurnBucket
  <2>3. ASSUME NEW c \in Buckets PROVE job'[c].step \in Reached
    <3>1. job'[c] = job[c] \/ job'[c] = r
      BY <2>2 DEF IInv, JobsOK
    <3> QED
      BY <2>1, <3>1 DEF Stuck
  <2> QED
    BY <2>2, <2>3 DEF Stuck
<1>2. CASE \/ BeginTurn \/ PersistTurn \/ ReadContext \/ WriteContext \/ CountTurn \/ ClaimBucket
           \/ TurnFails \/ TurnDies \/ LockExpires \/ Expire \/ UNCHANGED vars
  <2>1. job' = job /\ versions' = versions
    BY <1>2 DEF BeginTurn, PersistTurn, ReadContext, WriteContext, CountTurn, ClaimBucket,
                TurnFails, TurnDies, LockExpires, Expire, vars, stored
  <2> QED
    BY <2>1 DEF Stuck
<1>3. CASE \E b \in Buckets : \/ Job(b) \/ SaveSummaryFails(b) \/ ReleaseFails(b) \/ JobRaises(b)
                              \/ JobTimesOut(b) \/ WorkerDies(b)
  BY <1>3, StuckJob
<1> QED
  BY <1>1, <1>2, <1>3 DEF Next, Turn, Fault

\* Either of two defects is enough: as the code stands, with both, it stores no
\* summary, no key point and no mark of a bucket, however many turns a session has,
\* and session row and context refer to none.
NothingSummarised ==
  /\ versions = {} /\ current = 0 /\ context = 0
  /\ \A b \in Buckets : points[b] = 0 /\ bucket[b] # "processed"

THEOREM NothingSummarisedAsShipped ==
  ASSUME "queue" \in Defects \/ "builder" \in Defects
  PROVE  Spec => []NothingSummarised
<1>1. Init => IInv /\ Stuck
  <2>1. Init => Stuck
    BY NoJobOK DEF Init, Stuck, Reached
  <2> QED
    BY <2>1, InitInv
<1>2. IInv /\ Stuck /\ [Next]_vars => (IInv /\ Stuck)'
  BY NextInv, NextStuck
<1>3. IInv /\ Stuck => NothingSummarised
  <2> SUFFICES ASSUME IInv, Stuck PROVE NothingSummarised
    OBVIOUS
  <2>1. versions = {} /\ current = 0 /\ context = 0
    BY DEF IInv, Stuck
  <2>2. ASSUME NEW b \in Buckets PROVE points[b] = 0 /\ bucket[b] # "processed"
    <3>1. points[b] \in Nat /\ ~(points[b] > 0)
      BY <2>1 DEF IInv, StoreOK, KeyPointsStoredOnce
    <3>2. bucket[b] # "processed"
      BY <2>1 DEF IInv, Marks
    <3> QED
      BY <3>1, <3>2
  <2> QED
    BY <2>1, <2>2 DEF NothingSummarised
<1> QED
  BY <1>1, <1>2, <1>3, PTL DEF Spec
=============================================================================
