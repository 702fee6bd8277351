---------------------------- MODULE Summarization ----------------------------
(***************************************************************************)
(* The summaries of one session: persist_interaction counts turns and      *)
(* enqueues a job per bucket of messages, arq runs the job, and            *)
(* run_summarization_job writes a version of the summary, its key points,  *)
(* the session row and the cached context.  A step is the code up to the   *)
(* next await; any call may raise, a job may run into its timeout, a       *)
(* process may die between two steps, and Redis keys expire.               *)
(***************************************************************************)
EXTENDS Integers, Sequences, FiniteSets, SequencesExt

CONSTANTS
  NULL,
  Every,        \* turns per bucket; 10 in the code
  MaxMessages,  \* turns that are sent
  MaxTry,       \* ARQ_MAX_RETRIES
  MaxPoints,    \* key points of a summary
  MaxFault,     \* calls that raise and jobs that time out
  MaxCrash,     \* processes that die
  MaxLapse,     \* keys that expire
  MaxTrouble,   \* the three together
  Defects       \* which faults of the code are not repaired; all, as it stands

\* No worker polls the queue the API fills; the session service is built without
\* one of its arguments; the worker's logger is not defined; the summarizer takes
\* a response for a string.
ASSUME DefectsAssumption == Defects \subseteq {"queue", "builder", "logger", "summarizer"}
ASSUME BoundsAssumption ==
  /\ Every \in Nat \ {0} /\ MaxTry \in Nat \ {0}
  /\ {MaxMessages, MaxPoints, MaxFault, MaxCrash, MaxLapse, MaxTrouble} \subseteq Nat

Buckets == 1..(MaxMessages \div Every)
ASSUME NullAssumption == NULL \notin Buckets

VARIABLES
  sent,      \* turns in the database
  chat,      \* the turn that is being persisted: its step, the current_summary it read
             \* at its start, its copy of the context, its count
  count,     \* chat:session:{id}:count
  bucket,    \* processed_summary_bucket:{id}:{b}
  job,       \* the job of each bucket: its step, job_try, message_count, key points still to be
             \* stored, and how it leaves the try block
  lock,      \* lock:summary:{id}, by the bucket of the job that holds it
  versions,  \* the rows of conv_summaries, by version
  points,    \* key points in session_memory, by the bucket they come from
  current,   \* sessions.current_summary, by version; 0 is none
  context,   \* the summary in the cached context, by version; 0 is none
  faults, crashes, lapses  \* how often a call has raised, a process died, a key expired

vars == <<sent, chat, count, bucket, job, lock, versions, points, current, context,
          faults, crashes, lapses>>
stored == <<versions, points, current>>
budgets == <<faults, crashes, lapses>>

\* Mutant of Steps: key points are stored before the version they belong to.
StepsPointsFirst == <<"check", "version", "build", "summarise", "points", "row", "session",
                      "context", "save", "decrement", "mark">>

\* Mutant of Steps: the cached context is written before the database.
StepsContextFirst == <<"check", "version", "build", "summarise", "context", "save", "row",
                       "points", "session", "decrement", "mark">>

\* What the job does once it has the lock, in this order.
Steps == <<"check", "version", "build", "summarise", "row", "points", "session",
           "context", "save", "decrement", "mark">>

Inside == ToSet(Steps)
Following(step) == Steps[SelectInSeq(Steps, LAMBDA s : s = step) + 1]
Outcomes == {"done", "raised", "cancelled"}
Running == Inside \cup {"lock", "release"}
Ended == {"done", "failed"}

NoTurn == [step |-> "idle", old |-> 0, seen |-> 0, new |-> 0]
NoJob == [step |-> "none", try |-> 0, messages |-> 0, todo |-> 0, out |-> "done"]

TypeOK ==
  /\ sent \in 0..MaxMessages
  /\ chat \in [step : {"idle", "persist", "context", "write", "count", "bucket", "enqueue"},
               old : Buckets \cup {0}, seen : Buckets \cup {0}, new : Int]
  /\ count \in Int
  /\ bucket \in [Buckets -> {"absent", "enqueued", "processed"}]
  /\ job \in [Buckets -> [step : Running \cup Ended \cup {"none", "queued"},
                          try : 0..(MaxTry + MaxCrash), messages : Nat, todo : 0..MaxPoints,
                          out : Outcomes]]
  /\ lock \in Buckets \cup {NULL}
  /\ versions \subseteq Buckets
  /\ points \in [Buckets -> Nat]
  /\ {current, context} \subseteq Buckets \cup {0}
  /\ faults \in 0..MaxFault /\ crashes \in 0..MaxCrash /\ lapses \in 0..MaxLapse

Init ==
  /\ sent = 0 /\ chat = NoTurn /\ count = 0 /\ lock = NULL
  /\ bucket = [b \in Buckets |-> "absent"] /\ job = [b \in Buckets |-> NoJob]
  /\ versions = {} /\ points = [b \in Buckets |-> 0]
  /\ current = 0 /\ context = 0
  /\ faults = 0 /\ crashes = 0 /\ lapses = 0

Room == faults + crashes + lapses < MaxTrouble

\* One more call raises.
Spend == faults < MaxFault /\ Room /\ faults' = faults + 1

-----------------------------------------------------------------------------
(***************************************************************************)
(* Persisting a turn; the session lock admits one turn at a time           *)
(***************************************************************************)

\* The request reads the session row, whose current_summary _persist will write back.
BeginTurn ==
  /\ chat.step = "idle" /\ sent < MaxMessages
  /\ chat' = [NoTurn EXCEPT !.step = "persist", !.old = current]
  /\ UNCHANGED <<sent, count, bucket, job, lock, stored, context, budgets>>

PersistTurn ==
  /\ chat.step = "persist"
  /\ sent' = sent + 1 /\ current' = chat.old
  /\ chat' = [chat EXCEPT !.step = "context"]
  /\ UNCHANGED <<count, bucket, job, lock, versions, points, context, budgets>>

\* The intent is written into a copy of the context, and the copy back.
ReadContext ==
  /\ chat.step = "context"
  /\ chat' = [chat EXCEPT !.step = "write", !.seen = context]
  /\ UNCHANGED <<sent, count, bucket, job, lock, stored, context, budgets>>

WriteContext ==
  /\ chat.step = "write"
  /\ context' = chat.seen
  /\ chat' = [chat EXCEPT !.step = "count"]
  /\ UNCHANGED <<sent, count, bucket, job, lock, stored, budgets>>

CountTurn ==
  /\ chat.step = "count"
  /\ count' = count + 1
  /\ chat' = IF count' \div Every > 0 THEN [chat EXCEPT !.step = "bucket", !.new = count'] ELSE NoTurn
  /\ UNCHANGED <<sent, bucket, job, lock, stored, context, budgets>>

TurnBucket == chat.new \div Every

\* SET NX: the first turn of a bucket enqueues its job.
ClaimBucket ==
  /\ chat.step = "bucket"
  /\ IF bucket[TurnBucket] = "absent"
     THEN /\ bucket' = [bucket EXCEPT ![TurnBucket] = "enqueued"]
          /\ chat' = [chat EXCEPT !.step = "enqueue"]
     ELSE chat' = NoTurn /\ UNCHANGED bucket
  /\ UNCHANGED <<sent, count, job, lock, stored, context, budgets>>

Enqueue ==
  /\ chat.step = "enqueue"
  /\ job' = [job EXCEPT ![TurnBucket] = [NoJob EXCEPT !.step = "queued", !.messages = chat.new]]
  /\ chat' = NoTurn
  /\ UNCHANGED <<sent, count, bucket, lock, stored, context, budgets>>

\* A call raises. Without the rows the rest is skipped; the context is given up; a
\* counter or a bucket may have been written all the same, and no job follows.
TurnFails ==
  /\ Spend
  /\ \/ /\ chat.step \in {"persist", "enqueue"}
        /\ chat' = NoTurn /\ UNCHANGED <<count, bucket>>
     \/ /\ chat.step \in {"context", "write"}
        /\ chat' = [chat EXCEPT !.step = "count"] /\ UNCHANGED <<count, bucket>>
     \/ /\ chat.step = "count"
        /\ chat' = NoTurn /\ count' \in {count, count + 1} /\ UNCHANGED bucket
     \/ /\ chat.step = "bucket" /\ bucket[TurnBucket] = "absent"
        /\ chat' = NoTurn /\ bucket' = [bucket EXCEPT ![TurnBucket] = "enqueued"] /\ UNCHANGED count
  /\ UNCHANGED <<sent, job, lock, stored, context, crashes, lapses>>

TurnDies ==
  /\ chat.step # "idle" /\ crashes < MaxCrash /\ Room
  /\ crashes' = crashes + 1 /\ chat' = NoTurn
  /\ UNCHANGED <<sent, count, bucket, job, lock, stored, context, faults, lapses>>

-----------------------------------------------------------------------------
(***************************************************************************)
(* The job                                                                 *)
(***************************************************************************)
At(b, step) == job[b].step = step
Move(b) == job' = [job EXCEPT ![b].step = Following(@)]
Leave(b, outcome) == job' = [job EXCEPT ![b].step = "release", ![b].out = outcome]

\* A path that logs raises where the logger is missing.
Logged == IF "logger" \in Defects THEN "raised" ELSE "done"

\* Mutant of Verdict: one retry too many.
VerdictOnceMore(b, outcome) ==
  CASE outcome = "done"      -> "done"
    [] outcome = "cancelled" -> "failed"
    [] OTHER                 -> IF job[b].try <= MaxTry THEN "queued" ELSE "failed"

\* summarize_session_job: an exception is retried up to MaxTry, a timeout is not.
Verdict(b, outcome) ==
  CASE outcome = "done"      -> "done"
    [] outcome = "cancelled" -> "failed"
    [] OTHER                 -> IF job[b].try < MaxTry THEN "queued" ELSE "failed"

\* arq runs a job once at a time: the in-progress key of a dead run outlives its lock.
Take(b) ==
  /\ At(b, "queued") /\ "queue" \notin Defects /\ lock # b
  /\ job' = [job EXCEPT ![b].step = "lock", ![b].try = @ + 1]
  /\ UNCHANGED <<sent, chat, count, bucket, lock, stored, context, budgets>>

Acquire(b) ==
  /\ At(b, "lock") /\ lock = NULL
  /\ lock' = b
  /\ job' = [job EXCEPT ![b].step = "check"]
  /\ UNCHANGED <<sent, chat, count, bucket, stored, context, budgets>>

\* Another bucket of the session is being summarised: this one is given up.
SkipLocked(b) ==
  /\ At(b, "lock") /\ lock # NULL
  /\ job' = [job EXCEPT ![b].step = Verdict(b, Logged)]
  /\ UNCHANGED <<sent, chat, count, bucket, lock, stored, context, budgets>>

CheckBucket(b) ==
  /\ At(b, "check")
  /\ IF bucket[b] = "processed" THEN Leave(b, Logged) ELSE Move(b)
  /\ UNCHANGED <<sent, chat, count, bucket, lock, stored, context, budgets>>

\* The idempotency guard of the database: a version at least as new is there.
CheckVersion(b) ==
  /\ At(b, "version")
  /\ IF \E v \in versions : v >= b
     THEN /\ Leave(b, Logged)
          /\ bucket' = IF Logged = "done" THEN [bucket EXCEPT ![b] = "processed"] ELSE bucket
     ELSE Move(b) /\ UNCHANGED bucket
  /\ UNCHANGED <<sent, chat, count, lock, stored, context, budgets>>

\* Services and history; a session with a job has messages.
Build(b) ==
  /\ At(b, "build") /\ "builder" \notin Defects
  /\ Move(b)
  /\ UNCHANGED <<sent, chat, count, bucket, lock, stored, context, budgets>>

\* The model's summary, or the fallback, which has no key points.
Summarise(b) ==
  /\ At(b, "summarise")
  /\ \E n \in 0..(IF "summarizer" \in Defects THEN 0 ELSE MaxPoints) :
       job' = [job EXCEPT ![b].step = Following(@), ![b].todo = n]
  /\ UNCHANGED <<sent, chat, count, bucket, lock, stored, context, budgets>>

StoreRow(b) ==
  /\ At(b, "row") /\ b \notin versions
  /\ versions' = versions \cup {b}
  /\ Move(b)
  /\ UNCHANGED <<sent, chat, count, bucket, lock, points, current, context, budgets>>

\* Each key point is committed by itself.
StorePoint(b) ==
  /\ At(b, "points") /\ job[b].todo > 0
  /\ points' = [points EXCEPT ![b] = @ + 1]
  /\ job' = [job EXCEPT ![b].todo = @ - 1]
  /\ UNCHANGED <<sent, chat, count, bucket, lock, versions, current, context, budgets>>

PointsStored(b) ==
  /\ At(b, "points") /\ job[b].todo = 0
  /\ Move(b)
  /\ UNCHANGED <<sent, chat, count, bucket, lock, stored, context, budgets>>

UpdateSession(b) ==
  /\ At(b, "session")
  /\ current' = b
  /\ Move(b)
  /\ UNCHANGED <<sent, chat, count, bucket, lock, versions, points, context, budgets>>

\* save_summary writes the summary into a copy of the context, and the copy back: a
\* turn may read or write the context in between.  Of the copy only the summary is
\* modelled, and that is replaced.
ReadForSummary(b) ==
  /\ At(b, "context")
  /\ Move(b)
  /\ UNCHANGED <<sent, chat, count, bucket, lock, stored, context, budgets>>

SaveSummary(b) ==
  /\ At(b, "save")
  /\ context' = b
  /\ Move(b)
  /\ UNCHANGED <<sent, chat, count, bucket, lock, stored, budgets>>

\* What either call raises is swallowed.
SaveSummaryFails(b) ==
  /\ At(b, "context") \/ At(b, "save")
  /\ Spend
  /\ job' = [job EXCEPT ![b].step = Following("save")]
  /\ UNCHANGED <<sent, chat, count, bucket, lock, stored, context, crashes, lapses>>

\* Only what was counted when the job was enqueued is taken off.
Decrement(b) ==
  /\ At(b, "decrement")
  /\ count' = count - job[b].messages
  /\ Move(b)
  /\ UNCHANGED <<sent, chat, bucket, lock, stored, context, budgets>>

MarkProcessed(b) ==
  /\ At(b, "mark")
  /\ bucket' = [bucket EXCEPT ![b] = "processed"]
  /\ Leave(b, Logged)
  /\ UNCHANGED <<sent, chat, count, lock, stored, context, budgets>>

\* The finally block; the script frees the lock of this job only.
Release(b) ==
  /\ At(b, "release")
  /\ lock' = IF lock = b THEN NULL ELSE lock
  /\ job' = [job EXCEPT ![b].step = Verdict(b, job[b].out)]
  /\ UNCHANGED <<sent, chat, count, bucket, stored, context, budgets>>

ReleaseFails(b) ==
  /\ At(b, "release") /\ Spend
  /\ job' = [job EXCEPT ![b].step = Verdict(b, IF job[b].out = "cancelled" THEN "cancelled" ELSE "raised")]
  /\ UNCHANGED <<sent, chat, count, bucket, lock, stored, context, crashes, lapses>>

\* Where the code always raises: the missing argument, and a version that is there.
Broken(b) == \/ At(b, "build") /\ "builder" \in Defects
             \/ At(b, "row") /\ b \in versions

\* A call raises, or the job's time is up.
JobFails(b, outcome) ==
  IF At(b, "lock") THEN job' = [job EXCEPT ![b].step = Verdict(b, outcome)] ELSE Leave(b, outcome)

JobRaises(b) ==
  /\ job[b].step \in Inside \cup {"lock"}
  /\ IF Broken(b) THEN UNCHANGED faults ELSE Spend
  /\ JobFails(b, "raised")
  /\ UNCHANGED <<sent, chat, count, bucket, lock, stored, context, crashes, lapses>>

JobTimesOut(b) ==
  /\ job[b].step \in Inside \cup {"lock"} /\ Spend
  /\ JobFails(b, "cancelled")
  /\ UNCHANGED <<sent, chat, count, bucket, lock, stored, context, crashes, lapses>>

\* The worker dies; arq runs the job again.
WorkerDies(b) ==
  /\ job[b].step \in Running /\ crashes < MaxCrash /\ Room
  /\ crashes' = crashes + 1
  /\ job' = [job EXCEPT ![b].step = "queued"]
  /\ UNCHANGED <<sent, chat, count, bucket, lock, stored, context, faults, lapses>>

-----------------------------------------------------------------------------
(***************************************************************************)
(* Expiry                                                                  *)
(***************************************************************************)

\* Mutant of LockExpires: the lock outlives a dead run until its job has ended.
LockExpiresLate ==
  /\ lock # NULL /\ job[lock].step \in Ended
  /\ lock' = NULL
  /\ UNCHANGED <<sent, chat, count, bucket, job, stored, context, budgets>>

\* The lock lives as long as a job may run: it only expires on a run that is over.
LockExpires ==
  /\ lock # NULL /\ job[lock].step \notin Inside \cup {"release"}
  /\ lock' = NULL
  /\ UNCHANGED <<sent, chat, count, bucket, job, stored, context, budgets>>

\* The counter after a day without turns, context and bucket after a week: no call
\* is in flight then, and a bucket's job has ended.
Expire ==
  /\ chat.step = "idle" /\ (\A b \in Buckets : job[b].step \notin Running)
  /\ lapses < MaxLapse /\ Room /\ lapses' = lapses + 1
  /\ \/ count' = 0 /\ UNCHANGED <<bucket, context>>
     \/ context' = 0 /\ UNCHANGED <<bucket, count>>
     \/ \E b \in Buckets : /\ job[b].step # "queued"
                           /\ bucket' = [bucket EXCEPT ![b] = "absent"]
                           /\ UNCHANGED <<count, context>>
  /\ UNCHANGED <<sent, chat, job, lock, stored, faults, crashes>>

-----------------------------------------------------------------------------
Turn == BeginTurn \/ PersistTurn \/ ReadContext \/ WriteContext \/ CountTurn \/ ClaimBucket \/ Enqueue

Job(b) ==
  \/ Take(b) \/ Acquire(b) \/ SkipLocked(b) \/ CheckBucket(b) \/ CheckVersion(b) \/ Build(b)
  \/ Summarise(b) \/ StoreRow(b) \/ StorePoint(b) \/ PointsStored(b) \/ UpdateSession(b)
  \/ ReadForSummary(b) \/ SaveSummary(b) \/ Decrement(b) \/ MarkProcessed(b) \/ Release(b)

Fault == TurnFails \/ TurnDies \/ \E b \in Buckets :
           SaveSummaryFails(b) \/ ReleaseFails(b) \/ JobRaises(b) \/ JobTimesOut(b) \/ WorkerDies(b)

Next == Turn \/ (\E b \in Buckets : Job(b)) \/ Fault \/ LockExpires \/ Expire

Spec == Init /\ [][Next]_vars

\* A worker that lives takes what is queued and every call of a job returns or raises;
\* Redis expires what has a TTL.
FairSpec ==
  /\ Spec /\ WF_vars(LockExpires)
  /\ \A b \in Buckets : WF_vars(Job(b)) /\ WF_vars(JobRaises(b) /\ Broken(b))
-----------------------------------------------------------------------------
(***************************************************************************)
(* Properties                                                              *)
(***************************************************************************)

\* However often a job is retried, rerun after a crash or enqueued again once its
\* bucket's key has expired, its key points are stored once, and with a version.
KeyPointsStoredOnce ==
  \A b \in Buckets : points[b] <= MaxPoints /\ (points[b] > 0 => b \in versions)

\* Whatever refers to a summary refers to one the database holds: the session row,
\* the cached context, and the mark that keeps a bucket from being summarised again.
SummaryIsStored ==
  /\ {current, context} \ {0} \subseteq versions
  /\ \A b \in Buckets : bucket[b] = "processed" => \E v \in versions : v >= b

\* Once the session is quiet, every job that was enqueued has ended, also when a
\* worker died with the lock.
EveryJobEnds == <>[](\A b \in Buckets : job[b].step \in Ended \cup {"none"})
=============================================================================
