---------------------------- MODULE ChatPipeline ----------------------------
(***************************************************************************)
(* POST /chat/message: ChatApplicationService.execute, the background      *)
(* tasks it schedules, and what they share: the Redis session lock, the    *)
(* Redis idempotency results, the sessions table and the messages table.   *)
(*                                                                         *)
(* A request is a process.  Its steps are the code between two awaits that *)
(* touch shared state, so two requests interleave exactly where the event  *)
(* loops of the workers may interleave them.  The environment may expire a *)
(* lock, make a call to Redis or PostgreSQL raise, and kill a worker.      *)
(***************************************************************************)
EXTENDS Naturals, Sequences, FiniteSets

CONSTANTS
  Req,             \* HTTP requests, each sent at most once
  User,            \* user ids, always taken from the token
  Session,         \* session ids
  IdemKey,         \* values of the X-Idempotency-Key header
  NULL,
  NewChats,        \* may a client omit session_id?
  ResponseEncodes, \* does json.dumps accept response.model_dump()?  It holds
                   \* a uuid.UUID, so FALSE is the code as it stands
  MaxSlow,         \* locks that may expire under a live holder
  MaxFault,        \* calls to Redis or PostgreSQL that may raise
  MaxCrash         \* workers that may die

ASSUME ConstantsAssumption ==
  /\ NewChats \in BOOLEAN /\ ResponseEncodes \in BOOLEAN
  /\ MaxSlow \in Nat /\ MaxFault \in Nat /\ MaxCrash \in Nat

\* The distinguished value names no request, session, user, key or outcome, and the
\* two kinds of uuid a lock key is made of do not collide.
ASSUME NullAssumption ==
  /\ NULL \notin Req \cup User \cup Session \cup IdemKey
  /\ NULL \notin {"ok", "fallback", "cached", "refused", "error"}
  /\ User \cap Session = {}

VARIABLES
  msg,       \* msg[r]: the request's user, session_id, key and kind
  pc,        \* pc[r]: the next step of the request
  sid,       \* sid[r]: ctx.session_id / the pre-generated session_id
  result,    \* result[r]: what execute returns or raises
  answered,  \* the requests whose HTTP response has been sent
  seen,      \* seen[r]: the requests answered when r was sent (history)
  lock,      \* lock[k]: request whose token is stored under the lock key
  idem,      \* idem[k]: request whose response is stored under idem:{k}
  rows,      \* rows[s]: owner of the row of s in the sessions table
  turns,     \* turns[s]: the committed user/assistant pairs of s, in order
  slow, faults, crashes  \* how often the environment has interfered

state == <<msg, pc, sid, result, answered, seen>>
redis == <<lock, idem>>
db == <<rows, turns>>
env == <<slow, faults, crashes>>
vars == <<state, redis, db, env>>

Message == [user : User, session : Session \cup {NULL},
            key : IdemKey \cup {NULL}, greeting : BOOLEAN]
\* A user message and its assistant message: the reply, or the fallback text.
Turn == [req : Req, status : {"answered", "failed"}]
LockKey == Session \cup User

\* Steps of a request that runs while it believes it owns the session lock.
Held == {"idempotency", "save_first", "resolve", "create", "load", "generate",
         "fallback", "persist", "memory", "save_last", "release", "unlock"}
Steps == Held \cup {"unsent", "start", "done", "dead"}
Results == {"ok", "fallback", "cached", "refused", "error", NULL}

\* Mutant of KeyOf: one lock per user, not per session.
KeyOfUser(r) == msg[r].user

\* session_key = str(api_request.session_id or ctx.user_id), fixed on arrival.
KeyOf(r) == IF msg[r].session = NULL THEN msg[r].user ELSE msg[r].session

Holding(r) == pc[r] \in Held
Goto(r, step) == pc' = [pc EXCEPT ![r] = step]
Return(r, res) == result' = [result EXCEPT ![r] = res]
Answer(r) == answered' = answered \cup {r}

\* A background task is running: the response has left, the lock moved with it.
InBackground(r) == r \in answered

\* uuid4 never repeats: a fresh id is one no message, row or request has used.
FreshSessions ==
  {s \in Session : /\ rows[s] = NULL
                   /\ \A r \in Req : sid[r] # s /\ (pc[r] # "unsent" => msg[r].session # s)}

\* A client can name its own uuids, those a response has told it, and those its
\* list of sessions shows.
SecretSessions ==
  {s \in Session : /\ rows[s] = NULL
                   /\ \E r \in Req : /\ pc[r] # "unsent" /\ msg[r].session = NULL
                                     /\ sid[r] = s /\ r \notin answered}

TypeOK ==
  /\ msg \in [Req -> Message \cup {NULL}]
  /\ pc \in [Req -> Steps]
  /\ sid \in [Req -> Session \cup {NULL}]
  /\ result \in [Req -> Results]
  /\ answered \in SUBSET Req
  /\ seen \in [Req -> SUBSET Req]
  /\ lock \in [LockKey -> Req \cup {NULL}]
  /\ idem \in [IdemKey -> Req \cup {NULL}]
  /\ rows \in [Session -> User \cup {NULL}]
  /\ turns \in [Session -> Seq(Turn)]
  /\ slow \in 0..MaxSlow /\ faults \in 0..MaxFault /\ crashes \in 0..MaxCrash

Init ==
  /\ msg = [r \in Req |-> NULL]
  /\ pc = [r \in Req |-> "unsent"]
  /\ sid = [r \in Req |-> NULL]
  /\ result = [r \in Req |-> NULL]
  /\ answered = {}
  /\ seen = [r \in Req |-> {}]
  /\ lock = [k \in LockKey |-> NULL]
  /\ idem = [k \in IdemKey |-> NULL]
  /\ rows = [s \in Session |-> NULL]
  /\ turns = [s \in Session |-> <<>>]
  /\ slow = 0 /\ faults = 0 /\ crashes = 0
-----------------------------------------------------------------------------
(***************************************************************************)
(* Arrival and admission                                                   *)
(***************************************************************************)

\* A client posts a message; it has seen every response sent so far.
Send(r) ==
  /\ pc[r] = "unsent"
  /\ \E m \in Message :
       /\ m.session = NULL => NewChats
       /\ m.session \notin SecretSessions
       /\ msg' = [msg EXCEPT ![r] = m]
  /\ seen' = [seen EXCEPT ![r] = answered]
  /\ Goto(r, "start")
  /\ UNCHANGED <<sid, result, answered, redis, db, env>>

\* The request leaves without having taken the lock: 503 while the circuit is
\* open and no probe is allowed, 429 while the session lock is taken.
Refuse(r) ==
  /\ Return(r, "refused") /\ Answer(r) /\ Goto(r, "done")
  /\ UNCHANGED <<msg, sid, seen, redis, db, env>>

RefuseCircuitOpen(r) == pc[r] = "start" /\ Refuse(r)

RefuseBusy(r) == pc[r] = "start" /\ lock[KeyOf(r)] # NULL /\ Refuse(r)

\* Mutant of AcquireLock: SET without NX.
AcquireLockOverwriting(r) ==
  /\ pc[r] = "start"
  /\ lock' = [lock EXCEPT ![KeyOf(r)] = r]
  /\ Goto(r, "idempotency")
  /\ UNCHANGED <<msg, sid, result, answered, seen, idem, db, env>>

\* Mutant of AcquireLock: the key is stored in place of the token.
AcquireLockNoToken(r) ==
  /\ pc[r] = "start"
  /\ lock[KeyOf(r)] = NULL
  /\ lock' = [lock EXCEPT ![KeyOf(r)] = KeyOf(r)]
  /\ Goto(r, "idempotency")
  /\ UNCHANGED <<msg, sid, result, answered, seen, idem, db, env>>

\* SET key token NX EX 75.
AcquireLock(r) ==
  /\ pc[r] = "start"
  /\ lock[KeyOf(r)] = NULL
  /\ lock' = [lock EXCEPT ![KeyOf(r)] = r]
  /\ Goto(r, "idempotency")
  /\ UNCHANGED <<msg, sid, result, answered, seen, idem, db, env>>

\* The SET raises: nothing was written, or only its answer was lost.
AcquireFails(r) ==
  /\ pc[r] = "start" /\ faults < MaxFault
  /\ faults' = faults + 1
  /\ \/ UNCHANGED lock
     \/ lock[KeyOf(r)] = NULL /\ lock' = [lock EXCEPT ![KeyOf(r)] = r]
  /\ Return(r, "error") /\ Answer(r) /\ Goto(r, "done")
  /\ UNCHANGED <<msg, sid, seen, idem, db, slow, crashes>>

(***************************************************************************)
(* Idempotency check and zero-context fast path                            *)
(***************************************************************************)
Cached(r) == IF msg[r].key = NULL THEN NULL ELSE idem[msg[r].key]

\* Mutant of IdempotencyHit: the background task is scheduled before the lookup.
IdempotencyHitPersisting(r) ==
  /\ pc[r] = "idempotency"
  /\ Cached(r) # NULL /\ msg[r].session # NULL
  /\ sid' = [sid EXCEPT ![r] = msg[r].session]
  /\ Return(r, "cached") /\ Goto(r, "persist")
  /\ UNCHANGED <<msg, answered, seen, redis, db, env>>

IdempotencyHit(r) ==
  /\ pc[r] = "idempotency"
  /\ Cached(r) # NULL
  /\ Return(r, "cached") /\ Goto(r, "release")
  /\ UNCHANGED <<msg, sid, answered, seen, redis, db, env>>

\* Mutant of FastPath: release_lock stays True, so the lock is released as the
\* response leaves.
FastPathReleases(r) ==
  /\ pc[r] = "idempotency"
  /\ Cached(r) = NULL /\ msg[r].greeting /\ msg[r].key = NULL
  /\ \E s \in IF msg[r].session = NULL THEN FreshSessions ELSE {msg[r].session} :
       sid' = [sid EXCEPT ![r] = s]
  /\ lock' = [lock EXCEPT ![KeyOf(r)] = NULL]
  /\ Return(r, "ok") /\ Answer(r) /\ Goto(r, "resolve")
  /\ UNCHANGED <<msg, seen, idem, db, env>>

\* FastPathRouter.match hits: the background task is scheduled, the lock moves
\* to it, and a new chat gets its session id now.  Without a key the response
\* leaves at once; with one it is saved first.
FastPath(r) ==
  /\ pc[r] = "idempotency"
  /\ Cached(r) = NULL /\ msg[r].greeting
  /\ \E s \in IF msg[r].session = NULL THEN FreshSessions ELSE {msg[r].session} :
       sid' = [sid EXCEPT ![r] = s]
  /\ IF msg[r].key = NULL
     THEN Return(r, "ok") /\ Answer(r) /\ Goto(r, "resolve")
     ELSE Goto(r, "save_first") /\ UNCHANGED <<result, answered>>
  /\ UNCHANGED <<msg, seen, redis, db, env>>

NormalPath(r) ==
  /\ pc[r] = "idempotency"
  /\ Cached(r) = NULL /\ ~msg[r].greeting
  /\ Goto(r, "resolve")
  /\ UNCHANGED <<msg, sid, result, answered, seen, redis, db, env>>

\* The response is cached before it is sent.
SaveFirst(r) ==
  /\ pc[r] = "save_first" /\ ResponseEncodes
  /\ idem' = [idem EXCEPT ![msg[r].key] = r]
  /\ Return(r, "ok") /\ Answer(r) /\ Goto(r, "resolve")
  /\ UNCHANGED <<msg, sid, seen, lock, db, env>>

\* Mutant of SaveFirstFails: no manual release.
SaveFirstFailsLeaking(r) ==
  /\ pc[r] = "save_first" /\ ~ResponseEncodes
  /\ Return(r, "error") /\ Answer(r) /\ Goto(r, "done")
  /\ UNCHANGED <<msg, sid, seen, redis, db, env>>

\* Saving raised: the lock is released by hand and the exception becomes a 500,
\* so the scheduled background task never runs.
SaveFirstFails(r) ==
  /\ pc[r] = "save_first"
  /\ \/ ~ResponseEncodes /\ UNCHANGED <<idem, faults>>
     \/ /\ ResponseEncodes /\ faults < MaxFault
        /\ faults' = faults + 1
        /\ idem' \in {idem, [idem EXCEPT ![msg[r].key] = r]}
  /\ Return(r, "error") /\ Goto(r, "release")
  /\ UNCHANGED <<msg, sid, answered, seen, lock, db, slow, crashes>>

(***************************************************************************)
(* Session resolution, memory and generation                               *)
(***************************************************************************)

\* An exception: 500 (or 404) on the request path; swallowed in the fast path's
\* background task.  The lock is released either way.
Abort(r) ==
  /\ IF InBackground(r) THEN UNCHANGED result ELSE Return(r, "error")
  /\ Goto(r, "release")

\* After the session is known: the normal path loads memory, the fast path's
\* background task persists.
Resolved(r) == Goto(r, IF InBackground(r) THEN "persist" ELSE "load")

\* Mutant of ResolveExisting: the session is looked up by its id alone.
ResolveAnyOwner(r) ==
  /\ pc[r] = "resolve"
  /\ LET s == IF sid[r] = NULL THEN msg[r].session ELSE sid[r] IN
       /\ s # NULL
       /\ sid' = [sid EXCEPT ![r] = s]
       /\ IF rows[s] = NULL THEN Goto(r, "create") ELSE Resolved(r)
  /\ UNCHANGED <<msg, result, answered, seen, redis, db, env>>

\* sync_profile, then get_or_create_session reads the session context or row.
ResolveExisting(r) ==
  /\ pc[r] = "resolve"
  /\ LET s == IF sid[r] = NULL THEN msg[r].session ELSE sid[r] IN
       /\ s # NULL
       /\ sid' = [sid EXCEPT ![r] = s]
       /\ IF rows[s] = NULL THEN Goto(r, "create") /\ UNCHANGED result
          ELSE IF rows[s] = msg[r].user THEN Resolved(r) /\ UNCHANGED result
          ELSE Abort(r)
  /\ UNCHANGED <<msg, answered, seen, redis, db, env>>

\* No session_id on the normal path: the database row gets a fresh one.
ResolveNew(r) ==
  /\ pc[r] = "resolve" /\ sid[r] = NULL /\ msg[r].session = NULL
  /\ \E s \in FreshSessions : sid' = [sid EXCEPT ![r] = s]
  /\ Goto(r, "create")
  /\ UNCHANGED <<msg, result, answered, seen, redis, db, env>>

\* create_session inserts and commits; the primary key rejects an id that
\* another request has inserted since it was looked up.
CreateSession(r) ==
  /\ pc[r] = "create"
  /\ IF rows[sid[r]] = NULL
     THEN /\ rows' = [rows EXCEPT ![sid[r]] = msg[r].user]
          /\ Resolved(r) /\ UNCHANGED result
     ELSE Abort(r) /\ UNCHANGED rows
  /\ UNCHANGED <<msg, sid, answered, seen, redis, turns, env>>

\* get_conversation_context and count_tokens.
LoadMemory(r) ==
  /\ pc[r] = "load"
  /\ Goto(r, "generate")
  /\ UNCHANGED <<msg, sid, result, answered, seen, redis, db, env>>

\* One of the calls of these steps raises; an insert may have committed.
ContextFails(r) ==
  /\ pc[r] \in {"idempotency", "resolve", "create", "load"} /\ faults < MaxFault
  /\ faults' = faults + 1
  /\ pc[r] = "idempotency" => msg[r].key # NULL
  /\ \/ UNCHANGED rows
     \/ /\ pc[r] = "create" /\ rows[sid[r]] = NULL
        /\ rows' = [rows EXCEPT ![sid[r]] = msg[r].user]
  /\ Abort(r)
  /\ UNCHANGED <<msg, sid, answered, seen, redis, turns, slow, crashes>>

\* Mutant of GenerateSucceeds: release_lock stays True.
GenerateSucceedsReleasing(r) ==
  /\ pc[r] = "generate"
  /\ Return(r, "ok") /\ Answer(r) /\ Goto(r, "persist")
  /\ lock' = [lock EXCEPT ![KeyOf(r)] = NULL]
  /\ UNCHANGED <<msg, sid, seen, idem, db, env>>

\* domain.generate_response answers in time: the response leaves and the lock
\* moves to the background task.
GenerateSucceeds(r) ==
  /\ pc[r] = "generate"
  /\ Return(r, "ok") /\ Answer(r) /\ Goto(r, "persist")
  /\ UNCHANGED <<msg, sid, seen, redis, db, env>>

\* Mutant of GenerateFails: generation is retried without a bound.
GenerateFailsRetrying(r) ==
  /\ pc[r] = "generate"
  /\ Goto(r, "load")
  /\ UNCHANGED <<msg, sid, result, answered, seen, redis, db, env>>

\* It raises, or wait_for cancels it at AI_REQUEST_TIMEOUT.
GenerateFails(r) ==
  /\ pc[r] = "generate"
  /\ Goto(r, "fallback")
  /\ UNCHANGED <<msg, sid, result, answered, seen, redis, db, env>>

(***************************************************************************)
(* Persistence, release, and the environment                               *)
(***************************************************************************)

\* _persist commits the user message and the assistant message as one.
Record(r, status) ==
  turns' = [turns EXCEPT ![sid[r]] = Append(@, [req |-> r, status |-> status])]

\* The fallback is persisted inline and returned whether that worked or not.
PersistFallback(r) ==
  /\ pc[r] = "fallback"
  /\ \/ Record(r, "failed") /\ UNCHANGED faults
     \/ /\ faults < MaxFault /\ faults' = faults + 1
        /\ UNCHANGED turns \/ Record(r, "failed")
  /\ Return(r, "fallback") /\ Goto(r, "release")
  /\ UNCHANGED <<msg, sid, answered, seen, redis, rows, slow, crashes>>

\* Mutant of Persist: the commit is forgotten.
PersistNothing(r) ==
  /\ pc[r] = "persist"
  /\ Goto(r, "memory")
  /\ UNCHANGED <<msg, sid, result, answered, seen, redis, db, env>>

Persist(r) ==
  /\ pc[r] = "persist"
  /\ Record(r, "answered")
  /\ Goto(r, "memory")
  /\ UNCHANGED <<msg, sid, result, answered, seen, redis, rows, env>>

\* The commit raises, applied or not: the rest of the task is skipped.
PersistFails(r) ==
  /\ pc[r] = "persist" /\ faults < MaxFault
  /\ faults' = faults + 1
  /\ UNCHANGED turns \/ Record(r, "answered")
  /\ Goto(r, "release")
  /\ UNCHANGED <<msg, sid, result, answered, seen, redis, rows, slow, crashes>>

\* persist_interaction swallows every exception; only the normal path's task
\* then saves an idempotency result.
PersistInteraction(r) ==
  /\ pc[r] = "memory"
  /\ Goto(r, IF msg[r].key # NULL /\ ~msg[r].greeting THEN "save_last" ELSE "release")
  /\ UNCHANGED <<msg, sid, result, answered, seen, redis, db, env>>

\* Mutant of SaveLast: the response is saved under no key.
SaveLastNowhere(r) ==
  /\ pc[r] = "save_last"
  /\ Goto(r, "release")
  /\ UNCHANGED <<msg, sid, result, answered, seen, redis, db, env>>

\* Best effort: whatever save raises is logged.
SaveLast(r) ==
  /\ pc[r] = "save_last"
  /\ \/ ResponseEncodes /\ idem' = [idem EXCEPT ![msg[r].key] = r] /\ UNCHANGED faults
     \/ ~ResponseEncodes /\ UNCHANGED <<idem, faults>>
     \/ ResponseEncodes /\ faults < MaxFault /\ faults' = faults + 1 /\ UNCHANGED idem
  /\ Goto(r, "release")
  /\ UNCHANGED <<msg, sid, result, answered, seen, lock, db, slow, crashes>>

\* The last step: the background task ends, or the response leaves.
Finish(r) == Goto(r, "done") /\ Answer(r)

\* Mutant of Release: a plain DEL.
ReleaseBlindly(r) ==
  /\ pc[r] = "release"
  /\ lock' = [lock EXCEPT ![KeyOf(r)] = NULL]
  /\ Finish(r)
  /\ UNCHANGED <<msg, sid, result, seen, idem, db, env>>

\* Lua: delete the lock key only while it holds this request's token.
Release(r) ==
  /\ pc[r] = "release"
  /\ lock' = [lock EXCEPT ![KeyOf(r)] = IF @ = r THEN NULL ELSE @]
  /\ Finish(r)
  /\ UNCHANGED <<msg, sid, result, seen, idem, db, env>>

\* EVAL raises: the adapter reads the key, and deletes it in a second call.
ReleaseByGet(r) ==
  /\ pc[r] = "release" /\ faults < MaxFault
  /\ faults' = faults + 1
  /\ IF lock[KeyOf(r)] = r THEN Goto(r, "unlock") /\ UNCHANGED answered ELSE Finish(r)
  /\ UNCHANGED <<msg, sid, result, seen, redis, db, slow, crashes>>

Unlock(r) ==
  /\ pc[r] = "unlock"
  /\ lock' = [lock EXCEPT ![KeyOf(r)] = NULL]
  /\ Finish(r)
  /\ UNCHANGED <<msg, sid, result, seen, idem, db, env>>

\* Every call of the release raises: on the request path the client gets a 500.
ReleaseFails(r) ==
  /\ pc[r] \in {"release", "unlock"} /\ faults < MaxFault
  /\ faults' = faults + 1
  /\ IF InBackground(r) THEN UNCHANGED result ELSE Return(r, "error")
  /\ Finish(r)
  /\ UNCHANGED <<msg, sid, seen, redis, db, slow, crashes>>

\* Mutant of ExpireLock: SET NX without EX.
ExpireLockNever(k) == k \notin LockKey /\ UNCHANGED vars

\* The 75 s of a lock key run out; under a live holder, MaxSlow times.
ExpireLock(k) ==
  /\ lock[k] # NULL
  /\ IF Holding(lock[k]) THEN slow < MaxSlow /\ slow' = slow + 1 ELSE UNCHANGED slow
  /\ lock' = [lock EXCEPT ![k] = NULL]
  /\ UNCHANGED <<state, idem, db, faults, crashes>>

\* The worker running the request dies; Redis and PostgreSQL keep their state.
Crash(r) ==
  /\ pc[r] \notin {"unsent", "done", "dead"} /\ crashes < MaxCrash
  /\ crashes' = crashes + 1
  /\ Goto(r, "dead")
  /\ UNCHANGED <<msg, sid, result, answered, seen, redis, db, slow, faults>>
-----------------------------------------------------------------------------
\* The steps the code itself takes, in the order execute takes them.
Step(r) ==
  \/ RefuseBusy(r) \/ AcquireLock(r)
  \/ IdempotencyHit(r) \/ FastPath(r) \/ NormalPath(r) \/ SaveFirst(r) \/ SaveFirstFails(r)
  \/ ResolveExisting(r) \/ ResolveNew(r) \/ CreateSession(r) \/ LoadMemory(r)
  \/ GenerateSucceeds(r) \/ GenerateFails(r)
  \/ PersistFallback(r) \/ Persist(r) \/ PersistInteraction(r) \/ SaveLast(r)
  \/ Release(r) \/ Unlock(r)

\* What clients and failures add to it.
Environment(r) ==
  \/ Send(r) \/ RefuseCircuitOpen(r) \/ Crash(r)
  \/ AcquireFails(r) \/ ContextFails(r) \/ PersistFails(r)
  \/ ReleaseByGet(r) \/ ReleaseFails(r)

Next ==
  \/ \E r \in Req : Step(r) \/ Environment(r)
  \/ \E k \in LockKey : ExpireLock(k)

Spec == Init /\ [][Next]_vars

\* The event loop runs every coroutine that can run, every await of execute
\* returns or raises (an assumption about PostgreSQL and Redis, whose calls have no
\* deadline), and Redis expires a key whose TTL has run out.
FairSpec ==
  /\ Spec
  /\ \A r \in Req : WF_vars(Step(r))
  /\ \A k \in LockKey : WF_vars(ExpireLock(k))
-----------------------------------------------------------------------------
(***************************************************************************)
(* Safety                                                                  *)
(***************************************************************************)

\* Handing the lock from the request to its background task never opens a gap:
\* unless its TTL ran out under it, whoever runs between acquire and release
\* still finds its own token in Redis.
HolderOwnsLock ==
  slow = 0 => \A r \in Req : Holding(r) => lock[KeyOf(r)] = r

\* So two requests never work under the same lock key.
MutualExclusion ==
  slow = 0 => \A q, r \in Req :
    q # r /\ Holding(q) /\ Holding(r) => KeyOf(q) # KeyOf(r)

\* A lock outlives its request only because a worker died or a call failed: the
\* release_lock flag and the manual release leave no path without a release.
NoLockLeak ==
  \A k \in LockKey : lock[k] # NULL =>
    \/ Holding(lock[k])
    \/ pc[lock[k]] = "dead"
    \/ faults > 0

\* A conversation holds only turns of the user who owns its row, even when two
\* users name the same uuid at the same time.
TurnsBelongToOwner ==
  \A s \in Session : \A i \in DOMAIN turns[s] : msg[turns[s][i].req].user = rows[s]

TurnsOf(r) == {t \in Turn : t.req = r /\ \E s \in Session : t \in {turns[s][i] : i \in DOMAIN turns[s]}}

\* A request refused, failed or answered from the idempotency cache leaves no
\* turn behind, unless a commit or the final release raised.
UnansweredLeavesNoTurn ==
  \A r \in Req : pc[r] = "done" /\ faults = 0 /\ result[r] \in {"refused", "cached", "error"}
                   => TurnsOf(r) = {}

\* An answered request whose user owns the session has its turn persisted by
\* the time its background task ends, unless its lock ran out or a call failed.
AnsweredTurnPersisted ==
  slow + faults = 0 => \A r \in Req :
    pc[r] = "done" /\ result[r] = "ok" /\ rows[sid[r]] = msg[r].user
      => TurnsOf(r) = {[req |-> r, status |-> "answered"]}

\* A turn answered before another was sent comes before it in the conversation.
StrictMessageOrder ==
  slow = 0 => \A s \in Session : \A i, j \in DOMAIN turns[s] :
    i < j => turns[s][j].req \notin seen[turns[s][i].req]

\* A follow-up generates from a conversation that earlier answered requests of
\* the session have finished writing.
FollowUpSeesHistory ==
  slow = 0 => \A q, r \in Req :
    /\ pc[r] \in {"load", "generate"}
    /\ q \in seen[r] /\ sid[q] = sid[r]
    => pc[q] \in {"done", "dead"}

\* Among the requests that name a session, and while nothing fails, an
\* idempotency key is executed to an answer at most once.
SingleExecution ==
  slow + faults + crashes = 0 => \A s \in Session : \A i, j \in DOMAIN turns[s] :
    LET q == turns[s][i]  r == turns[s][j] IN
    /\ i # j /\ q.status = "answered" /\ r.status = "answered"
    /\ msg[q.req].session = s /\ msg[r.req].session = s /\ msg[q.req].key # NULL
    => msg[q.req].key # msg[r.req].key

\* Even after its TTL ran out and another request took the lock, the scripted
\* release deletes no lock but its own.
ReleaseFreesOnlyOwnLock ==
  [][\A r \in Req : pc[r] = "release" /\ pc'[r] = "done"
       => \A k \in LockKey : lock[k] \notin {NULL, r} => lock'[k] = lock[k]]_vars
-----------------------------------------------------------------------------
(***************************************************************************)
(* Liveness                                                                *)
(***************************************************************************)

\* Once clients stop sending, every request that was sent has been answered,
\* unless its worker died.
EveryRequestAnswered ==
  <>[](\A r \in Req : pc[r] # "unsent" => r \in answered \/ pc[r] = "dead")

\* Once clients stop sending, every lock is free and stays free, also those of
\* workers that died: no conversation is closed for good.
EveryLockReleased == <>[](\A k \in LockKey : lock[k] = NULL)
-----------------------------------------------------------------------------
(***************************************************************************)
(* Refinement                                                              *)
(***************************************************************************)

\* The session locks and the messages table are a ConversationLog.
Log == INSTANCE ConversationLog WITH holder <- [s \in Session |-> lock[s]]

\* While clients name their sessions and no lock expires under its holder, each
\* conversation is written only by the request admitted to it, and once at most,
\* whatever died or failed.
ImplementsConversationLog == Log!Spec
=============================================================================
