------------------------- MODULE ChatPipelineProofs -------------------------
(***************************************************************************)
(* What holds of ChatPipeline for any number of requests, users, sessions  *)
(* and keys, and any number of failures.                                   *)
(***************************************************************************)
EXTENDS ChatPipeline, TLAPS

\* A request that has been sent carries a message.
SentHasMessage == \A r \in Req : pc[r] # "unsent" => msg[r] \in Message

TypeInv == TypeOK /\ SentHasMessage

LEMMA InitTypeInv == Init => TypeInv
  BY ConstantsAssumption
  DEF Init, TypeInv, TypeOK, SentHasMessage, Steps, Held, Results

LEMMA KeyOfType ==
  ASSUME TypeInv, NEW r \in Req, pc[r] # "unsent"
  PROVE  KeyOf(r) \in LockKey
  BY DEF TypeInv, SentHasMessage, KeyOf, LockKey, Message

LEMMA RecordType ==
  ASSUME turns \in [Session -> Seq(Turn)], NEW r \in Req,
         NEW status \in {"answered", "failed"}, Record(r, status)
  PROVE  turns' \in [Session -> Seq(Turn)]
<1>1. [req |-> r, status |-> status] \in Turn
  BY DEF Turn
<1>2. CASE sid[r] \in Session
  <2>1. Append(turns[sid[r]], [req |-> r, status |-> status]) \in Seq(Turn)
    BY <1>1, <1>2
  <2> QED
    BY <1>2, <2>1 DEF Record
<1>3. CASE sid[r] \notin Session
  BY <1>3 DEF Record
<1> QED
  BY <1>2, <1>3

\* The type invariant is inductive.
LEMMA NextTypeInv == TypeInv /\ [Next]_vars => TypeInv'
<1> SUFFICES ASSUME TypeInv, [Next]_vars PROVE TypeInv'
  OBVIOUS
<1> USE ConstantsAssumption DEF TypeInv, TypeOK, SentHasMessage, Goto, Return, Answer
<1>1. CASE UNCHANGED vars
  BY <1>1 DEF vars, state, redis, db, env
<1>2. ASSUME NEW k \in LockKey, ExpireLock(k) PROVE TypeInv'
  <2>1. slow' \in 0..MaxSlow
    BY <1>2 DEF ExpireLock
  <2>2. lock' \in [LockKey -> Req \cup {NULL}]
    BY <1>2 DEF ExpireLock
  <2> QED
    BY <1>2, <2>1, <2>2 DEF ExpireLock, state, db
<1>3. ASSUME NEW r \in Req, Environment(r) PROVE TypeInv'
  <2>1. CASE Send(r)
    BY <2>1 DEF Send, redis, db, env, Steps
  <2>2. CASE RefuseCircuitOpen(r)
    BY <2>2 DEF RefuseCircuitOpen, Refuse, redis, db, env, Steps, Results
  <2>3. CASE Crash(r)
    BY <2>3 DEF Crash, redis, db, Steps
  <2>4. CASE AcquireFails(r)
    BY <2>4 DEF AcquireFails, db, Steps, Results
  <2>5. CASE ContextFails(r)
    <3>1. rows' \in [Session -> User \cup {NULL}]
      BY <2>5 DEF ContextFails, Message
    <3>2. pc' \in [Req -> Steps] /\ result' \in [Req -> Results]
      BY <2>5 DEF ContextFails, Abort, InBackground, Steps, Held, Results
    <3>3. \A q \in Req : pc'[q] # "unsent" => pc[q] # "unsent"
      BY <2>5 DEF ContextFails, Abort
    <3> QED
      BY <2>5, <3>1, <3>2, <3>3 DEF ContextFails, redis
  <2>6. CASE PersistFails(r)
    <3>1. turns' \in [Session -> Seq(Turn)]
      BY <2>6, RecordType DEF PersistFails
    <3> QED
      BY <2>6, <3>1 DEF PersistFails, redis, Steps, Held
  <2>7. CASE ReleaseByGet(r)
    BY <2>7 DEF ReleaseByGet, Finish, redis, db, Steps, Held
  <2>8. CASE ReleaseFails(r)
    BY <2>8 DEF ReleaseFails, Finish, InBackground, redis, db, Steps, Results
  <2> QED
    BY <1>3, <2>1, <2>2, <2>3, <2>4, <2>5, <2>6, <2>7, <2>8 DEF Environment
<1>4. ASSUME NEW r \in Req, Step(r) PROVE TypeInv'
  <2>1. CASE RefuseBusy(r)
    BY <2>1 DEF RefuseBusy, Refuse, redis, db, env, Steps, Results
  <2>2. CASE AcquireLock(r)
    BY <2>2 DEF AcquireLock, db, env, Steps, Held
  <2>3. CASE IdempotencyHit(r)
    BY <2>3 DEF IdempotencyHit, redis, db, env, Steps, Held, Results
  <2>4. CASE FastPath(r)
    <3>1. PICK s \in Session : sid' = [sid EXCEPT ![r] = s]
      BY <2>4 DEF FastPath, FreshSessions, Message
    <3>2. pc' \in [Req -> Steps] /\ result' \in [Req -> Results] /\ answered' \subseteq Req
      <4>1. CASE msg[r].key = NULL
        <5>1. Return(r, "ok") /\ Answer(r) /\ Goto(r, "resolve")
          BY ONLY <2>4, <4>1 DEF FastPath
        <5> QED
          BY <5>1 DEF Steps, Held, Results
      <4>2. CASE msg[r].key # NULL
        BY <2>4, <4>2 DEF FastPath, Steps, Held
      <4> QED
        BY <4>1, <4>2
    <3>3. \A q \in Req : pc'[q] # "unsent" => pc[q] # "unsent"
      BY <2>4 DEF FastPath
    <3> QED
      BY <2>4, <3>1, <3>2, <3>3 DEF FastPath, redis, db, env
  <2>5. CASE NormalPath(r)
    BY <2>5 DEF NormalPath, redis, db, env, Steps, Held
  <2>6. CASE SaveFirst(r)
    BY <2>6 DEF SaveFirst, db, env, Steps, Held, Results
  <2>7. CASE SaveFirstFails(r)
    BY <2>7 DEF SaveFirstFails, db, Steps, Held, Results
  <2>8. CASE ResolveExisting(r)
    BY <2>8 DEF ResolveExisting, Resolved, Abort, InBackground, redis, db, env,
                Steps, Held, Results, Message
  <2>9. CASE ResolveNew(r)
    BY <2>9 DEF ResolveNew, FreshSessions, redis, db, env, Steps, Held
  <2>10. CASE CreateSession(r)
    BY <2>10 DEF CreateSession, Resolved, Abort, InBackground, redis, env,
                 Steps, Held, Results, Message
  <2>11. CASE LoadMemory(r)
    BY <2>11 DEF LoadMemory, redis, db, env, Steps, Held
  <2>12. CASE GenerateSucceeds(r)
    BY <2>12 DEF GenerateSucceeds, redis, db, env, Steps, Held, Results
  <2>13. CASE GenerateFails(r)
    BY <2>13 DEF GenerateFails, redis, db, env, Steps, Held
  <2>14. CASE PersistFallback(r)
    <3>1. turns' \in [Session -> Seq(Turn)]
      BY <2>14, RecordType DEF PersistFallback
    <3>2. faults' \in 0..MaxFault
      BY <2>14 DEF PersistFallback
    <3> QED
      BY <2>14, <3>1, <3>2 DEF PersistFallback, redis, Steps, Held, Results
  <2>15. CASE Persist(r)
    <3>1. turns' \in [Session -> Seq(Turn)]
      BY <2>15, RecordType DEF Persist
    <3> QED
      BY <2>15, <3>1 DEF Persist, redis, env, Steps, Held
  <2>16. CASE PersistInteraction(r)
    BY <2>16 DEF PersistInteraction, redis, db, env, Steps, Held
  <2>17. CASE SaveLast(r)
    BY <2>17 DEF SaveLast, db, Steps, Held
  <2>18. CASE Release(r)
    BY <2>18 DEF Release, Finish, db, env, Steps
  <2>19. CASE Unlock(r)
    BY <2>19 DEF Unlock, Finish, db, env, Steps
  <2> QED
    BY <1>4, <2>1, <2>2, <2>3, <2>4, <2>5, <2>6, <2>7, <2>8, <2>9, <2>10, <2>11,
       <2>12, <2>13, <2>14, <2>15, <2>16, <2>17, <2>18, <2>19 DEF Step
<1> QED
  BY <1>1, <1>2, <1>3, <1>4 DEF Next

\* Every variable keeps its type, whatever the environment does.
THEOREM TypeCorrect == Spec => []TypeOK
<1>1. TypeInv => TypeOK
  BY DEF TypeInv
<1> QED
  BY InitTypeInv, NextTypeInv, <1>1, PTL DEF Spec
-----------------------------------------------------------------------------
\* A lock key holds the token of a request that was sent and locks that key.
LockNamesItsKey ==
  \A k \in LockKey : lock[k] # NULL => pc[lock[k]] # "unsent" /\ KeyOf(lock[k]) = k

LockInv == LockNamesItsKey /\ HolderOwnsLock /\ NoLockLeak

\* A step that leaves the locks alone preserves LockInv when it takes no request
\* into its critical section, and none out of it that has not died or failed.
LEMMA LocksUntouched ==
  ASSUME TypeInv, LockInv, UNCHANGED <<lock, slow>>, faults' \in Nat, faults' >= faults,
         \A q \in Req : Holding(q)' => Holding(q),
         \A q \in Req : Holding(q) => Holding(q)' \/ pc'[q] = "dead" \/ faults' > 0,
         \A q \in Req : pc[q] = "dead" => pc'[q] = "dead",
         \A q \in Req : pc[q] # "unsent" => pc'[q] # "unsent" /\ KeyOf(q)' = KeyOf(q)
  PROVE  LockInv'
<1> USE DEF TypeInv, TypeOK
<1>1. faults \in Nat
  BY ConstantsAssumption
<1>2. \A k \in LockKey : lock[k] # NULL => lock[k] \in Req
  OBVIOUS
<1>3. LockNamesItsKey'
  BY <1>2 DEF LockInv, LockNamesItsKey
<1>4. HolderOwnsLock'
  BY DEF LockInv, HolderOwnsLock, Holding, Held
<1>5. NoLockLeak'
  BY <1>1, <1>2 DEF LockInv, NoLockLeak
<1> QED
  BY <1>3, <1>4, <1>5 DEF LockInv

\* A request that moves inside its critical section is such a step.
LEMMA HolderMoves ==
  ASSUME TypeInv, LockInv, NEW r \in Req, NEW step \in Held, Holding(r), Goto(r, step),
         UNCHANGED <<msg, lock, slow>>, faults' \in {faults, faults + 1}
  PROVE  LockInv'
<1>0. faults \in Nat
  BY ConstantsAssumption DEF TypeInv, TypeOK
<1>1. pc'[r] = step /\ \A q \in Req : q # r => pc'[q] = pc[q]
  BY DEF Goto, TypeInv, TypeOK
<1>2. \A q \in Req : KeyOf(q)' = KeyOf(q)
  BY DEF KeyOf
<1>3. faults' \in Nat /\ faults' >= faults
  BY <1>0
<1> QED
  BY <1>1, <1>2, <1>3, LocksUntouched DEF Holding, Held

LEMMA NextLockInv == TypeInv /\ LockInv /\ [Next]_vars => LockInv'
<1> SUFFICES ASSUME TypeInv, LockInv, [Next]_vars PROVE LockInv'
  OBVIOUS
<1>0. /\ pc \in [Req -> Steps] /\ lock \in [LockKey -> Req \cup {NULL}]
      /\ faults \in Nat /\ slow \in Nat /\ NULL \notin Req
  BY ConstantsAssumption, NullAssumption DEF TypeInv, TypeOK
<1>a. \A k \in LockKey : lock[k] # NULL => lock[k] \in Req
  BY <1>0
<1>1. CASE UNCHANGED vars
  <2>1. UNCHANGED <<msg, pc, lock, slow, faults>>
    BY <1>1 DEF vars, state, redis, env
  <2>2. \A q \in Req : KeyOf(q)' = KeyOf(q)
    BY <2>1 DEF KeyOf
  <2> QED
    BY <1>0, <2>1, <2>2, LocksUntouched DEF Holding
<1>2. ASSUME NEW k \in LockKey, ExpireLock(k) PROVE LockInv'
  <2>1. UNCHANGED <<msg, pc, faults>> /\ lock' = [lock EXCEPT ![k] = NULL]
    BY <1>2 DEF ExpireLock, state
  <2>2. \A q \in Req : KeyOf(q)' = KeyOf(q) /\ Holding(q)' = Holding(q)
    BY <2>1 DEF KeyOf, Holding
  <2>3. slow' = 0 => slow = 0 /\ ~Holding(lock[k])
    BY <1>0, <1>2 DEF ExpireLock
  <2>4. LockNamesItsKey' /\ NoLockLeak'
    BY <1>0, <1>a, <2>1, <2>2 DEF LockInv, LockNamesItsKey, NoLockLeak
  <2>5. HolderOwnsLock'
    BY <1>0, <1>2, <2>1, <2>2, <2>3 DEF LockInv, HolderOwnsLock, ExpireLock
  <2> QED
    BY <2>4, <2>5 DEF LockInv
<1>3. ASSUME NEW r \in Req, Environment(r) PROVE LockInv'
  <2>1. CASE Send(r)
    <3>1. \A q \in Req : q # r => pc'[q] = pc[q] /\ KeyOf(q)' = KeyOf(q)
      BY <1>0, <2>1 DEF Send, Goto, KeyOf, TypeInv, TypeOK
    <3>2. UNCHANGED <<lock, slow, faults>> /\ pc[r] = "unsent" /\ pc'[r] = "start"
      BY <1>0, <2>1 DEF Send, Goto, redis, env
    <3> QED
      BY <1>0, <3>1, <3>2, LocksUntouched DEF Holding, Held
  <2>2. CASE RefuseCircuitOpen(r)
    <3>1. UNCHANGED <<msg, lock, slow, faults>> /\ pc[r] = "start" /\ Goto(r, "done")
      BY <2>2 DEF RefuseCircuitOpen, Refuse, redis, env
    <3>2. \A q \in Req : KeyOf(q)' = KeyOf(q)
      BY <3>1 DEF KeyOf
    <3> QED
      BY <1>0, <3>1, <3>2, LocksUntouched DEF Holding, Held, Goto
  <2>3. CASE Crash(r)
    <3>1. UNCHANGED <<msg, lock, slow, faults>> /\ pc[r] # "unsent" /\ Goto(r, "dead")
      BY <2>3 DEF Crash, redis
    <3>2. \A q \in Req : KeyOf(q)' = KeyOf(q)
      BY <3>1 DEF KeyOf
    <3> QED
      BY <1>0, <3>1, <3>2, LocksUntouched DEF Holding, Held, Goto
  <2>4. CASE AcquireFails(r)
    <3>1. /\ UNCHANGED <<msg, slow>> /\ faults' = faults + 1 /\ pc[r] = "start" /\ Goto(r, "done")
          /\ \/ UNCHANGED lock
             \/ lock[KeyOf(r)] = NULL /\ lock' = [lock EXCEPT ![KeyOf(r)] = r]
      BY <2>4 DEF AcquireFails
    <3>2. \A q \in Req : KeyOf(q)' = KeyOf(q)
      BY <3>1 DEF KeyOf
    <3>3. KeyOf(r) \in LockKey
      BY <3>1, KeyOfType
    <3>4. NoLockLeak'
      BY <1>0, <3>1 DEF NoLockLeak
    <3>5. \A q \in Req : /\ Holding(q)' => Holding(q)
                         /\ pc[q] # "unsent" => pc'[q] # "unsent"
      BY <1>0, <3>1 DEF Holding, Held, Goto
    <3>6. LockNamesItsKey'
      BY <1>0, <1>a, <3>1, <3>2, <3>3, <3>5 DEF LockInv, LockNamesItsKey
    <3>7. HolderOwnsLock'
      <4> SUFFICES ASSUME slow' = 0, NEW q \in Req, Holding(q)' PROVE lock'[KeyOf(q)'] = q
        BY DEF HolderOwnsLock
      <4>1. lock[KeyOf(q)] = q /\ KeyOf(q)' = KeyOf(q)
        BY <3>1, <3>2, <3>5 DEF LockInv, HolderOwnsLock
      <4>2. KeyOf(q) \in LockKey
        BY <3>5, KeyOfType DEF Holding, Held
      <4> QED
        BY <1>0, <3>1, <3>3, <4>1, <4>2
    <3> QED
      BY <3>4, <3>6, <3>7 DEF LockInv
  <2>5. CASE ContextFails(r)
    <3>1. /\ UNCHANGED <<msg, lock, slow>> /\ faults' = faults + 1
          /\ Holding(r) /\ Goto(r, "release")
      BY <2>5 DEF ContextFails, Abort, redis, Holding, Held
    <3>2. "release" \in Held
      BY DEF Held
    <3> QED
      BY <3>1, <3>2, HolderMoves
  <2>6. CASE PersistFails(r)
    <3>1. /\ UNCHANGED <<msg, lock, slow>> /\ faults' = faults + 1
          /\ Holding(r) /\ Goto(r, "release")
      BY <2>6 DEF PersistFails, redis, Holding, Held
    <3>2. "release" \in Held
      BY DEF Held
    <3> QED
      BY <3>1, <3>2, HolderMoves
  <2>7. CASE ReleaseByGet(r)
    <3>1. CASE lock[KeyOf(r)] = r
      <4>1. /\ UNCHANGED <<msg, lock, slow>> /\ faults' = faults + 1
            /\ Holding(r) /\ Goto(r, "unlock")
        BY <2>7, <3>1 DEF ReleaseByGet, redis, Holding, Held
      <4>2. "unlock" \in Held
        BY DEF Held
      <4> QED
        BY <4>1, <4>2, HolderMoves
    <3>2. CASE lock[KeyOf(r)] # r
      <4>1. /\ UNCHANGED <<msg, lock, slow>> /\ faults' = faults + 1
            /\ pc[r] = "release" /\ Goto(r, "done")
        BY <2>7, <3>2 DEF ReleaseByGet, Finish, redis
      <4>2. \A q \in Req : KeyOf(q)' = KeyOf(q)
        BY <4>1 DEF KeyOf
      <4> QED
        BY <1>0, <4>1, <4>2, LocksUntouched DEF Holding, Goto, Held
    <3> QED
      BY <3>1, <3>2
  <2>8. CASE ReleaseFails(r)
    <3>1. /\ UNCHANGED <<msg, lock, slow>> /\ faults' = faults + 1
          /\ pc[r] \in {"release", "unlock"} /\ Goto(r, "done")
      BY <2>8 DEF ReleaseFails, Finish, redis
    <3>2. \A q \in Req : KeyOf(q)' = KeyOf(q)
      BY <3>1 DEF KeyOf
    <3> QED
      BY <1>0, <3>1, <3>2, LocksUntouched DEF Holding, Goto, Held
  <2> QED
    BY <1>3, <2>1, <2>2, <2>3, <2>4, <2>5, <2>6, <2>7, <2>8 DEF Environment
<1>4. ASSUME NEW r \in Req, Step(r) PROVE LockInv'
  <2>1. CASE RefuseBusy(r)
    <3>1. UNCHANGED <<msg, lock, slow, faults>> /\ pc[r] = "start" /\ Goto(r, "done")
      BY <2>1 DEF RefuseBusy, Refuse, redis, env
    <3>2. \A q \in Req : KeyOf(q)' = KeyOf(q)
      BY <3>1 DEF KeyOf
    <3> QED
      BY <1>0, <3>1, <3>2, LocksUntouched DEF Holding, Held, Goto
  <2>2. CASE AcquireLock(r)
    <3>1. /\ UNCHANGED <<msg, slow, faults>> /\ pc[r] = "start" /\ Goto(r, "idempotency")
          /\ lock[KeyOf(r)] = NULL /\ lock' = [lock EXCEPT ![KeyOf(r)] = r]
      BY <2>2 DEF AcquireLock, env
    <3>2. \A q \in Req : KeyOf(q)' = KeyOf(q)
      BY <3>1 DEF KeyOf
    <3>3. KeyOf(r) \in LockKey
      BY <3>1, KeyOfType
    <3>4. \A q \in Req : q # r => pc'[q] = pc[q]
      BY <1>0, <3>1 DEF Goto
    <3>5. pc'[r] = "idempotency"
      BY <1>0, <3>1 DEF Goto
    <3>6. LockNamesItsKey'
      BY <1>0, <1>a, <3>1, <3>2, <3>3, <3>4, <3>5 DEF LockInv, LockNamesItsKey
    <3>7. HolderOwnsLock'
      BY <1>0, <3>1, <3>2, <3>3, <3>4, <3>5 DEF LockInv, HolderOwnsLock, Holding
    <3>8. NoLockLeak'
      BY <1>0, <1>a, <3>1, <3>3, <3>4, <3>5 DEF LockInv, NoLockLeak, Holding, Held
    <3> QED
      BY <3>6, <3>7, <3>8 DEF LockInv
  <2>3. CASE Release(r) \/ Unlock(r)
    <3>1. /\ UNCHANGED <<msg, slow, faults>> /\ pc[r] \in {"release", "unlock"} /\ Goto(r, "done")
          /\ \/ lock' = [lock EXCEPT ![KeyOf(r)] = IF @ = r THEN NULL ELSE @]
             \/ pc[r] = "unlock" /\ lock' = [lock EXCEPT ![KeyOf(r)] = NULL]
      BY <2>3 DEF Release, Unlock, Finish, env
    <3>2. \A q \in Req : KeyOf(q)' = KeyOf(q)
      BY <3>1 DEF KeyOf
    <3>3. KeyOf(r) \in LockKey /\ Holding(r)
      BY <3>1, KeyOfType DEF Holding, Held
    <3>4. pc'[r] = "done" /\ \A q \in Req : q # r => pc'[q] = pc[q]
      BY <1>0, <3>1 DEF Goto
    <3>5. \A k \in LockKey : /\ lock'[k] # NULL => lock'[k] = lock[k] /\ lock[k] # r
                             /\ lock'[k] # lock[k] => k = KeyOf(r)
      BY <1>0, <1>a, <3>1, <3>3 DEF LockInv, LockNamesItsKey
    <3>6. LockNamesItsKey'
      BY <1>0, <1>a, <3>2, <3>4, <3>5 DEF LockInv, LockNamesItsKey
    <3>7. HolderOwnsLock'
      <4> SUFFICES ASSUME slow' = 0, NEW q \in Req, Holding(q)' PROVE lock'[KeyOf(q)'] = q
        BY DEF HolderOwnsLock
      <4>1. q # r /\ Holding(q) /\ KeyOf(q)' = KeyOf(q) /\ slow = 0
        BY <3>1, <3>2, <3>4 DEF Holding, Held
      <4>2. lock[KeyOf(q)] = q /\ lock[KeyOf(r)] = r
        BY <3>3, <4>1 DEF LockInv, HolderOwnsLock
      <4>3. KeyOf(q) \in LockKey
        BY <4>1, KeyOfType DEF Holding, Held
      <4> QED
        BY <1>0, <3>5, <4>1, <4>2, <4>3
    <3>8. NoLockLeak'
      BY <1>0, <1>a, <3>1, <3>4, <3>5 DEF LockInv, NoLockLeak, Holding
    <3> QED
      BY <3>6, <3>7, <3>8 DEF LockInv
  <2>4. CASE \/ IdempotencyHit(r) \/ NormalPath(r) \/ SaveFirst(r) \/ LoadMemory(r)
             \/ GenerateSucceeds(r) \/ GenerateFails(r) \/ Persist(r) \/ ResolveNew(r)
    <3>1. PICK step \in Held : /\ UNCHANGED <<msg, lock, slow, faults>>
                               /\ Holding(r) /\ Goto(r, step)
      BY <2>4 DEF IdempotencyHit, NormalPath, SaveFirst, LoadMemory, GenerateSucceeds,
                  GenerateFails, Persist, ResolveNew, redis, env, Held, Holding
    <3> QED
      BY <3>1, HolderMoves
  <2>5. CASE \/ FastPath(r) \/ SaveFirstFails(r) \/ ResolveExisting(r) \/ CreateSession(r)
             \/ PersistFallback(r) \/ PersistInteraction(r) \/ SaveLast(r)
    <3>1. UNCHANGED <<msg, lock, slow>> /\ Holding(r) /\ faults' \in {faults, faults + 1}
      BY <2>5 DEF FastPath, SaveFirstFails, ResolveExisting, CreateSession, PersistFallback,
                  PersistInteraction, SaveLast, redis, env, Held, Holding
    <3>2. PICK step \in Held : Goto(r, step)
      BY <2>5 DEF FastPath, SaveFirstFails, ResolveExisting, CreateSession, PersistFallback,
                  PersistInteraction, SaveLast, Resolved, Abort, Goto, Held
    <3> QED
      BY <3>1, <3>2, HolderMoves
  <2> QED
    BY <1>4, <2>1, <2>2, <2>3, <2>4, <2>5 DEF Step
<1> QED
  BY <1>1, <1>2, <1>3, <1>4 DEF Next

LEMMA InitLockInv == Init => LockInv
  BY DEF Init, LockInv, LockNamesItsKey, HolderOwnsLock, NoLockLeak, Holding, Held

LEMMA LockInvariant == Spec => [](TypeInv /\ LockInv)
  BY InitTypeInv, InitLockInv, NextTypeInv, NextLockInv, PTL DEF Spec

\* While no lock expires under its holder, the token in Redis is the holder's.
THEOREM HolderOwnsLockAlways == Spec => []HolderOwnsLock
<1>1. LockInv => HolderOwnsLock
  BY DEF LockInv
<1> QED
  BY LockInvariant, <1>1, PTL

\* Two requests never hold the same session lock.
THEOREM MutualExclusionAlways == Spec => []MutualExclusion
<1>1. TypeInv /\ LockInv => MutualExclusion
  BY DEF LockInv, HolderOwnsLock, MutualExclusion
<1> QED
  BY LockInvariant, <1>1, PTL

\* No path through execute or its background tasks leaks the lock.
THEOREM NoLockLeakAlways == Spec => []NoLockLeak
<1>1. LockInv => NoLockLeak
  BY DEF LockInv
<1> QED
  BY LockInvariant, <1>1, PTL

\* The script of the release deletes the lock key only with its own token, also when
\* another request has taken the lock since.
THEOREM ReleaseFreesOnlyOwnLockAlways == Spec => ReleaseFreesOnlyOwnLock
<1> DEFINE Own == \A r \in Req : pc[r] = "release" /\ pc'[r] = "done"
                    => \A k \in LockKey : lock[k] \notin {NULL, r} => lock'[k] = lock[k]
<1>1. TypeInv /\ [Next]_vars => [Own]_vars
  <2> SUFFICES ASSUME TypeInv, Next, NEW r \in Req, pc[r] = "release", pc'[r] = "done",
                      NEW k \in LockKey, lock[k] \notin {NULL, r}
               PROVE  lock'[k] = lock[k]
    OBVIOUS
  <2>1. pc \in [Req -> Steps] /\ lock \in [LockKey -> Req \cup {NULL}]
    BY DEF TypeInv, TypeOK
  <2>2. ASSUME NEW h \in LockKey, ExpireLock(h) PROVE FALSE
    BY <2>2 DEF ExpireLock, state
  <2>3. ASSUME NEW q \in Req, q # r, Step(q) \/ Environment(q) PROVE FALSE
    <3>1. \E step : Goto(q, step)
      BY <2>3 DEF Step, Environment, Send, RefuseBusy, RefuseCircuitOpen, Refuse, AcquireLock,
         AcquireFails, IdempotencyHit, NormalPath, FastPath, SaveFirst, SaveFirstFails, ResolveExisting,
         ResolveNew, CreateSession, ContextFails, LoadMemory, GenerateSucceeds, GenerateFails,
         PersistFallback, Persist, PersistFails, PersistInteraction, SaveLast, Release, Unlock,
         ReleaseByGet, ReleaseFails, Crash, Resolved, Abort, Finish
    <3> QED
      BY <2>1, <2>3, <3>1 DEF Goto
  <2>4. ASSUME Step(r) \/ Environment(r) PROVE lock'[k] = lock[k]
    <3>1. Release(r) \/ ReleaseByGet(r) \/ ReleaseFails(r) \/ Crash(r)
      BY <2>4 DEF Step, Environment, Send, RefuseBusy, RefuseCircuitOpen, AcquireLock,
         AcquireFails, IdempotencyHit, NormalPath, FastPath, SaveFirst, SaveFirstFails, ResolveExisting,
         ResolveNew, CreateSession, ContextFails, LoadMemory, GenerateSucceeds, GenerateFails,
         PersistFallback, Persist, PersistFails, PersistInteraction, SaveLast, Unlock
    <3>2. CASE Release(r)
      BY <2>1, <3>2 DEF Release
    <3> QED
      BY <3>1, <3>2 DEF ReleaseByGet, ReleaseFails, Crash, redis
  <2> QED
    BY <2>2, <2>3, <2>4 DEF Next
<1> QED
  BY <1>1, LockInvariant, PTL DEF Spec, ReleaseFreesOnlyOwnLock

-----------------------------------------------------------------------------
(***************************************************************************)
(* One request                                                             *)
(***************************************************************************)

\* How far a request is from its end.
Rank == [step \in Steps |->
  CASE step = "unsent" -> 15      [] step = "start" -> 14     [] step = "idempotency" -> 13
    [] step = "save_first" -> 12  [] step = "resolve" -> 11   [] step = "create" -> 10
    [] step = "load" -> 9         [] step = "generate" -> 8   [] step = "fallback" -> 7
    [] step = "persist" -> 6      [] step = "memory" -> 5     [] step = "save_last" -> 4
    [] step = "release" -> 3      [] step = "unlock" -> 2     [] step = "done" -> 1
    [] step = "dead" -> 0]

LEMMA RankType == Rank \in [Steps -> 0..15]
  BY DEF Rank, Steps, Held

\* Every action of a request moves that request, and closer to its end.
LEMMA Advances ==
  ASSUME TypeInv, NEW r \in Req, Step(r) \/ Environment(r)
  PROVE  /\ pc'[r] \in Steps /\ Rank[pc'[r]] < Rank[pc[r]]
         /\ \A q \in Req : q # r => pc'[q] = pc[q]
<1>0. pc \in [Req -> Steps]
  BY DEF TypeInv, TypeOK
<1> USE <1>0 DEF Goto, Rank, Steps, Held
<1>1. CASE \/ Send(r) \/ RefuseBusy(r) \/ RefuseCircuitOpen(r) \/ AcquireLock(r) \/ AcquireFails(r)
  BY <1>1 DEF Send, RefuseBusy, RefuseCircuitOpen, Refuse, AcquireLock, AcquireFails
<1>2. CASE \/ IdempotencyHit(r) \/ NormalPath(r) \/ FastPath(r) \/ SaveFirst(r) \/ SaveFirstFails(r)
  BY <1>2 DEF IdempotencyHit, NormalPath, FastPath, SaveFirst, SaveFirstFails
<1>3. CASE ResolveExisting(r) \/ ResolveNew(r)
  BY <1>3 DEF ResolveExisting, ResolveNew, Resolved, Abort
<1>4. CASE CreateSession(r)
  BY <1>4 DEF CreateSession, Resolved, Abort
<1>5. CASE ContextFails(r)
  BY <1>5 DEF ContextFails, Abort
<1>6. CASE LoadMemory(r) \/ GenerateSucceeds(r) \/ GenerateFails(r)
  BY <1>6 DEF LoadMemory, GenerateSucceeds, GenerateFails
<1>7. CASE PersistFallback(r) \/ Persist(r) \/ PersistFails(r)
  BY <1>7 DEF PersistFallback, Persist, PersistFails
<1>8. CASE PersistInteraction(r) \/ SaveLast(r)
  BY <1>8 DEF PersistInteraction, SaveLast
<1>9. CASE Release(r) \/ Unlock(r) \/ ReleaseByGet(r) \/ ReleaseFails(r)
  BY <1>9 DEF Release, Unlock, ReleaseByGet, ReleaseFails, Finish
<1>10. CASE Crash(r)
  BY <1>10 DEF Crash
<1> QED
  BY <1>1, <1>2, <1>3, <1>4, <1>5, <1>6, <1>7, <1>8, <1>9, <1>10 DEF Step, Environment

\* execute has no loop: whatever fails, a request is never at the same step twice and
\* takes fifteen steps at most.  (With the fairness of FairSpec this is what makes it
\* end and its lock be released.)
NeverBack == [][\A r \in Req : pc'[r] # pc[r] => Rank[pc'[r]] < Rank[pc[r]]]_vars

THEOREM NeverBackAlways == Spec => NeverBack
<1> DEFINE Lower == \A r \in Req : pc'[r] # pc[r] => Rank[pc'[r]] < Rank[pc[r]]
<1>1. TypeInv /\ [Next]_vars => [Lower]_vars
  BY Advances DEF Next, ExpireLock, state
<1> QED
  BY <1>1, InitTypeInv, NextTypeInv, PTL DEF Spec, NeverBack

\* Where a request may be once its response has left.
AnsweredInv ==
  \A r \in answered : pc[r] \in {"resolve", "create", "persist", "memory", "save_last", "release",
                                "unlock", "done", "dead"}

\* The steps of a request that has been answered, and the answers it gets.
LEMMA AnsweredMoves ==
  ASSUME TypeInv, AnsweredInv, NEW r \in Req, Step(r) \/ Environment(r)
  PROVE  /\ answered' = answered \/ answered' = answered \cup {r}
         /\ r \in answered' => pc'[r] \in {"resolve", "create", "persist", "memory", "save_last", "release",
                                         "unlock", "done", "dead"}
         /\ r \in answered => result'[r] = result[r]
         /\ \A q \in Req : q # r => result'[q] = result[q]
<1>0. pc \in [Req -> Steps] /\ result \in [Req -> Results] /\ answered \subseteq Req
  BY DEF TypeInv, TypeOK
<1> USE <1>0 DEF AnsweredInv, Goto, Return, Answer
<1>1. CASE \/ Send(r) \/ RefuseBusy(r) \/ RefuseCircuitOpen(r) \/ AcquireLock(r) \/ AcquireFails(r)
  BY <1>1 DEF Send, RefuseBusy, RefuseCircuitOpen, Refuse, AcquireLock, AcquireFails
<1>2. CASE \/ IdempotencyHit(r) \/ NormalPath(r) \/ FastPath(r) \/ SaveFirst(r) \/ SaveFirstFails(r)
  BY <1>2 DEF IdempotencyHit, NormalPath, FastPath, SaveFirst, SaveFirstFails
<1>3. CASE ResolveExisting(r) \/ ResolveNew(r)
  BY <1>3 DEF ResolveExisting, ResolveNew, Resolved, Abort, InBackground
<1>4. CASE CreateSession(r)
  BY <1>4 DEF CreateSession, Resolved, Abort, InBackground
<1>5. CASE ContextFails(r)
  BY <1>5 DEF ContextFails, Abort, InBackground
<1>6. CASE LoadMemory(r) \/ GenerateSucceeds(r) \/ GenerateFails(r)
  BY <1>6 DEF LoadMemory, GenerateSucceeds, GenerateFails
<1>7. CASE PersistFallback(r) \/ Persist(r) \/ PersistFails(r)
  BY <1>7 DEF PersistFallback, Persist, PersistFails
<1>8. CASE PersistInteraction(r) \/ SaveLast(r)
  BY <1>8 DEF PersistInteraction, SaveLast
<1>9. CASE Release(r) \/ Unlock(r) \/ ReleaseByGet(r) \/ ReleaseFails(r)
  BY <1>9 DEF Release, Unlock, ReleaseByGet, ReleaseFails, Finish, InBackground
<1>10. CASE Crash(r)
  BY <1>10 DEF Crash
<1> QED
  BY <1>1, <1>2, <1>3, <1>4, <1>5, <1>6, <1>7, <1>8, <1>9, <1>10 DEF Step, Environment

LEMMA NextAnsweredInv == TypeInv /\ AnsweredInv /\ [Next]_vars => AnsweredInv'
<1> SUFFICES ASSUME TypeInv, AnsweredInv, [Next]_vars PROVE AnsweredInv'
  OBVIOUS
<1>1. CASE UNCHANGED state
  BY <1>1 DEF state, AnsweredInv
<1>2. ASSUME NEW r \in Req, Step(r) \/ Environment(r) PROVE AnsweredInv'
  <2>1. answered \subseteq Req
    BY DEF TypeInv, TypeOK
  <2> QED
    BY <1>2, <2>1, Advances, AnsweredMoves DEF AnsweredInv
<1> QED
  BY <1>1, <1>2 DEF Next, ExpireLock, vars

\* What a client has been told stands: no background task, failing release or abort
\* changes the outcome of a request after its response has left, and no response is
\* taken back.
AnswerStands == [][\A r \in answered : r \in answered' /\ result'[r] = result[r]]_vars

THEOREM AnswerStandsAlways == Spec => AnswerStands
<1> DEFINE Stands == \A r \in answered : r \in answered' /\ result'[r] = result[r]
<1>1. Init => AnsweredInv
  BY DEF Init, AnsweredInv
<1>2. TypeInv /\ AnsweredInv /\ [Next]_vars => [Stands]_vars
  <2>1. TypeInv => answered \subseteq Req
    BY DEF TypeInv, TypeOK
  <2> QED
    BY <2>1, AnsweredMoves DEF Next, ExpireLock, state
<1> QED
  BY <1>1, <1>2, NextAnsweredInv, InitTypeInv, NextTypeInv, PTL DEF Spec, AnswerStands

\* As it stands, with responses that json.dumps rejects: no result is ever stored, no
\* retry is answered from one, and a greeting sent with a key fails.
NothingStored ==
  /\ \A k \in IdemKey : idem[k] = NULL
  /\ \A r \in Req : result[r] # "cached"
  /\ \A r \in Req : /\ pc[r] # "unsent" /\ msg[r].key # NULL /\ msg[r].greeting
                    => /\ pc[r] \in {"start", "idempotency", "save_first", "release", "unlock", "done", "dead"}
                       /\ result[r] \in {NULL, "refused", "error"}

NotYetSent == \A r \in Req : pc[r] = "unsent" => result[r] = NULL

LEMMA NextNotYetSent == TypeInv /\ AnsweredInv /\ NotYetSent /\ [Next]_vars => NotYetSent'
<1> SUFFICES ASSUME TypeInv, AnsweredInv, NotYetSent, [Next]_vars PROVE NotYetSent'
  OBVIOUS
<1>1. CASE UNCHANGED state
  BY <1>1 DEF state, NotYetSent
<1>2. ASSUME NEW r \in Req, Step(r) \/ Environment(r) PROVE NotYetSent'
  <2>1. pc'[r] # "unsent"
    <3>1. Rank[pc[r]] \in 0..15 /\ Rank["unsent"] = 15
      BY RankType DEF TypeInv, TypeOK, Rank, Steps
    <3> QED
      BY <1>2, <3>1, Advances
  <2> QED
    BY <1>2, <2>1, Advances, AnsweredMoves DEF NotYetSent
<1> QED
  BY <1>1, <1>2 DEF Next, ExpireLock, vars

LEMMA NextNothingStored ==
  ASSUME ResponseEncodes = FALSE
  PROVE  TypeInv /\ NotYetSent /\ NothingStored /\ [Next]_vars => NothingStored'
<1> SUFFICES ASSUME TypeInv, NotYetSent, NothingStored, [Next]_vars PROVE NothingStored'
  OBVIOUS
<1>0. /\ pc \in [Req -> Steps] /\ result \in [Req -> Results] /\ msg \in [Req -> Message \cup {NULL}]
      /\ \A r \in Req : pc[r] # "unsent" => msg[r] \in Message
  BY DEF TypeInv, TypeOK, SentHasMessage
<1>1. CASE UNCHANGED <<msg, pc, result, idem>>
  BY <1>1 DEF NothingStored
<1>2. ASSUME NEW r \in Req, Step(r) \/ Environment(r) PROVE NothingStored'
  <2> DEFINE Dead == {"start", "idempotency", "save_first", "release", "unlock", "done", "dead"}
             Lost(q) == pc[q] # "unsent" /\ msg[q].key # NULL /\ msg[q].greeting
                          => pc[q] \in Dead /\ result[q] \in {NULL, "refused", "error"}
  <2> SUFFICES /\ \A k \in IdemKey : idem'[k] = NULL
               /\ \A q \in Req : q # r => pc'[q] = pc[q] /\ msg'[q] = msg[q] /\ result'[q] = result[q]
               /\ result'[r] # "cached" /\ Lost(r)'
    BY DEF NothingStored
  <2>0. /\ \A k \in IdemKey : idem[k] = NULL
        /\ result[r] # "cached" /\ Lost(r)
    BY DEF NothingStored
  <2> USE <1>0, <2>0 DEF Goto, Return
  <2>1. CASE Send(r)
    BY <2>1 DEF Send, redis, NotYetSent
  <2>2. CASE RefuseBusy(r) \/ RefuseCircuitOpen(r) \/ AcquireLock(r) \/ AcquireFails(r)
    BY <2>2 DEF RefuseBusy, RefuseCircuitOpen, Refuse, AcquireLock, AcquireFails, redis
  <2>3. CASE IdempotencyHit(r)
    BY <2>3 DEF IdempotencyHit, Cached, Message
  <2>4. CASE NormalPath(r) \/ FastPath(r)
    BY <2>4 DEF NormalPath, FastPath, redis
  <2>5. CASE SaveFirst(r) \/ SaveFirstFails(r)
    BY <2>5 DEF SaveFirst, SaveFirstFails
  <2>6. CASE ResolveExisting(r) \/ ResolveNew(r) \/ CreateSession(r)
    BY <2>6 DEF ResolveExisting, ResolveNew, CreateSession, Resolved, Abort, redis
  <2>7. CASE ContextFails(r)
    BY <2>7 DEF ContextFails, Abort, redis
  <2>8. CASE LoadMemory(r) \/ GenerateSucceeds(r) \/ GenerateFails(r)
    BY <2>8 DEF LoadMemory, GenerateSucceeds, GenerateFails, redis
  <2>9. CASE PersistFallback(r) \/ Persist(r) \/ PersistFails(r)
    BY <2>9 DEF PersistFallback, Persist, PersistFails, redis
  <2>10. CASE PersistInteraction(r) \/ SaveLast(r)
    BY <2>10 DEF PersistInteraction, SaveLast, redis
  <2>11. CASE Release(r) \/ Unlock(r) \/ ReleaseByGet(r) \/ ReleaseFails(r)
    BY <2>11 DEF Release, Unlock, ReleaseByGet, ReleaseFails, Finish, redis
  <2>12. CASE Crash(r)
    BY <2>12 DEF Crash, redis
  <2> QED
    BY <1>2, <2>1, <2>2, <2>3, <2>4, <2>5, <2>6, <2>7, <2>8, <2>9, <2>10, <2>11, <2>12
       DEF Step, Environment
<1> QED
  BY <1>1, <1>2 DEF Next, ExpireLock, vars, state, redis

THEOREM NothingStoredAsShipped == ASSUME ResponseEncodes = FALSE PROVE Spec => []NothingStored
<1>1. Init => NothingStored /\ NotYetSent /\ AnsweredInv
  BY NullAssumption DEF Init, NothingStored, NotYetSent, AnsweredInv
<1> QED
  BY <1>1, NextNothingStored, NextNotYetSent, NextAnsweredInv, InitTypeInv, NextTypeInv, PTL DEF Spec
=============================================================================
