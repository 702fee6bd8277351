------------------------- MODULE ConversationProofs -------------------------
(***************************************************************************)
(* What the locks are for: the turns of a conversation.  Proved of         *)
(* ChatPipeline for any number of requests, users, sessions and failures.  *)
(***************************************************************************)
EXTENDS ChatPipelineProofs

\* Request r has a turn in some conversation.
HasTurn(r) == \E s \in Session : \E i \in DOMAIN turns[s] : turns[s][i].req = r

\* The steps that come before a request writes, and the ones after.
Before == {"unsent", "start", "idempotency", "save_first", "resolve", "create", "load",
           "generate", "fallback", "persist"}
Writing == {"load", "generate", "fallback", "persist"}

\* A request writes once, before these steps.
WritesOnce == \A r \in Req : HasTurn(r) => pc[r] \notin Before

\* It writes to a session with a row of its user.
WritesToOwn ==
  \A r \in Req :
    /\ pc[r] \in Writing => sid[r] \in Session /\ rows[sid[r]] = msg[r].user
    /\ pc[r] = "create" => sid[r] \in Session

\* A request that has not left the idempotency check is not answered; nobody has
\* seen its own answer.
Early == {"unsent", "start", "idempotency", "save_first"}
NotYetAnswered ==
  \A r \in Req : /\ pc[r] \in Early => r \notin answered
                 /\ r \notin seen[r] /\ seen[r] \subseteq answered

\* Who writes with an answer out has answered "ok"; who has written has an answer.
Outcome ==
  \A r \in Req :
    /\ pc[r] \in {"resolve", "create"} /\ r \in answered => result[r] = "ok"
    /\ pc[r] = "persist" => result[r] = "ok"
    /\ faults = 0 /\ HasTurn(r) => result[r] \in {"ok", "fallback"}

ConvInv == WritesOnce /\ WritesToOwn /\ NotYetAnswered /\ Outcome /\ TurnsBelongToOwner

-----------------------------------------------------------------------------
LEMMA TurnFacts ==
  ASSUME TypeInv, NEW s \in Session, NEW i \in DOMAIN turns[s]
  PROVE  turns[s][i] \in Turn /\ turns[s][i].req \in Req /\ i \in 1..Len(turns[s])
<1>1. turns[s] \in Seq(Turn)
  BY DEF TypeInv, TypeOK
<1>2. i \in 1..Len(turns[s])
  BY <1>1
<1>3. turns[s][i] \in Turn
  BY <1>1, <1>2
<1> QED
  BY <1>2, <1>3 DEF Turn

\* A session with a turn has a row.
LEMMA TurnHasRow ==
  ASSUME TypeInv, ConvInv, NEW s \in Session, NEW i \in DOMAIN turns[s]
  PROVE  /\ rows[s] # NULL /\ pc[turns[s][i].req] # "unsent" /\ turns[s][i].req \in Req
         /\ HasTurn(turns[s][i].req)
<1>1. turns[s][i].req \in Req
  BY TurnFacts
<1>2. HasTurn(turns[s][i].req)
  BY DEF HasTurn
<1>3. pc[turns[s][i].req] # "unsent"
  BY <1>1, <1>2 DEF ConvInv, WritesOnce, Before
<1>4. msg[turns[s][i].req].user \in User
  BY <1>1, <1>3 DEF TypeInv, SentHasMessage, Message
<1>5. rows[s] = msg[turns[s][i].req].user
  BY DEF ConvInv, TurnsBelongToOwner
<1> QED
  BY <1>1, <1>2, <1>3, <1>4, <1>5, NullAssumption

\* What one more turn makes of the conversations.
LEMMA Recorded ==
  ASSUME TypeInv, NEW r \in Req, NEW status, sid[r] \in Session, Record(r, status)
  PROVE  /\ turns'[sid[r]] = Append(turns[sid[r]], [req |-> r, status |-> status])
         /\ \A s \in Session : s # sid[r] => turns'[s] = turns[s]
         /\ Len(turns'[sid[r]]) = Len(turns[sid[r]]) + 1
         /\ DOMAIN turns[sid[r]] = 1..Len(turns[sid[r]])
         /\ DOMAIN turns'[sid[r]] = 1..(Len(turns[sid[r]]) + 1)
         /\ \A i \in DOMAIN turns[sid[r]] : turns'[sid[r]][i] = turns[sid[r]][i]
         /\ turns'[sid[r]][Len(turns[sid[r]]) + 1].req = r
         /\ \A q \in Req : HasTurn(q)' <=> q = r \/ HasTurn(q)
<1> DEFINE t == [req |-> r, status |-> status]
           n == Len(turns[sid[r]])
<1>1. turns[sid[r]] \in Seq(Turn) /\ turns \in [Session -> Seq(Turn)]
  BY DEF TypeInv, TypeOK
<1>2. turns' = [turns EXCEPT ![sid[r]] = Append(@, t)]
  BY DEF Record
<1>3. turns'[sid[r]] = Append(turns[sid[r]], t) /\ \A s \in Session : s # sid[r] => turns'[s] = turns[s]
  BY <1>1, <1>2
<1>4. /\ n \in Nat /\ DOMAIN turns[sid[r]] = 1..n /\ Len(turns'[sid[r]]) = n + 1
      /\ DOMAIN turns'[sid[r]] = 1..(n + 1)
      /\ \A i \in 1..n : turns'[sid[r]][i] = turns[sid[r]][i]
      /\ turns'[sid[r]][n + 1] = t
  BY <1>1, <1>3
<1>5. turns'[sid[r]][n + 1].req = r
  BY <1>4
<1>6. ASSUME NEW q \in Req PROVE HasTurn(q)' <=> q = r \/ HasTurn(q)
  <2>1. ASSUME HasTurn(q)' PROVE q = r \/ HasTurn(q)
    <3>1. PICK s \in Session : \E i \in DOMAIN turns'[s] : turns'[s][i].req = q
      BY <2>1 DEF HasTurn
    <3>2. CASE s # sid[r]
      BY <1>3, <3>1, <3>2 DEF HasTurn
    <3>3. CASE s = sid[r]
      <4>1. PICK i \in 1..(n + 1) : turns'[sid[r]][i].req = q
        BY <1>4, <3>1, <3>3
      <4>2. CASE i = n + 1
        BY <1>5, <4>1, <4>2
      <4>3. CASE i \in 1..n
        BY <1>4, <4>1, <4>3 DEF HasTurn
      <4> QED
        BY <1>4, <4>2, <4>3
    <3> QED
      BY <3>2, <3>3
  <2>2. ASSUME q = r PROVE HasTurn(q)'
    BY <1>4, <1>5, <2>2 DEF HasTurn
  <2>3. ASSUME HasTurn(q) PROVE HasTurn(q)'
    <3>1. PICK s \in Session : \E i \in DOMAIN turns[s] : turns[s][i].req = q
      BY <2>3 DEF HasTurn
    <3>2. CASE s # sid[r]
      BY <1>3, <3>1, <3>2 DEF HasTurn
    <3>3. CASE s = sid[r]
      <4>1. PICK i \in 1..n : turns[sid[r]][i].req = q
        BY <1>4, <3>1, <3>3
      <4>2. i \in DOMAIN turns'[sid[r]] /\ turns'[sid[r]][i].req = q
        BY <1>4, <4>1
      <4> QED
        BY <4>2 DEF HasTurn
    <3> QED
      BY <3>2, <3>3
  <2> QED
    BY <2>1, <2>2, <2>3
<1> QED
  BY <1>3, <1>4, <1>5, <1>6

-----------------------------------------------------------------------------
(***************************************************************************)
(* Owners and outcomes                                                     *)
(***************************************************************************)

\* Request r moves and writes no turn.
LEMMA MovesOn ==
  ASSUME TypeInv, ConvInv, NEW r \in Req, NEW step, pc' = [pc EXCEPT ![r] = step],
         msg' = msg, seen' = seen, turns' = turns, faults' = 0 => faults = 0,
         \A q \in Req : q # r => sid'[q] = sid[q] /\ result'[q] = result[q],
         answered' = answered \/ answered' = answered \cup {r},
         \A s \in Session : rows[s] # NULL => rows'[s] = rows[s],
         step \in Before => pc[r] \in Before,
         step \in Writing => sid'[r] \in Session /\ rows'[sid'[r]] = msg[r].user,
         step = "create" => sid'[r] \in Session,
         step \notin {"unsent", "start"}, step \in Early => r \notin answered',
         step \in {"resolve", "create"} /\ r \in answered' => result'[r] = "ok",
         step = "persist" => result'[r] = "ok",
         pc[r] \notin Before /\ faults' = 0 => result'[r] = result[r]
  PROVE  ConvInv'
<1>1. pc \in [Req -> Steps]
  BY DEF TypeInv, TypeOK
<1>2. pc'[r] = step /\ \A q \in Req : q # r => pc'[q] = pc[q]
  BY <1>1
<1>3. \A q \in Req : HasTurn(q)' <=> HasTurn(q)
  BY DEF HasTurn
<1>4. WritesOnce'
  BY <1>2, <1>3 DEF ConvInv, WritesOnce
<1>5. WritesToOwn'
  <2>1. ASSUME NEW q \in Req, q # r, pc[q] \in Writing PROVE rows'[sid[q]] = msg[q].user
    <3>1. sid[q] \in Session /\ rows[sid[q]] = msg[q].user
      BY <2>1 DEF ConvInv, WritesToOwn
    <3>2. msg[q].user # NULL
      BY <2>1, NullAssumption DEF TypeInv, SentHasMessage, Message, Writing
    <3> QED
      BY <3>1, <3>2
  <2> QED
    BY <1>2, <2>1 DEF ConvInv, WritesToOwn
<1>6. NotYetAnswered'
  BY <1>2 DEF ConvInv, NotYetAnswered
<1>7. Outcome'
  <2>1. ASSUME NEW q \in Req
        PROVE  /\ pc'[q] \in {"resolve", "create"} /\ q \in answered' => result'[q] = "ok"
               /\ pc'[q] = "persist" => result'[q] = "ok"
               /\ faults' = 0 /\ HasTurn(q) => result'[q] \in {"ok", "fallback"}
    <3>1. CASE q # r
      BY <1>2, <3>1 DEF ConvInv, Outcome
    <3>2. CASE q = r
      <4>1. faults' = 0 /\ HasTurn(r) => result'[r] \in {"ok", "fallback"}
        BY DEF ConvInv, WritesOnce, Outcome
      <4> QED
        BY <1>2, <3>2, <4>1
    <3> QED
      BY <3>1, <3>2
  <2> QED
    BY <1>3, <2>1 DEF Outcome
<1>8. TurnsBelongToOwner'
  <2>1. ASSUME NEW s \in Session, NEW i \in DOMAIN turns[s] PROVE msg[turns[s][i].req].user = rows'[s]
    BY TurnHasRow DEF ConvInv, TurnsBelongToOwner
  <2> QED
    BY <2>1 DEF TurnsBelongToOwner
<1> QED
  BY <1>4, <1>5, <1>6, <1>7, <1>8 DEF ConvInv

\* Request r writes its turn.
LEMMA Writes ==
  ASSUME TypeInv, ConvInv, NEW r \in Req, NEW status, pc[r] \in Writing, Record(r, status),
         NEW step, step \notin Before, pc' = [pc EXCEPT ![r] = step],
         msg' = msg, seen' = seen, sid' = sid, answered' = answered, rows' = rows,
         faults' = 0 => faults = 0,
         \A q \in Req : q # r => result'[q] = result[q],
         result'[r] \in {"ok", "fallback"}
  PROVE  ConvInv'
<1>1. pc \in [Req -> Steps]
  BY DEF TypeInv, TypeOK
<1>2. pc'[r] = step /\ \A q \in Req : q # r => pc'[q] = pc[q]
  BY <1>1
<1>3. sid[r] \in Session /\ rows[sid[r]] = msg[r].user
  BY DEF ConvInv, WritesToOwn
<1>4. \A q \in Req : HasTurn(q)' <=> q = r \/ HasTurn(q)
  BY <1>3, Recorded
<1>5. WritesOnce'
  BY <1>2, <1>4 DEF ConvInv, WritesOnce
<1>6. WritesToOwn'
  BY <1>2 DEF ConvInv, WritesToOwn, Before, Writing
<1>7. NotYetAnswered'
  BY <1>2 DEF ConvInv, NotYetAnswered, Before, Early
<1>8. Outcome'
  BY <1>2, <1>4 DEF ConvInv, Outcome, Before
<1>9. TurnsBelongToOwner'
  <2> DEFINE n == Len(turns[sid[r]])
  <2>0. /\ \A s \in Session : s # sid[r] => turns'[s] = turns[s]
        /\ DOMAIN turns[sid[r]] = 1..n /\ DOMAIN turns'[sid[r]] = 1..(n + 1)
        /\ \A i \in 1..n : turns'[sid[r]][i] = turns[sid[r]][i]
        /\ turns'[sid[r]][n + 1].req = r
    BY <1>3, Recorded
  <2>n. n \in Nat
    <3>1. turns[sid[r]] \in Seq(Turn)
      BY <1>3 DEF TypeInv, TypeOK
    <3> QED
      BY <3>1
  <2>1. ASSUME NEW s \in Session, NEW i \in DOMAIN turns'[s]
        PROVE  msg[turns'[s][i].req].user = rows[s]
    <3>1. CASE s # sid[r]
      <4>1. turns'[s] = turns[s]
        BY <2>0, <3>1
      <4>2. i \in DOMAIN turns[s] /\ turns'[s][i] = turns[s][i]
        BY <2>1, <4>1
      <4> QED
        BY <4>2 DEF ConvInv, TurnsBelongToOwner
    <3>2. CASE s = sid[r]
      <4>1. i \in 1..(n + 1)
        BY <2>0, <2>1, <3>2
      <4>2. CASE i = n + 1
        <5>1. turns'[sid[r]][i].req = r
          BY <2>0, <4>2
        <5> QED
          BY <1>3, <3>2, <5>1
      <4>3. CASE i \in 1..n
        <5>1. i \in DOMAIN turns[sid[r]] /\ turns'[sid[r]][i] = turns[sid[r]][i]
          BY <2>0, <4>3
        <5> QED
          BY <1>3, <3>2, <5>1 DEF ConvInv, TurnsBelongToOwner
      <4> QED
        BY <2>n, <4>1, <4>2, <4>3
    <3> QED
      BY <3>1, <3>2
  <2> QED
    BY <2>1 DEF TurnsBelongToOwner
<1> QED
  BY <1>5, <1>6, <1>7, <1>8, <1>9 DEF ConvInv

\* What the steps of a request before generation find of its session.
LEMMA HeldFacts ==
  ASSUME TypeInv, ConvInv, NEW r \in Req, pc[r] # "unsent"
  PROVE  /\ msg[r] \in Message /\ msg[r].user \in User /\ msg[r].user # NULL
         /\ sid[r] \in Session \cup {NULL} /\ msg[r].session \in Session \cup {NULL}
         /\ pc[r] \in Writing => sid[r] \in Session /\ rows[sid[r]] = msg[r].user
         /\ pc[r] = "create" => sid[r] \in Session
         /\ pc[r] \in {"resolve", "create"} /\ r \in answered => result[r] = "ok"
         /\ pc[r] = "persist" => result[r] = "ok"
         /\ faults \in Nat
  BY NullAssumption, ConstantsAssumption DEF TypeInv, TypeOK, SentHasMessage, Message, ConvInv, WritesToOwn, Outcome

LEMMA InitConvInv == Init => ConvInv
<1> SUFFICES ASSUME Init PROVE ConvInv
  OBVIOUS
<1>1. \A r \in Req : ~HasTurn(r)
  BY DEF Init, HasTurn
<1>2. WritesOnce /\ WritesToOwn /\ NotYetAnswered
  BY <1>1 DEF Init, WritesOnce, WritesToOwn, NotYetAnswered, Writing
<1>3. Outcome /\ TurnsBelongToOwner
  BY <1>1 DEF Init, Outcome, TurnsBelongToOwner
<1> QED
  BY <1>2, <1>3 DEF ConvInv

LEMMA SendConvInv == ASSUME TypeInv, ConvInv, NEW r \in Req, Send(r) PROVE ConvInv'
<1>1. pc \in [Req -> Steps] /\ msg \in [Req -> Message \cup {NULL}] /\ seen \in [Req -> SUBSET Req]
  BY DEF TypeInv, TypeOK
<1>2. /\ pc[r] = "unsent" /\ pc'[r] = "start" /\ seen'[r] = answered
      /\ \A q \in Req : q # r => pc'[q] = pc[q] /\ msg'[q] = msg[q] /\ seen'[q] = seen[q]
      /\ sid' = sid /\ result' = result /\ answered' = answered /\ turns' = turns
      /\ rows' = rows /\ faults' = faults
  BY <1>1 DEF Send, Goto, db, env
<1>3. \A q \in Req : HasTurn(q)' <=> HasTurn(q)
  BY <1>2 DEF HasTurn
<1>4. ~HasTurn(r) /\ r \notin answered
  BY <1>2 DEF ConvInv, WritesOnce, NotYetAnswered, Before, Early
<1>5. WritesOnce' /\ WritesToOwn'
  BY <1>2, <1>3, <1>4 DEF ConvInv, WritesOnce, WritesToOwn, Writing
<1>6. NotYetAnswered'
  BY <1>2, <1>4 DEF ConvInv, NotYetAnswered
<1>7. Outcome'
  BY <1>2, <1>3, <1>4 DEF ConvInv, Outcome
<1>8. TurnsBelongToOwner'
  <2>1. ASSUME NEW s \in Session, NEW i \in DOMAIN turns[s] PROVE msg'[turns[s][i].req].user = rows[s]
    <3>1. turns[s][i].req # r /\ turns[s][i].req \in Req
      BY <1>2, TurnHasRow
    <3> QED
      BY <1>2, <3>1 DEF ConvInv, TurnsBelongToOwner
  <2> QED
    BY <1>2, <2>1 DEF TurnsBelongToOwner
<1> QED
  BY <1>5, <1>6, <1>7, <1>8 DEF ConvInv

\* Admission, release and failure: a request that neither resolves nor writes.
LEMMA PlainConvInv ==
  ASSUME TypeInv, ConvInv, NEW r \in Req,
         \/ RefuseBusy(r) \/ RefuseCircuitOpen(r) \/ AcquireLock(r) \/ AcquireFails(r)
         \/ IdempotencyHit(r) \/ NormalPath(r) \/ SaveFirstFails(r) \/ PersistInteraction(r)
         \/ SaveLast(r) \/ Release(r) \/ Unlock(r) \/ ReleaseByGet(r) \/ ReleaseFails(r) \/ Crash(r)
  PROVE  ConvInv'
<1> DEFINE step == pc'[r]
<1>0. /\ pc \in [Req -> Steps] /\ result \in [Req -> Results] /\ faults \in Nat
  BY ConstantsAssumption DEF TypeInv, TypeOK
<1>1. /\ msg' = msg /\ seen' = seen /\ turns' = turns /\ sid' = sid /\ rows' = rows
      /\ answered' = answered \/ answered' = answered \cup {r}
      /\ faults' = faults \/ faults' = faults + 1
  BY DEF RefuseBusy, RefuseCircuitOpen, Refuse, AcquireLock, AcquireFails, IdempotencyHit, NormalPath,
     SaveFirstFails, PersistInteraction, SaveLast, Release, Unlock, ReleaseByGet, ReleaseFails, Crash,
     Finish, Answer, db, env
<1>2. /\ pc' = [pc EXCEPT ![r] = step]
      /\ step \in {"idempotency", "resolve", "save_last", "release", "unlock", "done", "dead"}
      /\ step = "idempotency" => pc[r] = "start"
      /\ step = "resolve" => pc[r] = "idempotency"
  BY <1>0 DEF RefuseBusy, RefuseCircuitOpen, Refuse, AcquireLock, AcquireFails, IdempotencyHit, NormalPath,
     SaveFirstFails, PersistInteraction, SaveLast, Release, Unlock, ReleaseByGet, ReleaseFails, Crash,
     Finish, Goto
<1>3. /\ \A q \in Req : q # r => result'[q] = result[q]
      /\ pc[r] \notin Before /\ faults' = 0 => result'[r] = result[r]
  BY <1>0 DEF RefuseBusy, RefuseCircuitOpen, Refuse, AcquireLock, AcquireFails, IdempotencyHit, NormalPath,
     SaveFirstFails, PersistInteraction, SaveLast, Release, Unlock, ReleaseByGet, ReleaseFails, Crash,
     Return, Before
<1>4. step \in {"idempotency", "resolve"} => r \notin answered'
  <2>1. step \in {"idempotency", "resolve"} => answered' = answered
    BY <1>0 DEF RefuseBusy, RefuseCircuitOpen, Refuse, AcquireLock, AcquireFails, IdempotencyHit, NormalPath,
       SaveFirstFails, PersistInteraction, SaveLast, Release, Unlock, ReleaseByGet, ReleaseFails, Crash,
       Finish, Goto
  <2> QED
    BY <1>2, <2>1 DEF ConvInv, NotYetAnswered, Early
<1> QED
  BY <1>0, <1>1, <1>2, <1>3, <1>4, MovesOn DEF Before, Writing, Early

\* An exception, or an answer from the cache: the request goes to the release.
LEMMA Aborts ==
  ASSUME TypeInv, ConvInv, NEW r \in Req, pc' = [pc EXCEPT ![r] = "release"], pc[r] \in Before,
         msg' = msg, seen' = seen, turns' = turns, answered' = answered, faults' = 0 => faults = 0,
         \A q \in Req : q # r => sid'[q] = sid[q] /\ result'[q] = result[q],
         \A s \in Session : rows[s] # NULL => rows'[s] = rows[s]
  PROVE  ConvInv'
<1>1. "release" \notin Before \cup Writing \cup Early \cup {"unsent", "start", "resolve", "create", "persist"}
  BY DEF Before, Writing, Early
<1> QED
  BY <1>1, MovesOn

\* Resolution, creation and generation.
LEMMA ResolveConvInv ==
  ASSUME TypeInv, ConvInv, NEW r \in Req,
         \/ FastPath(r) \/ SaveFirst(r) \/ ResolveExisting(r) \/ ResolveNew(r)
  PROVE  ConvInv'
<1> DEFINE step == pc'[r]
<1>0. /\ pc \in [Req -> Steps] /\ result \in [Req -> Results] /\ sid \in [Req -> Session \cup {NULL}]
      /\ faults \in Nat /\ pc[r] # "unsent"
  BY ConstantsAssumption DEF TypeInv, TypeOK, FastPath, SaveFirst, ResolveExisting, ResolveNew
<1>1. /\ msg' = msg /\ seen' = seen /\ turns' = turns /\ rows' = rows /\ faults' = faults
      /\ answered' = answered \/ answered' = answered \cup {r}
      /\ \A q \in Req : q # r => sid'[q] = sid[q]
      /\ pc[r] \in Before
  BY <1>0 DEF FastPath, SaveFirst, ResolveExisting, ResolveNew, Answer, db, env, Before
<1>2. \A q \in Req : q # r => result'[q] = result[q]
  BY <1>0 DEF FastPath, SaveFirst, ResolveExisting, ResolveNew, Abort, Return
<1>3. CASE FastPath(r)
  <2>1. \/ /\ pc' = [pc EXCEPT ![r] = "resolve"] /\ result'[r] = "ok"
        \/ /\ pc' = [pc EXCEPT ![r] = "save_first"] /\ answered' = answered
    BY <1>0, <1>3 DEF FastPath, Goto, Return
  <2>2. r \notin answered
    BY <1>3 DEF FastPath, ConvInv, NotYetAnswered, Early
  <2> QED
    BY <1>0, <1>1, <1>2, <2>1, <2>2, MovesOn DEF Before, Writing, Early
<1>4. CASE SaveFirst(r)
  <2>1. pc' = [pc EXCEPT ![r] = "resolve"] /\ result'[r] = "ok"
    BY <1>0, <1>4 DEF SaveFirst, Goto, Return
  <2> QED
    BY <1>0, <1>1, <1>2, <2>1, MovesOn DEF Before, Writing, Early
<1>5. CASE ResolveExisting(r)
  <2>1. PICK x \in Session : /\ sid'[r] = x
          /\ IF rows[x] = NULL THEN Goto(r, "create") /\ UNCHANGED result
             ELSE IF rows[x] = msg[r].user THEN Resolved(r) /\ UNCHANGED result
             ELSE Abort(r)
    BY <1>0, <1>5, HeldFacts DEF ResolveExisting
  <2>2. pc[r] = "resolve" /\ answered' = answered
    BY <1>5 DEF ResolveExisting
  <2>3. CASE rows[x] = NULL
    <3>1. pc' = [pc EXCEPT ![r] = "create"] /\ result' = result
      BY <2>1, <2>3 DEF Goto
    <3>2. r \in answered => result[r] = "ok"
      BY <1>0, <2>2, HeldFacts
    <3> QED
      BY <1>0, <1>1, <1>2, <2>1, <2>2, <3>1, <3>2, MovesOn DEF Before, Writing, Early
  <2>4. CASE rows[x] # NULL /\ rows[x] = msg[r].user
    <3>1. result' = result /\ Resolved(r)
      BY <2>1, <2>4
    <3>2. \/ pc' = [pc EXCEPT ![r] = "load"]
          \/ pc' = [pc EXCEPT ![r] = "persist"] /\ r \in answered
      BY <3>1 DEF Resolved, Goto, InBackground
    <3>3. r \in answered => result[r] = "ok"
      BY <1>0, <2>2, HeldFacts
    <3>4. sid'[r] \in Session /\ rows'[sid'[r]] = msg[r].user
      BY <1>1, <2>1, <2>4
    <3> QED
      BY <1>0, <1>1, <1>2, <2>2, <3>1, <3>2, <3>3, <3>4, MovesOn DEF Before, Early
  <2>5. CASE rows[x] # NULL /\ rows[x] # msg[r].user
    <3>1. pc' = [pc EXCEPT ![r] = "release"]
      BY <2>1, <2>5 DEF Abort, Goto
    <3> QED
      BY <1>0, <1>1, <1>2, <2>2, <3>1, Aborts
  <2> QED
    BY <2>3, <2>4, <2>5
<1>6. CASE ResolveNew(r)
  <2>1. PICK x \in Session : sid'[r] = x
    BY <1>0, <1>6 DEF ResolveNew, FreshSessions
  <2>2. pc' = [pc EXCEPT ![r] = "create"] /\ result' = result /\ answered' = answered /\ pc[r] = "resolve"
    BY <1>6 DEF ResolveNew, Goto
  <2>3. r \in answered => result[r] = "ok"
    BY <1>0, <2>2, HeldFacts
  <2> QED
    BY <1>0, <1>1, <1>2, <2>1, <2>2, <2>3, MovesOn DEF Before, Writing, Early
<1> QED
  BY <1>3, <1>4, <1>5, <1>6

LEMMA CreateConvInv ==
  ASSUME TypeInv, ConvInv, NEW r \in Req, CreateSession(r) \/ ContextFails(r) PROVE ConvInv'
<1>0. /\ pc \in [Req -> Steps] /\ result \in [Req -> Results] /\ rows \in [Session -> User \cup {NULL}]
      /\ faults \in Nat /\ pc[r] # "unsent"
  BY ConstantsAssumption DEF TypeInv, TypeOK, CreateSession, ContextFails
<1>1. /\ msg' = msg /\ seen' = seen /\ turns' = turns /\ sid' = sid /\ answered' = answered
      /\ faults' = faults \/ faults' = faults + 1
      /\ pc[r] \in Before
  BY DEF CreateSession, ContextFails, Before, env
<1>2. \A q \in Req : q # r => result'[q] = result[q]
  BY <1>0 DEF CreateSession, ContextFails, Abort, Return
<1>3. \A s \in Session : rows[s] # NULL => rows'[s] = rows[s]
  BY <1>0 DEF CreateSession, ContextFails
<1>4. CASE pc' = [pc EXCEPT ![r] = "release"]
  <2>1. faults' = 0 => faults = 0
    BY <1>0, <1>1
  <2>2. \A q \in Req : q # r => sid'[q] = sid[q] /\ result'[q] = result[q]
    BY <1>1, <1>2
  <2>3. msg' = msg /\ seen' = seen /\ turns' = turns /\ answered' = answered /\ pc[r] \in Before
    BY <1>1
  <2> QED
    BY <1>3, <1>4, <2>1, <2>2, <2>3, Aborts
<1>5. CASE CreateSession(r) /\ rows[sid[r]] = NULL
  <2>1. pc[r] = "create" /\ sid[r] \in Session
    BY <1>0, <1>5, HeldFacts DEF CreateSession
  <2>2. rows'[sid[r]] = msg[r].user /\ result' = result /\ Resolved(r)
    BY <1>0, <1>5, <2>1 DEF CreateSession
  <2>3. \/ pc' = [pc EXCEPT ![r] = "load"]
        \/ pc' = [pc EXCEPT ![r] = "persist"] /\ r \in answered
    BY <2>2 DEF Resolved, Goto, InBackground
  <2>4. r \in answered => result[r] = "ok"
    BY <1>0, <2>1, HeldFacts
  <2> QED
    BY <1>0, <1>1, <1>2, <1>3, <2>1, <2>2, <2>3, <2>4, MovesOn DEF Before, Early
<1> QED
  BY <1>4, <1>5 DEF CreateSession, ContextFails, Abort, Goto

LEMMA GenerateConvInv ==
  ASSUME TypeInv, ConvInv, NEW r \in Req, LoadMemory(r) \/ GenerateSucceeds(r) \/ GenerateFails(r)
  PROVE  ConvInv'
<1>0. /\ pc \in [Req -> Steps] /\ result \in [Req -> Results] /\ faults \in Nat /\ pc[r] # "unsent"
  BY ConstantsAssumption DEF TypeInv, TypeOK, LoadMemory, GenerateSucceeds, GenerateFails
<1>1. /\ msg' = msg /\ seen' = seen /\ turns' = turns /\ sid' = sid /\ rows' = rows /\ faults' = faults
      /\ answered' = answered \/ answered' = answered \cup {r}
      /\ pc[r] \in {"load", "generate"}
  BY DEF LoadMemory, GenerateSucceeds, GenerateFails, Answer, db, env
<1>2. \A q \in Req : q # r => result'[q] = result[q]
  BY <1>0 DEF LoadMemory, GenerateSucceeds, GenerateFails, Return
<1>3. sid[r] \in Session /\ rows[sid[r]] = msg[r].user
  BY <1>0, <1>1, HeldFacts DEF Writing
<1>4. \/ pc' = [pc EXCEPT ![r] = "generate"] \/ pc' = [pc EXCEPT ![r] = "fallback"]
      \/ pc' = [pc EXCEPT ![r] = "persist"] /\ result'[r] = "ok"
  BY <1>0 DEF LoadMemory, GenerateSucceeds, GenerateFails, Goto, Return
<1> QED
  BY <1>0, <1>1, <1>2, <1>3, <1>4, MovesOn DEF Before, Early

LEMMA PersistConvInv ==
  ASSUME TypeInv, ConvInv, NEW r \in Req, PersistFallback(r) \/ Persist(r) \/ PersistFails(r)
  PROVE  ConvInv'
<1> DEFINE step == pc'[r]
<1>0. /\ pc \in [Req -> Steps] /\ result \in [Req -> Results] /\ faults \in Nat /\ pc[r] # "unsent"
  BY ConstantsAssumption DEF TypeInv, TypeOK, PersistFallback, Persist, PersistFails
<1>1. /\ msg' = msg /\ seen' = seen /\ sid' = sid /\ rows' = rows /\ answered' = answered
      /\ faults' = faults \/ faults' = faults + 1
      /\ pc[r] \in {"fallback", "persist"}
      /\ \/ turns' = turns
         \/ Record(r, "failed") \/ Record(r, "answered")
  BY DEF PersistFallback, Persist, PersistFails, env
<1>2. /\ \A q \in Req : q # r => result'[q] = result[q]
      /\ pc' = [pc EXCEPT ![r] = step] /\ step \in {"release", "memory"}
  BY <1>0 DEF PersistFallback, Persist, PersistFails, Return, Goto
<1>3. result'[r] \in {"ok", "fallback"}
  <2>1. pc[r] = "persist" => result[r] = "ok"
    BY <1>0, HeldFacts
  <2> QED
    BY <1>0, <2>1 DEF PersistFallback, Persist, PersistFails, Return
<1>4. CASE turns' = turns
  BY <1>0, <1>1, <1>2, <1>4, MovesOn DEF Before, Writing, Early
<1>5. ASSUME NEW status, Record(r, status) PROVE ConvInv'
  BY <1>0, <1>1, <1>2, <1>3, <1>5, Writes DEF Before, Writing
<1> QED
  BY <1>1, <1>4, <1>5

LEMMA NextConvInv == TypeInv /\ ConvInv /\ [Next]_vars => ConvInv'
<1> SUFFICES ASSUME TypeInv, ConvInv, [Next]_vars PROVE ConvInv'
  OBVIOUS
<1>1. ASSUME UNCHANGED <<state, db, faults>> PROVE ConvInv'
  BY <1>1 DEF state, db, ConvInv, WritesOnce, WritesToOwn, NotYetAnswered, Outcome, TurnsBelongToOwner, HasTurn
<1>2. ASSUME NEW r \in Req, Step(r) PROVE ConvInv'
  BY <1>2, PlainConvInv, ResolveConvInv, CreateConvInv, GenerateConvInv, PersistConvInv DEF Step
<1>3. ASSUME NEW r \in Req, Environment(r) PROVE ConvInv'
  BY <1>3, SendConvInv, PlainConvInv, CreateConvInv, PersistConvInv DEF Environment
<1>4. ASSUME NEW k \in LockKey, ExpireLock(k) PROVE ConvInv'
  BY <1>1, <1>4 DEF ExpireLock
<1> QED
  BY <1>1, <1>2, <1>3, <1>4 DEF Next, vars, env

LEMMA ConversationInvariant == Spec => [](TypeInv /\ ConvInv)
  BY InitTypeInv, InitConvInv, NextTypeInv, NextConvInv, PTL DEF Spec

\* Whatever races and fails, a conversation holds turns of its owner only.
THEOREM TurnsBelongToOwnerAlways == Spec => []TurnsBelongToOwner
<1>1. ConvInv => TurnsBelongToOwner
  BY DEF ConvInv
<1> QED
  BY <1>1, ConversationInvariant, PTL

\* A request that was refused, that failed or that was answered from the cache has written nothing.
THEOREM UnansweredLeavesNoTurnAlways == Spec => []UnansweredLeavesNoTurn
<1>1. TypeInv /\ ConvInv => UnansweredLeavesNoTurn
  <2> SUFFICES ASSUME ConvInv, NEW r \in Req, faults = 0,
                      result[r] \in {"refused", "cached", "error"}
               PROVE  TurnsOf(r) = {}
    BY DEF UnansweredLeavesNoTurn
  <2>1. ~HasTurn(r)
    BY DEF ConvInv, Outcome
  <2> QED
    BY <2>1 DEF TurnsOf, HasTurn
<1> QED
  BY <1>1, ConversationInvariant, PTL

-----------------------------------------------------------------------------
(***************************************************************************)
(* Order                                                                   *)
(***************************************************************************)

\* The request names its session, and locks it.
Named(r) == msg[r].session # NULL

\* A request works in the session it names, and writes where it works.
SessionsKept ==
  /\ \A r \in Req : sid[r] # NULL => pc[r] # "unsent" /\ (Named(r) => sid[r] = msg[r].session)
  /\ \A s \in Session : \A i \in DOMAIN turns[s] : sid[turns[s][i].req] = s

\* The session of a new chat is none that a request had named when the chat was sent.
NewChatsAreNew ==
  \A q, r \in Req : r \in seen[q] /\ Named(r) /\ ~Named(q) => sid[q] # msg[r].session

\* While an answered request still holds the lock, no request sent after its answer
\* has written to the session.
FollowersWait ==
  slow = 0 => \A q, r \in Req :
    r \in seen[q] /\ Holding(r) /\ Named(r) /\ pc[q] # "unsent" /\ KeyOf(q) = KeyOf(r)
      => ~HasTurn(q)

\* StrictMessageOrder, for what was answered to a request that named its session.
NamedOrder ==
  slow = 0 => \A s \in Session : \A i, j \in DOMAIN turns[s] :
    i < j /\ Named(turns[s][j].req) => turns[s][j].req \notin seen[turns[s][i].req]

OrderInv == SessionsKept /\ NewChatsAreNew /\ FollowersWait /\ NamedOrder

\* Users and sessions do not collide: who locks a session's key has named it.
LEMMA NamedKeys ==
  ASSUME TypeInv, NEW q \in Req, NEW r \in Req, pc[q] # "unsent", pc[r] # "unsent", Named(r)
  PROVE  /\ KeyOf(r) = msg[r].session /\ msg[r].session \in Session
         /\ KeyOf(q) = KeyOf(r) <=> Named(q) /\ msg[q].session = msg[r].session
<1>1. msg[q] \in Message /\ msg[r] \in Message
  BY DEF TypeInv, SentHasMessage
<1> QED
  BY <1>1, NullAssumption DEF Message, KeyOf, Named

\* Request r moves and writes no turn; it may take the session it names, or a fresh one.
LEMMA OrderMovesOn ==
  ASSUME TypeInv, ConvInv, OrderInv, turns' = turns, seen' = seen, msg' = msg, slow' = 0 => slow = 0,
         \A q \in Req : pc'[q] # "unsent" <=> pc[q] # "unsent",
         \A q \in Req : Holding(q)' => Holding(q) \/ q \notin answered,
         \A q \in Req : \/ sid'[q] = sid[q]
                        \/ /\ pc[q] # "unsent" /\ pc[q] \in Before
                           /\ IF Named(q) THEN sid'[q] = msg[q].session ELSE sid'[q] \in FreshSessions
  PROVE  OrderInv'
<1>1. \A q \in Req : /\ KeyOf(q)' = KeyOf(q) /\ (HasTurn(q)' <=> HasTurn(q))
                     /\ Named(q)' <=> Named(q)
  BY DEF KeyOf, HasTurn, Named
<1>2. SessionsKept'
  <2>1. ASSUME NEW s \in Session, NEW i \in DOMAIN turns[s] PROVE sid'[turns[s][i].req] = s
    <3>1. turns[s][i].req \in Req /\ pc[turns[s][i].req] \notin Before
      BY TurnHasRow DEF ConvInv, WritesOnce
    <3> QED
      BY <3>1 DEF OrderInv, SessionsKept
  <2> QED
    BY <1>1, <2>1 DEF OrderInv, SessionsKept
<1>3. NewChatsAreNew'
  <2> SUFFICES ASSUME NEW q \in Req, NEW r \in Req, r \in seen[q], Named(r), ~Named(q),
                      sid'[q] \in FreshSessions
               PROVE  sid'[q] # msg[r].session
    BY <1>1 DEF OrderInv, NewChatsAreNew
  <2>1. pc[r] # "unsent"
    BY DEF ConvInv, NotYetAnswered, Early
  <2> QED
    BY <2>1 DEF FreshSessions
<1>4. FollowersWait'
  BY <1>1 DEF OrderInv, FollowersWait, ConvInv, NotYetAnswered
<1>5. NamedOrder'
  BY <1>1, TurnHasRow DEF OrderInv, NamedOrder
<1> QED
  BY <1>2, <1>3, <1>4, <1>5 DEF OrderInv

\* Where one more turn stands, and where the others do.
LEMMA OneMoreTurn ==
  ASSUME TypeInv, NEW r \in Req, NEW status, sid[r] \in Session, Record(r, status),
         NEW s \in Session, NEW i \in DOMAIN turns'[s]
  PROVE  \/ s = sid[r] /\ i = Len(turns[sid[r]]) + 1 /\ turns'[s][i].req = r
         \/ /\ i \in DOMAIN turns[s] /\ turns'[s][i] = turns[s][i]
            /\ s = sid[r] => i \in 1..Len(turns[sid[r]])
<1> DEFINE n == Len(turns[sid[r]])
<1>1. /\ s # sid[r] => turns'[s] = turns[s]
      /\ DOMAIN turns[sid[r]] = 1..n /\ DOMAIN turns'[sid[r]] = 1..(n + 1)
      /\ \A j \in 1..n : turns'[sid[r]][j] = turns[sid[r]][j]
      /\ turns'[sid[r]][n + 1].req = r
  BY Recorded
<1>2. n \in Nat
  <2>1. turns[sid[r]] \in Seq(Turn)
    BY DEF TypeInv, TypeOK
  <2> QED
    BY <2>1
<1>3. CASE s # sid[r]
  <2>1. turns'[s] = turns[s]
    BY <1>1, <1>3
  <2> QED
    BY <1>3, <2>1
<1>4. CASE s = sid[r]
  <2>1. i \in 1..(n + 1)
    BY <1>1, <1>4
  <2>2. i = n + 1 \/ i \in 1..n
    BY <1>2, <2>1
  <2> QED
    BY <1>1, <1>4, <2>2
<1> QED
  BY <1>3, <1>4

\* A request writes its turn.
LEMMA OrderWrites ==
  ASSUME TypeInv, LockInv, ConvInv, OrderInv, NEW r \in Req, NEW status, pc[r] \in Writing,
         Record(r, status), pc'[r] # "unsent", \A q \in Req : q # r => pc'[q] = pc[q],
         seen' = seen, msg' = msg, sid' = sid, slow' = slow
  PROVE  OrderInv'
<1> DEFINE n == Len(turns[sid[r]])
<1>1. \A q \in Req : KeyOf(q)' = KeyOf(q) /\ (Named(q)' <=> Named(q))
  BY DEF KeyOf, Named
<1>2. sid[r] \in Session /\ Holding(r) /\ pc[r] # "unsent"
  BY DEF ConvInv, WritesToOwn, Holding, Held, Writing
<1>3. /\ \A s \in Session : s # sid[r] => turns'[s] = turns[s]
      /\ DOMAIN turns[sid[r]] = 1..n /\ DOMAIN turns'[sid[r]] = 1..(n + 1)
      /\ \A i \in 1..n : turns'[sid[r]][i] = turns[sid[r]][i]
      /\ turns'[sid[r]][n + 1].req = r
      /\ \A q \in Req : HasTurn(q)' <=> q = r \/ HasTurn(q)
  BY <1>2, Recorded
<1>4. n \in Nat
  <2>1. turns[sid[r]] \in Seq(Turn)
    BY <1>2 DEF TypeInv, TypeOK
  <2> QED
    BY <2>1
<1>5. \A s \in Session : \A i \in DOMAIN turns[s] : sid[turns[s][i].req] = s
  BY DEF OrderInv, SessionsKept
<1>6. ASSUME NEW s \in Session, NEW i \in DOMAIN turns'[s]
      PROVE  \/ s = sid[r] /\ i = n + 1 /\ turns'[s][i].req = r
             \/ /\ i \in DOMAIN turns[s] /\ turns'[s][i] = turns[s][i]
                /\ s = sid[r] => i \in 1..n
  BY <1>2, <1>6, OneMoreTurn
<1>7. SessionsKept' /\ NewChatsAreNew'
  <2>1. ASSUME NEW s \in Session, NEW i \in DOMAIN turns'[s] PROVE sid'[turns'[s][i].req] = s
    BY <1>5, <1>6
  <2>2. \A q \in Req : pc'[q] # "unsent" <=> pc[q] # "unsent"
    BY <1>2
  <2> QED
    BY <1>1, <2>1, <2>2 DEF OrderInv, SessionsKept, NewChatsAreNew
<1>8. ASSUME slow = 0, NEW q \in Req, q \in seen[r], Holding(q), KeyOf(q) = KeyOf(r) PROVE FALSE
  <2>1. q # r
    BY <1>8 DEF ConvInv, NotYetAnswered
  <2>2. lock[KeyOf(q)] = q /\ lock[KeyOf(r)] = r
    BY <1>2, <1>8 DEF LockInv, HolderOwnsLock
  <2> QED
    BY <1>8, <2>1, <2>2
<1>9. FollowersWait'
  <2> SUFFICES ASSUME slow = 0, NEW p \in Req, NEW q \in Req, q \in seen[p], Holding(q)', Named(q),
                      pc'[p] # "unsent", KeyOf(p) = KeyOf(q)
               PROVE  ~HasTurn(p)'
    BY <1>1 DEF FollowersWait
  <2>1. Holding(q) /\ pc[p] # "unsent"
    BY <1>2 DEF Holding
  <2>2. p # r
    BY <1>8, <2>1
  <2> QED
    BY <1>3, <2>1, <2>2 DEF OrderInv, FollowersWait
<1>10. NamedOrder'
  <2> SUFFICES ASSUME slow = 0, NEW s \in Session, NEW i \in DOMAIN turns'[s], NEW j \in DOMAIN turns'[s],
                      i < j, Named(turns'[s][j].req), turns'[s][j].req \in seen[turns'[s][i].req]
               PROVE  FALSE
    BY DEF NamedOrder, Named
  <2>1. CASE i \in DOMAIN turns[s] /\ turns'[s][i] = turns[s][i] /\ j \in DOMAIN turns[s] /\ turns'[s][j] = turns[s][j]
    BY <2>1 DEF OrderInv, NamedOrder
  <2>2. CASE s = sid[r] /\ i = n + 1
    <3>1. j \in 1..(n + 1)
      BY <1>3, <2>2
    <3> QED
      BY <1>4, <2>2, <3>1
  <2>3. CASE /\ s = sid[r] /\ j = n + 1 /\ turns'[s][j].req = r
             /\ i \in DOMAIN turns[s] /\ turns'[s][i] = turns[s][i]
    <3> DEFINE q == turns[s][i].req
    <3>1. q \in Req /\ HasTurn(q) /\ sid[q] = s /\ pc[q] # "unsent"
      BY <1>5, <2>3, TurnHasRow
    <3>2. r \in seen[q] /\ Named(r)
      BY <2>3
    <3>3. sid[r] = msg[r].session /\ msg[r].session = s
      BY <1>2, <2>3, <3>2, NullAssumption DEF OrderInv, SessionsKept
    <3>4. Named(q) /\ msg[q].session = s
      BY <3>1, <3>2, <3>3, NullAssumption DEF OrderInv, NewChatsAreNew, SessionsKept
    <3>5. KeyOf(q) = KeyOf(r)
      BY <1>2, <3>1, <3>2, <3>3, <3>4, NamedKeys
    <3> QED
      BY <1>2, <3>1, <3>2, <3>5 DEF OrderInv, FollowersWait
  <2> QED
    BY <1>6, <2>1, <2>2, <2>3
<1> QED
  BY <1>7, <1>9, <1>10 DEF OrderInv

LEMMA InitOrderInv == Init => OrderInv
  BY DEF Init, OrderInv, SessionsKept, NewChatsAreNew, FollowersWait, NamedOrder, Holding, Held

LEMMA SendOrderInv == ASSUME TypeInv, ConvInv, OrderInv, NEW r \in Req, Send(r) PROVE OrderInv'
<1>1. pc \in [Req -> Steps] /\ msg \in [Req -> Message \cup {NULL}] /\ seen \in [Req -> SUBSET Req]
  BY DEF TypeInv, TypeOK
<1>2. /\ pc[r] = "unsent" /\ pc'[r] = "start" /\ seen'[r] = answered
      /\ \A q \in Req : q # r => pc'[q] = pc[q] /\ msg'[q] = msg[q] /\ seen'[q] = seen[q]
      /\ sid' = sid /\ turns' = turns /\ slow' = slow
  BY <1>1 DEF Send, Goto, db, env
<1>3. msg'[r] \in Message
  BY <1>1 DEF Send
<1>4. /\ \A q \in Req : HasTurn(q)' <=> HasTurn(q)
      /\ \A q \in Req : q # r => KeyOf(q)' = KeyOf(q) /\ (Named(q)' <=> Named(q)) /\ (Holding(q)' <=> Holding(q))
      /\ ~Holding(r)'
  BY <1>2, <1>3 DEF HasTurn, KeyOf, Named, Holding, Held
<1>5. ~HasTurn(r) /\ sid[r] = NULL /\ r \notin answered /\ \A q \in Req : r \notin seen[q]
  BY <1>2 DEF ConvInv, WritesOnce, NotYetAnswered, Before, Early, OrderInv, SessionsKept
<1>6. ASSUME NEW s \in Session, NEW i \in DOMAIN turns[s] PROVE turns[s][i].req # r /\ turns[s][i].req \in Req
  BY <1>2, TurnHasRow
<1>7. SessionsKept'
  BY <1>2, <1>4, <1>5, <1>6 DEF OrderInv, SessionsKept
<1>8. NewChatsAreNew'
  <2> SUFFICES ASSUME NEW q \in Req, NEW p \in Req, p \in seen'[q], Named(p)', ~Named(q)'
               PROVE  sid[q] # msg'[p].session
    BY <1>2 DEF NewChatsAreNew
  <2>1. p # r
    BY <1>2, <1>5
  <2>2. CASE q = r
    BY <1>5, <2>2 DEF Named
  <2>3. CASE q # r
    BY <1>2, <1>4, <2>1, <2>3 DEF OrderInv, NewChatsAreNew
  <2> QED
    BY <2>2, <2>3
<1>9. FollowersWait'
  BY <1>2, <1>4, <1>5 DEF OrderInv, FollowersWait
<1>10. NamedOrder'
  <2> SUFFICES ASSUME slow = 0, NEW s \in Session, NEW i \in DOMAIN turns[s], NEW j \in DOMAIN turns[s], i < j,
                      Named(turns[s][j].req)'
               PROVE  turns[s][j].req \notin seen'[turns[s][i].req]
    BY <1>2 DEF NamedOrder, Named
  <2>1. seen'[turns[s][i].req] = seen[turns[s][i].req] /\ Named(turns[s][j].req)
    BY <1>2, <1>4, <1>6
  <2> QED
    BY <2>1 DEF OrderInv, NamedOrder
<1> QED
  BY <1>7, <1>8, <1>9, <1>10 DEF OrderInv

\* Every other step of a request is a move: it takes its lock before it is answered,
\* and the session it names or a fresh one.
LEMMA OrderMoves ==
  ASSUME TypeInv, ConvInv, OrderInv, NEW r \in Req,
         Step(r) \/ Environment(r), ~Send(r), turns' = turns
  PROVE  OrderInv'
<1>0. /\ pc \in [Req -> Steps] /\ sid \in [Req -> Session \cup {NULL}]
      /\ Named(r) /\ sid[r] # NULL => sid[r] = msg[r].session
  BY DEF TypeInv, TypeOK, OrderInv, SessionsKept
<1>1. CASE \/ RefuseBusy(r) \/ RefuseCircuitOpen(r) \/ AcquireLock(r) \/ AcquireFails(r)
           \/ IdempotencyHit(r) \/ NormalPath(r) \/ SaveFirst(r) \/ SaveFirstFails(r)
           \/ PersistInteraction(r) \/ SaveLast(r)
  <2>1. /\ msg' = msg /\ seen' = seen /\ sid' = sid /\ slow' = slow
        /\ pc[r] # "unsent" /\ pc'[r] # "unsent" /\ \A q \in Req : q # r => pc'[q] = pc[q]
        /\ pc'[r] \in Held => pc[r] \in Held \/ pc[r] = "start"
    BY <1>0, <1>1 DEF RefuseBusy, RefuseCircuitOpen, Refuse, AcquireLock, AcquireFails, IdempotencyHit,
       NormalPath, SaveFirst, SaveFirstFails, PersistInteraction, SaveLast, Goto, env, Held
  <2>2. pc[r] = "start" => r \notin answered
    BY DEF ConvInv, NotYetAnswered, Early
  <2> QED
    BY <2>1, <2>2, OrderMovesOn DEF Holding
<1>2. CASE \/ CreateSession(r) \/ ContextFails(r) \/ LoadMemory(r) \/ GenerateSucceeds(r)
           \/ GenerateFails(r) \/ PersistFallback(r) \/ Persist(r) \/ PersistFails(r)
           \/ Release(r) \/ Unlock(r) \/ ReleaseByGet(r) \/ ReleaseFails(r) \/ Crash(r)
  <2>1. /\ msg' = msg /\ seen' = seen /\ sid' = sid /\ slow' = slow
        /\ pc[r] # "unsent" /\ pc'[r] # "unsent" /\ \A q \in Req : q # r => pc'[q] = pc[q]
        /\ pc'[r] \in Held => pc[r] \in Held
    BY <1>0, <1>2 DEF CreateSession, ContextFails, LoadMemory, GenerateSucceeds, GenerateFails,
       PersistFallback, Persist, PersistFails, Release, Unlock, ReleaseByGet, ReleaseFails, Crash,
       Resolved, Abort, Finish, Goto, env, Held
  <2> QED
    BY <2>1, OrderMovesOn DEF Holding
<1>3. CASE FastPath(r) \/ ResolveExisting(r) \/ ResolveNew(r)
  <2>1. /\ msg' = msg /\ seen' = seen /\ slow' = slow /\ pc[r] \in {"idempotency", "resolve"}
        /\ pc'[r] # "unsent" /\ \A q \in Req : q # r => pc'[q] = pc[q] /\ sid'[q] = sid[q]
    BY <1>0, <1>3 DEF FastPath, ResolveExisting, ResolveNew, Resolved, Abort, Goto, env
  <2>2. \/ sid'[r] = sid[r]
        \/ IF Named(r) THEN sid'[r] = msg[r].session ELSE sid'[r] \in FreshSessions
    BY <1>0, <1>3 DEF FastPath, ResolveExisting, ResolveNew, Named
  <2> QED
    BY <2>1, <2>2, OrderMovesOn DEF Holding, Held, Before
<1> QED
  BY <1>1, <1>2, <1>3 DEF Step, Environment

LEMMA NextOrderInv == TypeInv /\ LockInv /\ ConvInv /\ OrderInv /\ [Next]_vars => OrderInv'
<1> SUFFICES ASSUME TypeInv, LockInv, ConvInv, OrderInv, [Next]_vars PROVE OrderInv'
  OBVIOUS
<1>0. pc \in [Req -> Steps]
  BY DEF TypeInv, TypeOK
<1>1. ASSUME UNCHANGED <<state, db>>, slow' = 0 => slow = 0 PROVE OrderInv'
  <2>1. UNCHANGED <<msg, pc, sid, seen, turns>>
    BY <1>1 DEF state, db
  <2> QED
    BY <1>1, <2>1, OrderMovesOn DEF Holding
<1>2. CASE UNCHANGED vars
  BY <1>1, <1>2 DEF vars, env
<1>3. ASSUME NEW k \in LockKey, ExpireLock(k) PROVE OrderInv'
  <2>1. slow' = 0 => slow = 0
    BY <1>3, ConstantsAssumption DEF ExpireLock, TypeInv, TypeOK
  <2> QED
    BY <1>1, <1>3, <2>1 DEF ExpireLock
<1>4. ASSUME NEW r \in Req, Step(r) \/ Environment(r) PROVE OrderInv'
  <2>1. CASE Send(r)
    BY <2>1, SendOrderInv
  <2>2. CASE ~Send(r) /\ turns' = turns
    BY <1>4, <2>2, OrderMoves
  <2>3. CASE turns' # turns
    <3>1. PersistFallback(r) \/ Persist(r) \/ PersistFails(r)
      BY <1>4, <2>3 DEF Step, Environment, Send, RefuseBusy, RefuseCircuitOpen, Refuse, AcquireLock,
         AcquireFails, IdempotencyHit, NormalPath, FastPath, SaveFirst, SaveFirstFails, ResolveExisting,
         ResolveNew, CreateSession, ContextFails, LoadMemory, GenerateSucceeds, GenerateFails,
         PersistInteraction, SaveLast, Release, Unlock, ReleaseByGet, ReleaseFails, Crash, db
    <3>2. /\ Record(r, "failed") \/ Record(r, "answered")
          /\ seen' = seen /\ msg' = msg /\ sid' = sid /\ slow' = slow
          /\ pc[r] \in Writing /\ pc'[r] # "unsent" /\ \A q \in Req : q # r => pc'[q] = pc[q]
      BY <1>0, <2>3, <3>1 DEF PersistFallback, Persist, PersistFails, Goto, env, Writing
    <3> QED
      BY <3>2, OrderWrites
  <2> QED
    BY <2>1, <2>2, <2>3
<1> QED
  BY <1>2, <1>3, <1>4 DEF Next

LEMMA OrderInvariant == Spec => [](TypeInv /\ LockInv /\ ConvInv /\ OrderInv)
<1>1. Init => TypeInv /\ LockInv /\ ConvInv /\ OrderInv
  BY InitTypeInv, InitLockInv, InitConvInv, InitOrderInv
<1>2. TypeInv /\ LockInv /\ ConvInv /\ OrderInv /\ [Next]_vars => (TypeInv /\ LockInv /\ ConvInv /\ OrderInv)'
  BY NextTypeInv, NextLockInv, NextConvInv, NextOrderInv
<1> QED
  BY <1>1, <1>2, PTL DEF Spec

\* What was answered to a request that named its session comes before every turn of
\* a message sent later, while no lock expires under its holder.  So the one way to
\* a conversation out of order is the first message of a new chat.
THEOREM NamedOrderAlways == Spec => []NamedOrder
<1>1. OrderInv => NamedOrder
  BY DEF OrderInv
<1> QED
  BY <1>1, OrderInvariant, PTL

\* FollowUpSeesHistory, for the history of requests that named the session.
NamedHistory ==
  slow = 0 => \A q, r \in Req :
    /\ pc[r] \in {"load", "generate"}
    /\ q \in seen[r] /\ Named(q) /\ sid[q] = sid[r]
    => pc[q] \in {"done", "dead"}

LEMMA OrderNamedHistory == TypeInv /\ LockInv /\ ConvInv /\ OrderInv => NamedHistory
<1> SUFFICES ASSUME TypeInv, LockInv, ConvInv, OrderInv, slow = 0, NEW q \in Req, NEW r \in Req,
                    pc[r] \in {"load", "generate"}, q \in seen[r], Named(q), sid[q] = sid[r]
             PROVE  pc[q] \in {"done", "dead"}
  BY DEF NamedHistory
<1>1. sid[r] \in Session /\ sid[r] # NULL
  BY NullAssumption DEF ConvInv, WritesToOwn, Writing
<1>2. q # r /\ q \in answered /\ pc[q] \notin {"unsent", "start"} /\ pc[r] # "unsent"
  BY DEF ConvInv, NotYetAnswered, Early
<1>3. Named(r) /\ msg[r].session = msg[q].session
  BY <1>1 DEF OrderInv, SessionsKept, NewChatsAreNew
<1>4. KeyOf(q) = KeyOf(r)
  BY <1>2, <1>3, NamedKeys
<1>5. ~Holding(q)
  <2>1. lock[KeyOf(r)] = r
    BY DEF LockInv, HolderOwnsLock, Holding, Held
  <2> QED
    BY <1>2, <1>4, <2>1 DEF LockInv, HolderOwnsLock
<1>6. pc[q] \in Steps
  BY DEF TypeInv, TypeOK
<1> QED
  BY <1>2, <1>5, <1>6 DEF Holding, Steps

\* A follow-up generates from a conversation that the requests it has seen the answers
\* of have left, when those requests named the session.
THEOREM NamedHistoryAlways == Spec => []NamedHistory
  BY OrderNamedHistory, OrderInvariant, PTL

-----------------------------------------------------------------------------
(***************************************************************************)
(* When every client names its session                                     *)
(***************************************************************************)
AllNamed == \A r \in Req : pc[r] # "unsent" => Named(r)

LEMMA NextAllNamed == ASSUME NewChats = FALSE PROVE TypeInv /\ AllNamed /\ [Next]_vars => AllNamed'
<1> SUFFICES ASSUME TypeInv, AllNamed, [Next]_vars PROVE AllNamed'
  OBVIOUS
<1>0. pc \in [Req -> Steps] /\ msg \in [Req -> Message \cup {NULL}]
  BY DEF TypeInv, TypeOK
<1>1. CASE UNCHANGED <<msg, pc>>
  BY <1>1 DEF AllNamed, Named
<1>2. ASSUME NEW r \in Req, Send(r) PROVE AllNamed'
  BY <1>0, <1>2 DEF Send, Goto, AllNamed, Named
<1>3. ASSUME NEW r \in Req, Step(r) \/ Environment(r), ~Send(r) PROVE AllNamed'
  <2>1. msg' = msg /\ pc[r] # "unsent" /\ \A q \in Req : q # r => pc'[q] = pc[q]
    <3>1. (\E step : Goto(r, step)) /\ msg' = msg /\ pc[r] # "unsent"
      BY <1>3 DEF Step, Environment, RefuseBusy, RefuseCircuitOpen, Refuse, AcquireLock,
         AcquireFails, IdempotencyHit, NormalPath, FastPath, SaveFirst, SaveFirstFails, ResolveExisting,
         ResolveNew, CreateSession, ContextFails, LoadMemory, GenerateSucceeds, GenerateFails,
         PersistFallback, Persist, PersistFails, PersistInteraction, SaveLast, Release, Unlock,
         ReleaseByGet, ReleaseFails, Crash, Resolved, Abort, Finish
    <3> QED
      BY <1>0, <3>1 DEF Goto
  <2> QED
    BY <2>1 DEF AllNamed, Named
<1> QED
  BY <1>1, <1>2, <1>3 DEF Next, ExpireLock, vars, state

\* Then a request locks the session it works in.
LocksItsSession ==
  /\ \A r \in Req : pc[r] # "unsent" => KeyOf(r) \in Session /\ msg[r].session # NULL
  /\ \A r \in Req : sid[r] # NULL => pc[r] # "unsent" /\ sid[r] = KeyOf(r)

NamedInv == OrderInv /\ AllNamed /\ LocksItsSession

LEMMA NamedInvHolds == TypeInv /\ OrderInv /\ AllNamed => NamedInv
<1> SUFFICES ASSUME TypeInv, OrderInv, AllNamed PROVE LocksItsSession
  BY DEF NamedInv
<1>1. \A r \in Req : pc[r] # "unsent" => KeyOf(r) = msg[r].session /\ msg[r].session \in Session
  BY NamedKeys DEF AllNamed
<1> QED
  BY <1>1, NullAssumption DEF AllNamed, LocksItsSession, OrderInv, SessionsKept, Named

LEMMA NamedInvariant ==
  ASSUME NewChats = FALSE
  PROVE  Spec => [](TypeInv /\ LockInv /\ ConvInv /\ NamedInv)
<1>1. Init => AllNamed
  BY DEF Init, AllNamed
<1> QED
  BY <1>1, NextAllNamed, NamedInvHolds, OrderInvariant, PTL DEF Spec

\* Clients that name their sessions see them in order: while no lock expires under
\* its holder, what was answered before a message was sent comes before it.
THEOREM StrictMessageOrderAlways == ASSUME NewChats = FALSE PROVE Spec => []StrictMessageOrder
<1>1. TypeInv /\ ConvInv /\ NamedInv => StrictMessageOrder
  BY TurnHasRow DEF NamedInv, OrderInv, AllNamed, NamedOrder, StrictMessageOrder
<1> QED
  BY <1>1, NamedInvariant, PTL

\* Under the same conditions a follow-up generates from a conversation that the
\* requests it has seen the answers of have left.
THEOREM FollowUpSeesHistoryAlways == ASSUME NewChats = FALSE PROVE Spec => []FollowUpSeesHistory
<1>1. TypeInv /\ LockInv /\ ConvInv /\ NamedInv => FollowUpSeesHistory
  <2> SUFFICES ASSUME TypeInv, LockInv, ConvInv, NamedInv, slow = 0, NEW q \in Req, NEW r \in Req,
                      pc[r] \in {"load", "generate"}, q \in seen[r], sid[q] = sid[r]
               PROVE  pc[q] \in {"done", "dead"}
    BY DEF FollowUpSeesHistory
  <2>1. Named(q)
    BY DEF NamedInv, AllNamed, ConvInv, NotYetAnswered, Early
  <2> QED
    BY <2>1, OrderNamedHistory DEF NamedInv, NamedHistory
<1> QED
  BY <1>1, NamedInvariant, PTL
-----------------------------------------------------------------------------
(***************************************************************************)
(* What was answered is stored                                             *)
(***************************************************************************)

\* Request r has written a turn with this status.
Wrote(r, status) == \E s \in Session : \E i \in DOMAIN turns[s] : turns[s][i] = [req |-> r, status |-> status]

\* Who stored the fallback has not answered "ok".
FailedIsNotOk == \A r \in Req : Wrote(r, "failed") => result[r] \in {"fallback", "error"}

\* Only the fast path resolves its session with the answer out.
AnsweredEarly ==
  \A r \in Req : pc[r] = "save_first" \/ (pc[r] \in {"resolve", "create"} /\ r \in answered)
                  => msg[r].greeting

\* While requests are kept apart by the locks of the sessions they work in.
Apart == slow = 0 /\ AllNamed

\* No other request can create the row under the holder of the session's lock.
CreatesUndisturbed == Apart => \A r \in Req : pc[r] = "create" => rows[sid[r]] = NULL

\* Who is past the commit with an answer out has written it, unless it is a greeting
\* and was refused the session afterwards; another user's, when requests are kept apart.
Refused(r) == Apart => sid[r] \in Session /\ rows[sid[r]] \notin {NULL, msg[r].user}

Committed ==
  faults = 0 => \A r \in Req :
    /\ pc[r] \in {"memory", "save_last"} => Wrote(r, "answered")
    /\ pc[r] \in {"release", "unlock", "done"} /\ result[r] = "ok"
         => Wrote(r, "answered") \/ (msg[r].greeting /\ Refused(r))

PersistInv == FailedIsNotOk /\ AnsweredEarly /\ CreatesUndisturbed /\ Committed

\* What one more turn adds to what requests have written.
LEMMA RecordedAs ==
  ASSUME TypeInv, NEW r \in Req, NEW status, sid[r] \in Session, Record(r, status),
         NEW q \in Req, NEW st
  PROVE  Wrote(q, st)' <=> (q = r /\ st = status) \/ Wrote(q, st)
<1> DEFINE t == [req |-> r, status |-> status]
           n == Len(turns[sid[r]])
<1>1. turns[sid[r]] \in Seq(Turn) /\ turns \in [Session -> Seq(Turn)]
  BY DEF TypeInv, TypeOK
<1>2. turns'[sid[r]] = Append(turns[sid[r]], t) /\ \A s \in Session : s # sid[r] => turns'[s] = turns[s]
  BY <1>1 DEF Record
<1>3. /\ n \in Nat /\ DOMAIN turns[sid[r]] = 1..n /\ DOMAIN turns'[sid[r]] = 1..(n + 1)
      /\ \A i \in 1..n : turns'[sid[r]][i] = turns[sid[r]][i]
      /\ turns'[sid[r]][n + 1] = t /\ n + 1 \in 1..(n + 1)
  BY <1>1, <1>2
<1>4. ASSUME Wrote(q, st)' PROVE (q = r /\ st = status) \/ Wrote(q, st)
  <2>1. PICK s \in Session : \E i \in DOMAIN turns'[s] : turns'[s][i] = [req |-> q, status |-> st]
    BY <1>4 DEF Wrote
  <2>2. CASE s # sid[r]
    BY <1>2, <2>1, <2>2 DEF Wrote
  <2>3. CASE s = sid[r]
    <3>1. PICK i \in 1..(n + 1) : turns'[sid[r]][i] = [req |-> q, status |-> st]
      BY <1>3, <2>1, <2>3
    <3>2. CASE i = n + 1
      BY <1>3, <3>1, <3>2
    <3>3. CASE i \in 1..n
      <4>1. turns[sid[r]][i] = [req |-> q, status |-> st] /\ i \in DOMAIN turns[sid[r]]
        BY <1>3, <3>1, <3>3
      <4> QED
        BY <4>1 DEF Wrote
    <3> QED
      BY <1>3, <3>2, <3>3
  <2> QED
    BY <2>2, <2>3
<1>5. ASSUME q = r, st = status PROVE Wrote(q, st)'
  BY <1>3, <1>5 DEF Wrote
<1>6. ASSUME Wrote(q, st) PROVE Wrote(q, st)'
  <2>1. PICK s \in Session : \E i \in DOMAIN turns[s] : turns[s][i] = [req |-> q, status |-> st]
    BY <1>6 DEF Wrote
  <2>2. CASE s # sid[r]
    BY <1>2, <2>1, <2>2 DEF Wrote
  <2>3. CASE s = sid[r]
    <3>1. PICK i \in 1..n : turns[sid[r]][i] = [req |-> q, status |-> st]
      BY <1>3, <2>1, <2>3
    <3>2. i \in DOMAIN turns'[sid[r]] /\ turns'[sid[r]][i] = [req |-> q, status |-> st]
      BY <1>3, <3>1
    <3> QED
      BY <3>2 DEF Wrote
  <2> QED
    BY <2>2, <2>3
<1> QED
  BY <1>4, <1>5, <1>6

\* Request r moves: what must hold of it afterwards, given that nobody else moves,
\* that turns and rows stay, and that rows appear at "create" only.
LEMMA PersistMoves ==
  ASSUME TypeInv, LockInv, ConvInv, OrderInv, PersistInv, NEW r \in Req, NEW step,
         pc' = [pc EXCEPT ![r] = step], slow' = slow, faults' = 0 => faults = 0,
         \A q \in Req : q # r => sid'[q] = sid[q] /\ result'[q] = result[q] /\ msg'[q] = msg[q],
         pc[r] = "unsent" \/ (msg' = msg /\ step # "unsent"), answered' \subseteq answered \cup {r},
         \A q \in Req : Wrote(q, "answered") => Wrote(q, "answered")',
         \A q \in Req : q # r /\ Wrote(q, "failed")' => Wrote(q, "failed"),
         Wrote(r, "failed")' => result'[r] \in {"fallback", "error"},
         \A s \in Session : rows[s] # NULL => rows'[s] = rows[s],
         \A s \in Session : rows'[s] # rows[s] => pc[r] = "create" /\ s = sid[r],
         step = "save_first" \/ (step \in {"resolve", "create"} /\ r \in answered') => msg'[r].greeting,
         Apart /\ step = "create" => rows'[sid'[r]] = NULL,
         faults' = 0 /\ step \in {"memory", "save_last"} => Wrote(r, "answered")',
         faults' = 0 /\ step \in {"release", "unlock", "done"} /\ result'[r] = "ok"
           => Wrote(r, "answered")' \/ (msg'[r].greeting /\ Refused(r)')
  PROVE  PersistInv'
<1>1. pc'[r] = step /\ \A q \in Req : q # r => pc'[q] = pc[q]
  BY DEF TypeInv, TypeOK
<1>a. Apart' => Apart
  BY <1>1 DEF Apart, AllNamed, Named
<1>2. FailedIsNotOk' /\ AnsweredEarly'
  BY <1>1 DEF PersistInv, FailedIsNotOk, AnsweredEarly
<1>3. CreatesUndisturbed'
  <2>0. Apart => slow = 0 /\ NamedInv
    BY NamedInvHolds DEF Apart
  <2>1. ASSUME Apart, NEW q \in Req, q # r, pc[q] = "create" PROVE rows'[sid[q]] = NULL
    <3>1. rows[sid[q]] = NULL /\ sid[q] \in Session /\ sid[q] = KeyOf(q)
      BY <2>0, <2>1, NullAssumption
         DEF PersistInv, CreatesUndisturbed, ConvInv, WritesToOwn, NamedInv, LocksItsSession
    <3>2. ASSUME pc[r] = "create", sid[r] = sid[q] PROVE FALSE
      <4>1. sid[r] = KeyOf(r)
        BY <2>0, <2>1, <3>1, <3>2, NullAssumption DEF NamedInv, LocksItsSession
      <4>2. lock[KeyOf(q)] = q /\ lock[KeyOf(r)] = r
        BY <2>0, <2>1, <3>2 DEF LockInv, HolderOwnsLock, Holding, Held
      <4> QED
        BY <2>1, <3>1, <3>2, <4>1, <4>2
    <3> QED
      BY <3>1, <3>2
  <2> QED
    BY <1>1, <1>a, <2>1 DEF CreatesUndisturbed
<1>4. Committed'
  <2>1. ASSUME NEW q \in Req, q # r, Refused(q) PROVE Refused(q)'
    BY <1>a, <2>1 DEF Refused
  <2> QED
    BY <1>1, <2>1 DEF PersistInv, Committed
<1> QED
  BY <1>2, <1>3, <1>4 DEF PersistInv

\* The same, when it writes no turn.
LEMMA PersistQuiet ==
  ASSUME TypeInv, LockInv, ConvInv, OrderInv, PersistInv, NEW r \in Req, NEW step,
         pc' = [pc EXCEPT ![r] = step], slow' = slow, faults' = 0 => faults = 0, turns' = turns,
         \A q \in Req : q # r => sid'[q] = sid[q] /\ result'[q] = result[q] /\ msg'[q] = msg[q],
         pc[r] = "unsent" \/ (msg' = msg /\ step # "unsent"), answered' \subseteq answered \cup {r},
         pc[r] \in Before \/ result'[r] = result[r] \/ result'[r] = "error",
         \A s \in Session : rows[s] # NULL => rows'[s] = rows[s],
         \A s \in Session : rows'[s] # rows[s] => pc[r] = "create" /\ s = sid[r],
         step = "save_first" \/ (step \in {"resolve", "create"} /\ r \in answered') => msg'[r].greeting,
         Apart /\ step = "create" => rows'[sid'[r]] = NULL,
         faults' = 0 /\ step \in {"memory", "save_last"} => Wrote(r, "answered"),
         faults' = 0 /\ step \in {"release", "unlock", "done"} /\ result'[r] = "ok"
           => Wrote(r, "answered") \/ (msg'[r].greeting /\ Refused(r)')
  PROVE  PersistInv'
<1>1. \A q \in Req : (Wrote(q, "answered")' <=> Wrote(q, "answered")) /\ (Wrote(q, "failed")' <=> Wrote(q, "failed"))
  BY DEF Wrote
<1>2. Wrote(r, "failed") => HasTurn(r)
  BY DEF Wrote, HasTurn
<1>3. Wrote(r, "failed") => result'[r] \in {"fallback", "error"}
  BY <1>2 DEF ConvInv, WritesOnce, PersistInv, FailedIsNotOk
<1> QED
  BY <1>1, <1>3, PersistMoves

LEMMA InitPersistInv == Init => PersistInv
  BY DEF Init, PersistInv, FailedIsNotOk, AnsweredEarly, CreatesUndisturbed, Committed, Wrote

\* Steps that lead to no commit and to no row.
LEMMA PlainPersistInv ==
  ASSUME TypeInv, LockInv, ConvInv, OrderInv, PersistInv, NEW r \in Req,
         \/ Send(r) \/ RefuseBusy(r) \/ RefuseCircuitOpen(r) \/ AcquireLock(r) \/ AcquireFails(r)
         \/ IdempotencyHit(r) \/ FastPath(r) \/ NormalPath(r) \/ SaveFirst(r) \/ SaveFirstFails(r)
         \/ LoadMemory(r) \/ GenerateSucceeds(r) \/ GenerateFails(r) \/ Crash(r)
  PROVE  PersistInv'
<1> DEFINE step == pc'[r]
<1>0. /\ pc \in [Req -> Steps] /\ result \in [Req -> Results] /\ faults \in Nat
      /\ sid \in [Req -> Session \cup {NULL}] /\ msg \in [Req -> Message \cup {NULL}]
  BY ConstantsAssumption DEF TypeInv, TypeOK
<1>1. /\ turns' = turns /\ rows' = rows /\ slow' = slow
      /\ faults' = faults \/ faults' = faults + 1
      /\ pc[r] \in Before \/ result' = result
      /\ answered' = answered \/ answered' = answered \cup {r}
      /\ pc[r] = "unsent" \/ msg' = msg
  BY DEF Answer, Send, RefuseBusy, RefuseCircuitOpen, Refuse, AcquireLock, AcquireFails, IdempotencyHit, FastPath,
     NormalPath, SaveFirst, SaveFirstFails, LoadMemory, GenerateSucceeds, GenerateFails, Crash, db, env, Before
<1>2. \A q \in Req : q # r => sid'[q] = sid[q] /\ result'[q] = result[q] /\ msg'[q] = msg[q]
  BY <1>0 DEF Send, RefuseBusy, RefuseCircuitOpen, Refuse, AcquireLock, AcquireFails, IdempotencyHit, FastPath,
     NormalPath, SaveFirst, SaveFirstFails, LoadMemory, GenerateSucceeds, GenerateFails, Crash, Return
<1>3. /\ pc' = [pc EXCEPT ![r] = step]
      /\ step \notin {"unsent", "create", "memory", "save_last", "unlock"}
      /\ step \in {"release", "done"} => result'[r] # "ok"
  BY <1>0 DEF Send, RefuseBusy, RefuseCircuitOpen, Refuse, AcquireLock, AcquireFails, IdempotencyHit, FastPath,
     NormalPath, SaveFirst, SaveFirstFails, LoadMemory, GenerateSucceeds, GenerateFails, Crash, Return, Goto
<1>4. step = "save_first" \/ (step = "resolve" /\ r \in answered') => msg'[r].greeting
  <2>1. CASE FastPath(r)
    BY <2>1 DEF FastPath
  <2>2. CASE SaveFirst(r)
    BY <2>2 DEF SaveFirst, PersistInv, AnsweredEarly
  <2>3. CASE ~FastPath(r) /\ ~SaveFirst(r)
    <3>1. step = "resolve" => answered' = answered /\ pc[r] = "idempotency"
      BY <1>0, <2>3 DEF Send, RefuseBusy, RefuseCircuitOpen, Refuse, AcquireLock, AcquireFails, IdempotencyHit,
         NormalPath, SaveFirstFails, LoadMemory, GenerateSucceeds, GenerateFails, Crash, Goto
    <3>2. step # "save_first"
      BY <1>0, <2>3 DEF Send, RefuseBusy, RefuseCircuitOpen, Refuse, AcquireLock, AcquireFails, IdempotencyHit,
         NormalPath, SaveFirstFails, LoadMemory, GenerateSucceeds, GenerateFails, Crash, Goto
    <3> QED
      BY <3>1, <3>2 DEF ConvInv, NotYetAnswered, Early
  <2> QED
    BY <2>1, <2>2, <2>3
<1> QED
  BY <1>0, <1>1, <1>2, <1>3, <1>4, PersistQuiet

\* Resolution and creation.
LEMMA ResolvePersistInv ==
  ASSUME TypeInv, LockInv, ConvInv, OrderInv, PersistInv, NEW r \in Req,
         ResolveExisting(r) \/ ResolveNew(r) \/ CreateSession(r) \/ ContextFails(r)
  PROVE  PersistInv'
<1> DEFINE step == pc'[r]
<1>0. /\ pc \in [Req -> Steps] /\ result \in [Req -> Results] /\ faults \in Nat
      /\ sid \in [Req -> Session \cup {NULL}] /\ rows \in [Session -> User \cup {NULL}]
      /\ pc[r] # "unsent" /\ pc[r] \in Before
  BY ConstantsAssumption DEF TypeInv, TypeOK, ResolveExisting, ResolveNew, CreateSession, ContextFails, Before
<1>a. /\ turns' = turns /\ slow' = slow /\ msg' = msg /\ answered' = answered
      /\ faults' = faults \/ faults' = faults + 1
      /\ \A q \in Req : q # r => sid'[q] = sid[q]
  BY <1>0 DEF ResolveExisting, ResolveNew, CreateSession, ContextFails, db, env
<1>b. \A q \in Req : q # r => result'[q] = result[q]
  BY <1>0 DEF ResolveExisting, ResolveNew, CreateSession, ContextFails, Abort, Return
<1>1. /\ turns' = turns /\ slow' = slow /\ msg' = msg /\ answered' = answered
      /\ faults' = faults \/ faults' = faults + 1
      /\ \A q \in Req : q # r => sid'[q] = sid[q] /\ result'[q] = result[q]
  BY <1>a, <1>b
<1>2. pc' = [pc EXCEPT ![r] = step] /\ step \in {"create", "load", "persist", "release"}
  BY <1>0 DEF ResolveExisting, ResolveNew, CreateSession, ContextFails, Resolved, Abort, Goto
<1>3. /\ \A s \in Session : rows[s] # NULL => rows'[s] = rows[s]
      /\ \A s \in Session : rows'[s] # rows[s] => pc[r] = "create" /\ s = sid[r]
  BY <1>0 DEF ResolveExisting, ResolveNew, CreateSession, ContextFails, db
<1>4. step = "create" => rows'[sid'[r]] = NULL
  <2>1. CASE ResolveExisting(r)
    BY <1>0, <2>1 DEF ResolveExisting, Resolved, Abort, Goto, db
  <2>2. CASE ResolveNew(r)
    BY <1>0, <2>2 DEF ResolveNew, FreshSessions, db
  <2>3. CASE CreateSession(r) \/ ContextFails(r)
    BY <1>0, <2>3 DEF CreateSession, ContextFails, Resolved, Abort, Goto
  <2> QED
    BY <2>1, <2>2, <2>3
<1>6. step = "create" /\ r \in answered' => msg'[r].greeting
  <2>1. step = "create" => pc[r] = "resolve"
    BY <1>0 DEF ResolveExisting, ResolveNew, CreateSession, ContextFails, Resolved, Abort, Goto
  <2> QED
    BY <1>1, <2>1 DEF PersistInv, AnsweredEarly
<1>7. ASSUME faults' = 0, step = "release", result'[r] = "ok" PROVE msg[r].greeting
  <2>1. (pc[r] \in {"resolve", "create"} /\ r \in answered) \/ result'[r] = "error"
    BY <1>0, <1>7 DEF ResolveExisting, ResolveNew, CreateSession, ContextFails, Resolved, Abort, InBackground,
       Goto, Return
  <2> QED
    BY <1>7, <2>1 DEF PersistInv, AnsweredEarly
<1>5. ASSUME Apart, faults' = 0, step = "release", result'[r] = "ok"
      PROVE  sid'[r] \in Session /\ rows'[sid'[r]] \notin {NULL, msg'[r].user}
  <2>1. CASE ResolveExisting(r)
    <3>1. PICK x \in Session :
            /\ sid'[r] = x
            /\ IF rows[x] = NULL THEN Goto(r, "create") /\ UNCHANGED result
               ELSE IF rows[x] = msg[r].user THEN Resolved(r) /\ UNCHANGED result
               ELSE Abort(r)
      BY <1>0, <2>1, HeldFacts DEF ResolveExisting
    <3>2. rows[x] # NULL /\ rows[x] # msg[r].user
      BY <1>0, <1>5, <3>1 DEF Resolved, Goto
    <3> QED
      BY <1>1, <2>1, <3>1, <3>2 DEF ResolveExisting, db
  <2>2. CASE ResolveNew(r)
    BY <1>0, <1>5, <2>2 DEF ResolveNew, Goto
  <2>3. CASE CreateSession(r)
    <3>1. rows[sid[r]] = NULL
      BY <1>5, <2>3 DEF CreateSession, PersistInv, CreatesUndisturbed
    <3>2. step \in {"load", "persist"}
      BY <1>0, <2>3, <3>1 DEF CreateSession, Resolved, Goto
    <3> QED
      BY <1>5, <3>2
  <2>4. CASE ContextFails(r)
    BY <1>0, <1>5, <2>4 DEF ContextFails
  <2> QED
    BY <2>1, <2>2, <2>3, <2>4
<1>8. faults' = 0 /\ step = "release" /\ result'[r] = "ok" => msg'[r].greeting /\ Refused(r)'
  <2>1. Apart' => Apart
    BY <1>0, <1>1, <1>2 DEF Apart, AllNamed, Named
  <2> QED
    BY <1>1, <1>5, <1>7, <2>1 DEF Refused
<1> QED
  BY <1>0, <1>1, <1>2, <1>3, <1>4, <1>6, <1>8, PersistQuiet

\* The commit.
LEMMA CommitPersistInv ==
  ASSUME TypeInv, LockInv, ConvInv, OrderInv, PersistInv, NEW r \in Req,
         PersistFallback(r) \/ Persist(r) \/ PersistFails(r)
  PROVE  PersistInv'
<1> DEFINE step == pc'[r]
<1>0. /\ pc \in [Req -> Steps] /\ result \in [Req -> Results] /\ faults \in Nat
      /\ pc[r] \in Writing /\ pc[r] \in Before /\ pc[r] # "unsent" /\ pc[r] # "create"
  BY ConstantsAssumption DEF TypeInv, TypeOK, PersistFallback, Persist, PersistFails, Writing, Before
<1>1. /\ rows' = rows /\ slow' = slow /\ msg' = msg /\ sid' = sid /\ answered' = answered
      /\ faults' = faults \/ faults' = faults + 1
      /\ \A q \in Req : q # r => result'[q] = result[q]
      /\ turns' = turns \/ Record(r, "failed") \/ Record(r, "answered")
  BY <1>0 DEF PersistFallback, Persist, PersistFails, Return, env
<1>2. /\ pc' = [pc EXCEPT ![r] = step] /\ step \in {"memory", "release"}
      /\ step = "memory" => Persist(r)
      /\ step = "release" => faults' # 0 \/ result'[r] # "ok"
  BY <1>0 DEF PersistFallback, Persist, PersistFails, Return, Goto
<1>3. sid[r] \in Session
  BY <1>0, HeldFacts
<1>4. CASE turns' = turns
  <2>1. ~Persist(r)
    <3>1. ASSUME Record(r, "answered") PROVE turns' # turns
      <4>1. Len(turns'[sid[r]]) = Len(turns[sid[r]]) + 1 /\ turns[sid[r]] \in Seq(Turn)
        BY <1>3, <3>1, Recorded DEF TypeInv, TypeOK
      <4> QED
        BY <4>1
    <3> QED
      BY <1>4, <3>1 DEF Persist
  <2> QED
    BY <1>0, <1>1, <1>2, <1>4, <2>1, PersistQuiet
<1>5. ASSUME NEW status \in {"failed", "answered"}, Record(r, status),
             status = "failed" => result'[r] = "fallback", step = "memory" => status = "answered"
      PROVE  PersistInv'
  <2>1. \A q \in Req : /\ Wrote(q, "answered")' <=> (q = r /\ status = "answered") \/ Wrote(q, "answered")
                       /\ Wrote(q, "failed")' <=> (q = r /\ status = "failed") \/ Wrote(q, "failed")
    BY <1>3, <1>5, RecordedAs
  <2>2. ~Wrote(r, "failed")
    BY <1>0 DEF ConvInv, WritesOnce, Wrote, HasTurn
  <2> QED
    BY <1>0, <1>1, <1>2, <1>5, <2>1, <2>2, PersistMoves
<1> QED
  BY <1>0, <1>1, <1>2, <1>4, <1>5 DEF PersistFallback, Persist, PersistFails, Return, Goto

\* After the commit.
LEMMA ReleasePersistInv ==
  ASSUME TypeInv, LockInv, ConvInv, OrderInv, PersistInv, NEW r \in Req,
         \/ PersistInteraction(r) \/ SaveLast(r)
         \/ Release(r) \/ Unlock(r) \/ ReleaseByGet(r) \/ ReleaseFails(r)
  PROVE  PersistInv'
<1> DEFINE step == pc'[r]
<1>0. /\ pc \in [Req -> Steps] /\ result \in [Req -> Results] /\ faults \in Nat
  BY ConstantsAssumption DEF TypeInv, TypeOK
<1>1. /\ turns' = turns /\ rows' = rows /\ slow' = slow /\ msg' = msg /\ sid' = sid
      /\ faults' = faults \/ faults' = faults + 1
      /\ \A q \in Req : q # r => result'[q] = result[q]
      /\ result'[r] = result[r] \/ result'[r] = "error"
      /\ answered' = answered \/ answered' = answered \cup {r}
  BY <1>0 DEF PersistInteraction, SaveLast, Release, Unlock, ReleaseByGet, ReleaseFails, Finish, Answer,
     Return, db, env
<1>2. /\ pc' = [pc EXCEPT ![r] = step]
      /\ \/ pc[r] \in {"memory", "save_last"} /\ step \in {"save_last", "release"}
         \/ pc[r] \in {"release", "unlock"} /\ step \in {"unlock", "done"}
  BY <1>0 DEF PersistInteraction, SaveLast, Release, Unlock, ReleaseByGet, ReleaseFails, Finish, Goto
<1>3. faults' = 0 => faults = 0
  BY <1>0, <1>1
<1>4. faults' = 0 /\ pc[r] \in {"memory", "save_last"} => Wrote(r, "answered")
  BY <1>3 DEF PersistInv, Committed
<1>5. faults' = 0 /\ pc[r] \in {"release", "unlock"} /\ result'[r] = "ok"
        => Wrote(r, "answered") \/ (msg'[r].greeting /\ Refused(r)')
  <2>1. Apart' => Apart
    BY <1>0, <1>1, <1>2 DEF Apart, AllNamed, Named
  <2> QED
    BY <1>1, <1>3, <2>1 DEF PersistInv, Committed, Refused
<1> QED
  BY <1>0, <1>1, <1>2, <1>3, <1>4, <1>5, PersistQuiet

LEMMA NextPersistInv ==
  TypeInv /\ LockInv /\ ConvInv /\ OrderInv /\ PersistInv /\ [Next]_vars => PersistInv'
<1> SUFFICES ASSUME TypeInv, LockInv, ConvInv, OrderInv, PersistInv, [Next]_vars PROVE PersistInv'
  OBVIOUS
<1>1. ASSUME UNCHANGED <<state, db, faults>>, slow' = 0 => slow = 0 PROVE PersistInv'
  BY <1>1 DEF state, db, PersistInv, FailedIsNotOk, AnsweredEarly, CreatesUndisturbed, Committed, Refused,
     Apart, AllNamed, Named, Wrote
<1>2. ASSUME NEW k \in LockKey, ExpireLock(k) PROVE PersistInv'
  <2>1. slow' = 0 => slow = 0
    BY <1>2, ConstantsAssumption DEF ExpireLock, TypeInv, TypeOK
  <2> QED
    BY <1>1, <1>2, <2>1 DEF ExpireLock
<1>3. ASSUME NEW r \in Req, Step(r) \/ Environment(r) PROVE PersistInv'
  BY <1>3, PlainPersistInv, ResolvePersistInv, CommitPersistInv, ReleasePersistInv DEF Step, Environment
<1> QED
  BY <1>1, <1>2, <1>3 DEF Next, vars, env

LEMMA PersistInvariant == Spec => [](TypeInv /\ PersistInv)
  BY InitPersistInv, NextPersistInv, OrderInvariant, PTL DEF Spec

\* Who has written the answered turn has written nothing else.
LEMMA OneTurn ==
  ASSUME PersistInv, NEW r \in Req, result[r] = "ok", Wrote(r, "answered")
  PROVE  TurnsOf(r) = {[req |-> r, status |-> "answered"]}
<1>1. ~Wrote(r, "failed")
  BY DEF PersistInv, FailedIsNotOk
<1>2. [req |-> r, status |-> "answered"] \in TurnsOf(r)
  BY DEF TurnsOf, Turn, Wrote
<1>3. ASSUME NEW t \in TurnsOf(r) PROVE t = [req |-> r, status |-> "answered"]
  <2>1. t = [req |-> r, status |-> t.status] /\ t.status \in {"answered", "failed"}
    BY <1>3 DEF TurnsOf, Turn
  <2>2. Wrote(r, t.status)
    BY <1>3, <2>1 DEF TurnsOf, Wrote
  <2> QED
    BY <1>1, <2>1, <2>2
<1> QED
  BY <1>2, <1>3

\* On the normal path an answer that was sent is stored by the time its background
\* task ends, whoever races for the session and whatever lock runs out: only a call
\* that fails, or the death of the worker, loses it.
NormalTurnPersisted ==
  faults = 0 => \A r \in Req :
    pc[r] = "done" /\ result[r] = "ok" /\ ~msg[r].greeting
      => TurnsOf(r) = {[req |-> r, status |-> "answered"]}

THEOREM NormalTurnPersistedAlways == Spec => []NormalTurnPersisted
<1>1. TypeInv /\ PersistInv => NormalTurnPersisted
  BY OneTurn DEF NormalTurnPersisted, PersistInv, Committed
<1> QED
  BY <1>1, PersistInvariant, PTL

\* Whoever was answered "ok" and owns the session finds exactly the answered turn in
\* it once the background task is over, greetings included when clients name their
\* sessions.
THEOREM AnsweredTurnPersistedAlways == ASSUME NewChats = FALSE PROVE Spec => []AnsweredTurnPersisted
<1>1. TypeInv /\ PersistInv /\ NamedInv => AnsweredTurnPersisted
  <2> SUFFICES ASSUME TypeInv, PersistInv, NamedInv, slow = 0, faults = 0, NEW r \in Req,
                      pc[r] = "done", result[r] = "ok", rows[sid[r]] = msg[r].user
               PROVE  TurnsOf(r) = {[req |-> r, status |-> "answered"]}
    BY ConstantsAssumption DEF AnsweredTurnPersisted, TypeInv, TypeOK
  <2>1. Apart
    BY DEF NamedInv, Apart
  <2>2. Wrote(r, "answered")
    BY <2>1 DEF PersistInv, Committed, Refused
  <2> QED
    BY <2>2, OneTurn
<1> QED
  BY <1>1, PersistInvariant, NamedInvariant, PTL

-----------------------------------------------------------------------------
(***************************************************************************)
(* A key is executed once, were responses encodable                        *)
(***************************************************************************)
Calm == slow = 0 /\ faults = 0 /\ crashes = 0

\* The response of request r's key can be found.
Saved(r) == msg[r].key # NULL => idem[msg[r].key] # NULL

\* Both name the same session and the same key, and so the same lock.
SameKey(q, r) ==
  /\ msg[q].session = msg[r].session /\ Named(r)
  /\ msg[q].key = msg[r].key /\ msg[r].key # NULL

LEMMA SameKeySameLock == ASSUME NEW q, NEW r, SameKey(q, r) PROVE KeyOf(q) = KeyOf(r)
  BY DEF SameKey, Named, KeyOf

\* Where a greeting whose response was saved first may be, and where a request is
\* that has found no response.
Greeted == {"resolve", "create", "load", "generate", "persist", "memory"}
Executing == {"save_first", "resolve", "create", "load", "generate", "fallback", "persist"}

OnceInv ==
  Calm => /\ \A r \in Req : pc[r] \in Greeted /\ msg[r].greeting => Saved(r)
          /\ \A r \in Req : Wrote(r, "answered") /\ pc[r] \notin {"memory", "save_last"} => Saved(r)
          /\ \A q, r \in Req : pc[r] \in Executing /\ Wrote(q, "answered") => ~SameKey(q, r)
          /\ SingleExecution

LEMMA CalmSum == ASSUME TypeInv PROVE Calm <=> slow + faults + crashes = 0
  BY ConstantsAssumption DEF TypeInv, TypeOK, Calm

\* Who has written has been sent.
LEMMA WroteFacts ==
  ASSUME TypeInv, ConvInv, NEW r \in Req, NEW status, Wrote(r, status)
  PROVE  HasTurn(r) /\ pc[r] \notin Before /\ msg[r] \in Message
<1>1. HasTurn(r)
  BY DEF Wrote, HasTurn
<1>2. pc[r] \notin Before
  BY <1>1 DEF ConvInv, WritesOnce
<1> QED
  BY <1>1, <1>2 DEF Before, TypeInv, SentHasMessage

\* Request r moves and writes no turn.
LEMMA OnceMoves ==
  ASSUME TypeInv, TypeInv', ConvInv, OnceInv, NEW r \in Req, NEW step, pc' = [pc EXCEPT ![r] = step],
         turns' = turns, msg' = msg, Calm' => Calm,
         \A k \in IdemKey : idem[k] # NULL => idem'[k] # NULL,
         Calm' /\ step \in Greeted /\ msg[r].greeting => Saved(r)',
         Calm' /\ Wrote(r, "answered") /\ step \notin {"memory", "save_last"} => Saved(r)',
         Calm' /\ step \in Executing => \A q \in Req : Wrote(q, "answered") => ~SameKey(q, r)
  PROVE  OnceInv'
<1> SUFFICES ASSUME Calm' PROVE /\ \A q \in Req : pc'[q] \in Greeted /\ msg'[q].greeting => Saved(q)'
                                /\ \A q \in Req : Wrote(q, "answered")' /\ pc'[q] \notin {"memory", "save_last"}
                                     => Saved(q)'
                                /\ \A q, p \in Req : pc'[p] \in Executing /\ Wrote(q, "answered")' => ~SameKey(q, p)'
                                /\ SingleExecution'
  BY DEF OnceInv
<1>1. pc'[r] = step /\ \A q \in Req : q # r => pc'[q] = pc[q]
  BY DEF TypeInv, TypeOK
<1>2. /\ \A q \in Req : Wrote(q, "answered")' <=> Wrote(q, "answered")
      /\ \A q, p \in Req : SameKey(q, p)' <=> SameKey(q, p)
  BY DEF Wrote, SameKey, Named
<1>3. ASSUME NEW q \in Req, msg[q] \in Message, Saved(q) PROVE Saved(q)'
  BY <1>3 DEF Saved, Message
<1>4. ASSUME NEW q \in Req, pc'[q] \in Greeted, msg[q].greeting PROVE Saved(q)'
  <2>1. CASE q # r
    <3>1. pc[q] \in Greeted /\ msg[q] \in Message
      BY <1>1, <1>4, <2>1 DEF Greeted, TypeInv, SentHasMessage
    <3> QED
      BY <1>3, <1>4, <3>1 DEF OnceInv
  <2> QED
    BY <1>1, <1>4, <2>1
<1>5. ASSUME NEW q \in Req, Wrote(q, "answered"), pc'[q] \notin {"memory", "save_last"} PROVE Saved(q)'
  <2>1. CASE q # r
    BY <1>1, <1>3, <1>5, <2>1, WroteFacts DEF OnceInv
  <2> QED
    BY <1>1, <1>5, <2>1
<1>6. \A q, p \in Req : pc'[p] \in Executing /\ Wrote(q, "answered") => ~SameKey(q, p)
  BY <1>1 DEF OnceInv
<1>7. SingleExecution'
  <2>1. SingleExecution /\ slow + faults + crashes = 0
    BY CalmSum DEF OnceInv
  <2> QED
    BY <2>1 DEF SingleExecution
<1> QED
  BY <1>2, <1>4, <1>5, <1>6, <1>7

\* Request r writes the answered turn.
LEMMA OnceWrites ==
  ASSUME TypeInv, TypeInv', LockInv, ConvInv, OrderInv, OnceInv, NEW r \in Req, pc[r] \in Writing, Calm' => Calm,
         NEW status \in {"answered", "failed"}, Record(r, status),
         NEW step, step \in {"memory", "release"}, pc' = [pc EXCEPT ![r] = step],
         step = "release" => status = "failed",
         msg' = msg, idem' = idem, sid' = sid,
         step = "memory" => pc[r] = "persist"
  PROVE  OnceInv'
<1> SUFFICES ASSUME Calm' PROVE /\ \A q \in Req : pc'[q] \in Greeted /\ msg'[q].greeting => Saved(q)'
                                /\ \A q \in Req : Wrote(q, "answered")' /\ pc'[q] \notin {"memory", "save_last"}
                                     => Saved(q)'
                                /\ \A q, p \in Req : pc'[p] \in Executing /\ Wrote(q, "answered")' => ~SameKey(q, p)'
                                /\ SingleExecution'
  BY DEF OnceInv
<1> DEFINE n == Len(turns[sid[r]])
<1>0. Calm /\ slow = 0
  BY DEF Calm
<1>1. pc'[r] = step /\ \A q \in Req : q # r => pc'[q] = pc[q]
  BY DEF TypeInv, TypeOK
<1>2. /\ sid[r] \in Session /\ (Named(r) => sid[r] = msg[r].session)
      /\ Holding(r) /\ pc[r] # "unsent"
  BY NullAssumption DEF ConvInv, WritesToOwn, OrderInv, SessionsKept, Holding, Held, Writing
<1>3. \A q \in Req : Wrote(q, "answered")' <=> (q = r /\ status = "answered") \/ Wrote(q, "answered")
  BY <1>2, RecordedAs
<1>4. \A q, p \in Req : (SameKey(q, p)' <=> SameKey(q, p)) /\ (Saved(q)' <=> Saved(q))
  BY DEF SameKey, Named, Saved
<1>5. ~Wrote(r, "answered")
  BY WroteFacts DEF Writing, Before
<1>6. \A q \in Req : pc'[q] \in Greeted /\ msg[q].greeting => Saved(q)
  BY <1>0, <1>1 DEF OnceInv, Greeted
<1>7. \A q \in Req : Wrote(q, "answered")' /\ pc'[q] \notin {"memory", "save_last"} => Saved(q)
  BY <1>0, <1>1, <1>3, <1>5 DEF OnceInv
<1>8. ASSUME NEW q \in Req, NEW p \in Req, pc'[p] \in Executing, Wrote(q, "answered")', SameKey(q, p) PROVE FALSE
  <2>1. p # r
    BY <1>1, <1>8 DEF Executing
  <2>2. q = r
    BY <1>0, <1>1, <1>3, <1>8, <2>1 DEF OnceInv
  <2>3. Holding(p)
    BY <1>1, <1>8, <2>1 DEF Executing, Holding, Held
  <2>4. lock[KeyOf(p)] = p /\ lock[KeyOf(r)] = r
    BY <1>0, <1>2, <2>3 DEF LockInv, HolderOwnsLock
  <2> QED
    BY <1>8, <2>1, <2>2, <2>4, SameKeySameLock
<1>9. SingleExecution'
  <2>0. /\ \A s \in Session : s # sid[r] => turns'[s] = turns[s]
        /\ DOMAIN turns[sid[r]] = 1..n /\ DOMAIN turns'[sid[r]] = 1..(n + 1)
        /\ \A i \in 1..n : turns'[sid[r]][i] = turns[sid[r]][i]
        /\ turns'[sid[r]][n + 1].req = r
    BY <1>2, Recorded
  <2>n. n \in Nat
    <3>1. turns[sid[r]] \in Seq(Turn)
      BY <1>2 DEF TypeInv, TypeOK
    <3> QED
      BY <3>1
  <2>s. turns'[sid[r]][n + 1].status = status
    <3>1. turns[sid[r]] \in Seq(Turn) /\ turns \in [Session -> Seq(Turn)]
      BY <1>2 DEF TypeInv, TypeOK
    <3>2. turns'[sid[r]] = Append(turns[sid[r]], [req |-> r, status |-> status])
      BY <1>2, <3>1 DEF Record
    <3> QED
      BY <3>1, <3>2
  <2>1. ASSUME NEW s \in Session, NEW i \in DOMAIN turns'[s]
        PROVE  \/ s = sid[r] /\ i = n + 1
               \/ i \in DOMAIN turns[s] /\ turns'[s][i] = turns[s][i]
    <3>1. CASE s # sid[r]
      <4>1. turns'[s] = turns[s]
        BY <2>0, <3>1
      <4> QED
        BY <2>1, <4>1
    <3>2. CASE s = sid[r]
      <4>1. i \in 1..(n + 1)
        BY <2>0, <2>1, <3>2
      <4>2. i = n + 1 \/ i \in 1..n
        BY <2>n, <4>1
      <4> QED
        BY <2>0, <3>2, <4>2
    <3> QED
      BY <3>1, <3>2
  <2>2. ASSUME status = "answered", NEW i \in DOMAIN turns[sid[r]], turns[sid[r]][i].status = "answered",
               msg[turns[sid[r]][i].req].key = msg[r].key, msg[r].key # NULL,
               msg[turns[sid[r]][i].req].session = sid[r], msg[r].session = sid[r]
        PROVE  FALSE
    <3> DEFINE q == turns[sid[r]][i].req
    <3>1. q \in Req /\ turns[sid[r]][i] \in Turn
      BY <1>2, TurnFacts
    <3>2. turns[sid[r]][i] = [req |-> q, status |-> "answered"]
      BY <2>2, <3>1 DEF Turn
    <3>3. Wrote(q, "answered")
      BY <1>2, <3>2 DEF Wrote
    <3>4. Named(r)
      BY <1>2, <2>2, NullAssumption DEF Named
    <3>5. pc[r] \in Executing
      BY DEF Writing, Executing
    <3>6. SameKey(q, r)
      BY <1>2, <2>2, <3>4 DEF SameKey
    <3> QED
      BY <1>0, <3>1, <3>3, <3>5, <3>6 DEF OnceInv
  <2>3. SingleExecution /\ slow + faults + crashes = 0
    BY <1>0, CalmSum DEF OnceInv
  <2> SUFFICES ASSUME NEW s \in Session, NEW i \in DOMAIN turns'[s], NEW j \in DOMAIN turns'[s], i # j,
                      turns'[s][i].status = "answered", turns'[s][j].status = "answered",
                      msg[turns'[s][i].req].session = s, msg[turns'[s][j].req].session = s,
                      msg[turns'[s][i].req].key # NULL,
                      msg[turns'[s][i].req].key = msg[turns'[s][j].req].key
               PROVE  FALSE
    BY DEF SingleExecution
  <2>4. CASE /\ i \in DOMAIN turns[s] /\ turns'[s][i] = turns[s][i]
             /\ j \in DOMAIN turns[s] /\ turns'[s][j] = turns[s][j]
    BY <2>3, <2>4 DEF SingleExecution
  <2>5. CASE s = sid[r] /\ i = n + 1 /\ j \in DOMAIN turns[s] /\ turns'[s][j] = turns[s][j]
    BY <2>0, <2>s, <2>2, <2>5
  <2>6. CASE s = sid[r] /\ j = n + 1 /\ i \in DOMAIN turns[s] /\ turns'[s][i] = turns[s][i]
    BY <2>0, <2>s, <2>2, <2>6
  <2> QED
    BY <2>1, <2>4, <2>5, <2>6
<1> QED
  BY <1>4, <1>6, <1>7, <1>8, <1>9
LEMMA InitOnceInv == Init => OnceInv
  BY DEF Init, OnceInv, Greeted, Executing, Wrote, SingleExecution

LEMMA SendOnceInv == ASSUME TypeInv, ConvInv, OnceInv, NEW r \in Req, Send(r) PROVE OnceInv'
<1>1. pc \in [Req -> Steps] /\ msg \in [Req -> Message \cup {NULL}]
  BY DEF TypeInv, TypeOK
<1>2. /\ pc[r] = "unsent" /\ pc'[r] = "start" /\ turns' = turns /\ idem' = idem
      /\ \A q \in Req : q # r => pc'[q] = pc[q] /\ msg'[q] = msg[q]
      /\ slow' = slow /\ faults' = faults /\ crashes' = crashes
  BY <1>1 DEF Send, Goto, redis, db, env
<1>3. /\ \A q \in Req : Wrote(q, "answered")' <=> Wrote(q, "answered")
      /\ \A q, p \in Req : q # r /\ p # r => (SameKey(q, p)' <=> SameKey(q, p)) /\ (Saved(q)' <=> Saved(q))
  BY <1>2 DEF Wrote, SameKey, Named, Saved
<1>4. ~Wrote(r, "answered")
  BY <1>2, WroteFacts DEF Before
<1>5. Calm' <=> Calm
  BY <1>2 DEF Calm
<1>6. ASSUME Calm PROVE SingleExecution'
  <2>1. SingleExecution /\ slow + faults + crashes = 0
    BY <1>6, CalmSum DEF OnceInv
  <2>2. \A s \in Session : \A i \in DOMAIN turns[s] : msg'[turns[s][i].req] = msg[turns[s][i].req]
    BY <1>2, TurnHasRow
  <2> QED
    BY <1>2, <2>1, <2>2 DEF SingleExecution
<1> QED
  BY <1>2, <1>3, <1>4, <1>5, <1>6 DEF OnceInv, Greeted, Executing

\* Where the lookup finds nothing, no request of the session has been executed with
\* the key.
LEMMA NothingCached ==
  ASSUME TypeInv, LockInv, ConvInv, OnceInv, Calm, NEW r \in Req, pc[r] = "idempotency", Cached(r) = NULL,
         NEW q \in Req, Wrote(q, "answered")
  PROVE  ~SameKey(q, r)
<1> SUFFICES ASSUME SameKey(q, r) PROVE FALSE
  OBVIOUS
<1>1. ~Saved(q)
  BY DEF SameKey, Saved, Cached
<1>2. pc[q] \in {"memory", "save_last"}
  BY <1>1 DEF OnceInv
<1>3. lock[KeyOf(q)] = q /\ lock[KeyOf(r)] = r
  BY <1>2 DEF LockInv, HolderOwnsLock, Holding, Held, Calm
<1> QED
  BY <1>2, <1>3, SameKeySameLock

\* Admission, resolution, generation and release.
LEMMA QuietOnceInv ==
  ASSUME TypeInv, TypeInv', ConvInv, OnceInv, NEW r \in Req,
         \/ RefuseBusy(r) \/ RefuseCircuitOpen(r) \/ AcquireLock(r) \/ IdempotencyHit(r)
         \/ ResolveExisting(r) \/ ResolveNew(r) \/ CreateSession(r) \/ LoadMemory(r)
         \/ GenerateSucceeds(r) \/ GenerateFails(r) \/ Release(r) \/ Unlock(r)
  PROVE  OnceInv'
<1> DEFINE step == pc'[r]
<1>0. pc \in [Req -> Steps]
  BY DEF TypeInv, TypeOK
<1>1. turns' = turns /\ msg' = msg /\ idem' = idem /\ UNCHANGED env
  BY DEF RefuseBusy, RefuseCircuitOpen, Refuse, AcquireLock, IdempotencyHit, ResolveExisting, ResolveNew,
     CreateSession, LoadMemory, GenerateSucceeds, GenerateFails, Release, Unlock, redis, db
<1>2. /\ pc' = [pc EXCEPT ![r] = step]
      /\ pc[r] \notin {"memory", "save_last"}
      /\ step \in Greeted => pc[r] \in Greeted
      /\ step \in Executing => pc[r] \in Executing
      /\ step \notin {"memory", "save_last"}
  BY <1>0 DEF RefuseBusy, RefuseCircuitOpen, Refuse, AcquireLock, IdempotencyHit, ResolveExisting, ResolveNew,
     CreateSession, LoadMemory, GenerateSucceeds, GenerateFails, Release, Unlock, Resolved, Abort, Finish,
     Goto, Greeted, Executing
<1>3. (Calm' <=> Calm) /\ (Saved(r)' <=> Saved(r))
  BY <1>1 DEF Calm, Saved, env
<1> QED
  BY <1>1, <1>2, <1>3, OnceMoves DEF OnceInv

\* Lookup and fast path.
LEMMA LookupOnceInv ==
  ASSUME TypeInv, TypeInv', LockInv, ConvInv, OnceInv, NEW r \in Req, NormalPath(r) \/ FastPath(r)
  PROVE  OnceInv'
<1> DEFINE step == pc'[r]
<1>0. pc \in [Req -> Steps]
  BY DEF TypeInv, TypeOK
<1>1. /\ turns' = turns /\ msg' = msg /\ idem' = idem /\ UNCHANGED env
      /\ pc[r] = "idempotency" /\ Cached(r) = NULL
  BY DEF NormalPath, FastPath, redis, db
<1>2. /\ pc' = [pc EXCEPT ![r] = step]
      /\ \/ step = "resolve" /\ (msg[r].greeting => msg[r].key = NULL)
         \/ step = "save_first"
  BY <1>0 DEF NormalPath, FastPath, Goto
<1>3. Calm' <=> Calm
  BY <1>1 DEF Calm, env
<1>4. step \in Greeted /\ msg[r].greeting => Saved(r)'
  BY <1>1, <1>2 DEF Saved, Greeted
<1>5. ~Wrote(r, "answered")
  BY <1>1, WroteFacts DEF Before
<1>6. Calm => \A q \in Req : Wrote(q, "answered") => ~SameKey(q, r)
  BY <1>1, NothingCached
<1> QED
  BY <1>1, <1>2, <1>3, <1>4, <1>5, <1>6, OnceMoves

\* The response is saved.
LEMMA SaveOnceInv ==
  ASSUME ResponseEncodes = TRUE, TypeInv, TypeInv', ConvInv, OnceInv, NEW r \in Req,
         SaveFirst(r) \/ PersistInteraction(r) \/ SaveLast(r), Calm'
  PROVE  OnceInv'
<1> DEFINE step == pc'[r]
<1>0. /\ pc \in [Req -> Steps] /\ idem \in [IdemKey -> Req \cup {NULL}] /\ faults \in Nat
      /\ msg[r] \in Message /\ r # NULL
  BY ConstantsAssumption, NullAssumption
  DEF TypeInv, TypeOK, SentHasMessage, SaveFirst, PersistInteraction, SaveLast
<1>1. /\ turns' = turns /\ msg' = msg /\ faults' = faults
  BY <1>0 DEF SaveFirst, PersistInteraction, SaveLast, db, env, Calm
<1>2. pc' = [pc EXCEPT ![r] = step] /\ step \in {"resolve", "save_last", "release"}
  BY <1>0 DEF SaveFirst, PersistInteraction, SaveLast, Goto
<1>3. Calm' => Calm
  BY <1>1 DEF SaveFirst, PersistInteraction, SaveLast, Calm, env
<1>4. CASE PersistInteraction(r)
  <2>1. idem' = idem /\ pc[r] = "memory" /\ step # "resolve"
    BY <1>0, <1>4 DEF PersistInteraction, redis, Goto
  <2>2. step = "release" => msg[r].key = NULL \/ msg[r].greeting
    BY <1>0, <1>4 DEF PersistInteraction, Goto, Message
  <2>3. step = "release" => Saved(r)'
    BY <1>1, <1>3, <2>1, <2>2 DEF OnceInv, Greeted, Saved
  <2> QED
    BY <1>1, <1>2, <1>3, <2>1, <2>3, OnceMoves DEF Greeted, Executing
<1>5. CASE SaveFirst(r) \/ SaveLast(r)
  <2>1. idem' = [idem EXCEPT ![msg[r].key] = r]
    BY <1>0, <1>1, <1>5 DEF SaveFirst, SaveLast
  <2>2. (\A k \in IdemKey : idem[k] # NULL => idem'[k] # NULL) /\ Saved(r)'
    BY <1>0, <1>1, <2>1 DEF Saved, Message
  <2>3. step \in Executing => pc[r] \in Executing
    BY <1>0, <1>5 DEF SaveFirst, SaveLast, Goto, Executing
  <2> QED
    BY <1>1, <1>2, <1>3, <2>2, <2>3, OnceMoves DEF OnceInv
<1> QED
  BY <1>4, <1>5

LEMMA NextOnceInv ==
  ASSUME ResponseEncodes = TRUE
  PROVE  TypeInv /\ LockInv /\ ConvInv /\ OrderInv /\ OnceInv /\ [Next]_vars => OnceInv'
<1> SUFFICES ASSUME TypeInv, LockInv, ConvInv, OrderInv, OnceInv, [Next]_vars, Calm' PROVE OnceInv'
  BY DEF OnceInv
<1>0. TypeInv' /\ pc \in [Req -> Steps]
  BY NextTypeInv DEF TypeInv, TypeOK
<1>1. slow \in Nat /\ faults \in Nat /\ crashes \in Nat
  BY ConstantsAssumption DEF TypeInv, TypeOK
<1>2. ASSUME UNCHANGED <<state, idem, db>>, Calm PROVE OnceInv'
  <2>1. UNCHANGED <<pc, msg, turns, idem>> /\ slow + faults + crashes = 0
    BY <1>2, CalmSum DEF state, db
  <2> QED
    BY <1>2, <2>1 DEF OnceInv, Wrote, Saved, SameKey, Named, SingleExecution
<1>3. CASE UNCHANGED vars
  BY <1>2, <1>3 DEF vars, redis, env, Calm
<1>4. ASSUME NEW k \in LockKey, ExpireLock(k) PROVE OnceInv'
  <2>1. Calm
    BY <1>1, <1>4 DEF ExpireLock, Calm
  <2> QED
    BY <1>2, <1>4, <2>1 DEF ExpireLock
<1>5. ASSUME NEW r \in Req, Persist(r) \/ PersistFallback(r) PROVE OnceInv'
  <2>1. /\ msg' = msg /\ idem' = idem /\ sid' = sid /\ faults' = faults /\ UNCHANGED <<slow, crashes>>
        /\ pc[r] \in Writing
        /\ \/ /\ Record(r, "answered") /\ pc' = [pc EXCEPT ![r] = "memory"] /\ pc[r] = "persist"
           \/ /\ Record(r, "failed") /\ pc' = [pc EXCEPT ![r] = "release"]
    BY <1>1, <1>5 DEF Persist, PersistFallback, Goto, redis, env, Writing, Calm
  <2>2. Calm' => Calm
    BY <2>1 DEF Calm
  <2> QED
    BY <1>0, <2>1, <2>2, OnceWrites
<1>6. ASSUME NEW r \in Req,
             \/ AcquireFails(r) \/ SaveFirstFails(r) \/ ContextFails(r) \/ PersistFails(r)
             \/ ReleaseByGet(r) \/ ReleaseFails(r) \/ Crash(r)
      PROVE  FALSE
  BY <1>1, <1>6 DEF AcquireFails, SaveFirstFails, ContextFails, PersistFails, ReleaseByGet, ReleaseFails, Crash, Calm
<1>7. ASSUME NEW r \in Req, Step(r) \/ Environment(r) PROVE OnceInv'
  BY <1>0, <1>5, <1>6, <1>7, SendOnceInv, QuietOnceInv, LookupOnceInv, SaveOnceInv DEF Step, Environment
<1> QED
  BY <1>3, <1>4, <1>7 DEF Next

-----------------------------------------------------------------------------
(***************************************************************************)
(* Requests that name their session, one after the other                   *)
(***************************************************************************)

\* When a request that names the session has written its turn, the requests whose
\* turns come before have ended: none is still generating, persisting or about to
\* save its response.  A retry is such a request, whether its key is found or not.
OneAfterAnother ==
  slow = 0 => \A s \in Session : \A i, j \in DOMAIN turns[s] :
    LET q == turns[s][i].req  r == turns[s][j].req IN
    i < j /\ Named(q) /\ Named(r) => q # r /\ pc[q] \in {"done", "dead"}

LEMMA EndedStays ==
  ASSUME TypeInv, [Next]_vars, NEW q \in Req, pc[q] \in {"done", "dead"}
  PROVE  pc'[q] \in {"done", "dead"}
<1>1. ASSUME NEW r \in Req, Step(r) \/ Environment(r) PROVE pc'[q] \in {"done", "dead"}
  <2>1. CASE q # r
    BY <1>1, <2>1, Advances
  <2>2. CASE q = r
    <3>1. pc'[q] \in Steps /\ Rank[pc'[q]] < Rank[pc[q]] /\ pc[q] \in Steps
      BY <1>1, <2>2, Advances DEF TypeInv, TypeOK
    <3> QED
      BY <3>1 DEF Rank, Steps, Held
  <2> QED
    BY <2>1, <2>2
<1> QED
  BY <1>1 DEF Next, ExpireLock, vars, state

\* What a request asked for is fixed once it is sent.
LEMMA MessageStands ==
  ASSUME TypeInv, [Next]_vars, NEW q \in Req, pc[q] # "unsent"
  PROVE  msg'[q] = msg[q]
<1>1. ASSUME NEW r \in Req, Send(r) PROVE msg'[q] = msg[q]
  BY <1>1 DEF Send, TypeInv, TypeOK
<1> QED
  BY <1>1 DEF Next, ExpireLock, vars, state, Step, Environment, RefuseBusy, RefuseCircuitOpen, Refuse,
     AcquireLock, AcquireFails, IdempotencyHit, NormalPath, FastPath, SaveFirst, SaveFirstFails,
     ResolveExisting, ResolveNew, CreateSession, ContextFails, LoadMemory, GenerateSucceeds,
     GenerateFails, PersistFallback, Persist, PersistFails, PersistInteraction, SaveLast, Release,
     Unlock, ReleaseByGet, ReleaseFails, Crash

LEMMA NextOneAfterAnother ==
  TypeInv /\ LockInv /\ ConvInv /\ OrderInv /\ OneAfterAnother /\ [Next]_vars => OneAfterAnother'
<1> SUFFICES ASSUME TypeInv, LockInv, ConvInv, OrderInv, OneAfterAnother, [Next]_vars, slow' = 0,
                    NEW s \in Session, NEW i \in DOMAIN turns'[s], NEW j \in DOMAIN turns'[s], i < j,
                    msg'[turns'[s][i].req].session # NULL, msg'[turns'[s][j].req].session # NULL
             PROVE  turns'[s][i].req # turns'[s][j].req /\ pc'[turns'[s][i].req] \in {"done", "dead"}
  BY DEF OneAfterAnother, Named
<1> DEFINE q == turns'[s][i].req
           p == turns'[s][j].req
<1>0. pc \in [Req -> Steps] /\ slow = 0
  BY ConstantsAssumption DEF TypeInv, TypeOK, Next, vars, env, ExpireLock, Step, Environment, Send, RefuseBusy,
     RefuseCircuitOpen, Refuse, AcquireLock, AcquireFails, IdempotencyHit, NormalPath, FastPath, SaveFirst,
     SaveFirstFails, ResolveExisting, ResolveNew, CreateSession, ContextFails, LoadMemory, GenerateSucceeds,
     GenerateFails, PersistFallback, Persist, PersistFails, PersistInteraction, SaveLast, Release, Unlock,
     ReleaseByGet, ReleaseFails, Crash
<1>1. ASSUME i \in DOMAIN turns[s], turns'[s][i] = turns[s][i],
             j \in DOMAIN turns[s], turns'[s][j] = turns[s][j]
      PROVE  q # p /\ pc'[q] \in {"done", "dead"}
  <2>1. q \in Req /\ p \in Req /\ pc[q] # "unsent" /\ pc[p] # "unsent"
    BY <1>1, TurnHasRow
  <2>2. Named(q) /\ Named(p)
    BY <2>1, MessageStands DEF Named
  <2>3. q # p /\ pc[q] \in {"done", "dead"}
    BY <1>0, <1>1, <2>2 DEF OneAfterAnother
  <2> QED
    BY <2>1, <2>3, EndedStays
<1>2. CASE turns' = turns
  BY <1>1, <1>2
<1>3. CASE turns' # turns
  <2>1. PICK r \in Req : PersistFallback(r) \/ Persist(r) \/ PersistFails(r)
    BY <1>3 DEF Next, ExpireLock, vars, db, Step, Environment, Send, RefuseBusy, RefuseCircuitOpen, Refuse,
       AcquireLock, AcquireFails, IdempotencyHit, NormalPath, FastPath, SaveFirst, SaveFirstFails,
       ResolveExisting, ResolveNew, CreateSession, ContextFails, LoadMemory, GenerateSucceeds, GenerateFails,
       PersistInteraction, SaveLast, Release, Unlock, ReleaseByGet, ReleaseFails, Crash
  <2>2. /\ Record(r, "failed") \/ Record(r, "answered")
        /\ msg' = msg /\ pc[r] \in Writing /\ \A x \in Req : x # r => pc'[x] = pc[x]
    BY <1>0, <1>3, <2>1 DEF PersistFallback, Persist, PersistFails, Goto, Writing
  <2>3. sid[r] \in Session /\ Holding(r) /\ pc[r] # "unsent" /\ ~HasTurn(r)
    BY <2>2 DEF ConvInv, WritesToOwn, WritesOnce, Before, Holding, Held, Writing
  <2>4. \/ s = sid[r] /\ i = Len(turns[sid[r]]) + 1
        \/ /\ i \in DOMAIN turns[s] /\ turns'[s][i] = turns[s][i]
    BY <2>2, <2>3, OneMoreTurn
  <2>5. \/ s = sid[r] /\ j = Len(turns[sid[r]]) + 1 /\ turns'[s][j].req = r
        \/ /\ j \in DOMAIN turns[s] /\ turns'[s][j] = turns[s][j]
           /\ s = sid[r] => j \in 1..Len(turns[sid[r]])
    BY <2>2, <2>3, OneMoreTurn
  <2>6. CASE s = sid[r] /\ i = Len(turns[sid[r]]) + 1
    <3>1. turns[sid[r]] \in Seq(Turn)
      BY <2>3 DEF TypeInv, TypeOK
    <3>2. Len(turns[sid[r]]) \in Nat
      BY <3>1
    <3> QED
      BY <2>5, <2>6, <3>2
  <2>7. CASE /\ i \in DOMAIN turns[s] /\ turns'[s][i] = turns[s][i]
             /\ s = sid[r] /\ turns'[s][j].req = r
    <3>1. q \in Req /\ HasTurn(q) /\ pc[q] # "unsent" /\ sid[q] = s
      BY <2>7, TurnHasRow DEF OrderInv, SessionsKept
    <3>2. q # r
      BY <2>3, <3>1
    <3>3. Named(q) /\ Named(r)
      BY <2>2, <2>7 DEF Named
    <3>4. msg[q].session = s /\ msg[r].session = s
      BY <2>3, <2>7, <3>1, <3>3, NullAssumption DEF OrderInv, SessionsKept
    <3>5. KeyOf(q) = KeyOf(r)
      BY <2>3, <3>1, <3>3, <3>4, NamedKeys
    <3>6. ~Holding(q)
      BY <1>0, <2>3, <3>1, <3>2, <3>5 DEF LockInv, HolderOwnsLock
    <3>7. pc[q] \in {"done", "dead"}
      BY <1>0, <3>1, <3>6 DEF ConvInv, WritesOnce, Before, Holding, Steps
    <3> QED
      BY <2>2, <2>7, <3>1, <3>2, <3>7
  <2> QED
    BY <1>1, <2>4, <2>5, <2>6, <2>7
<1> QED
  BY <1>2, <1>3

-----------------------------------------------------------------------------
\* What becomes of a retry, whatever fails or dies: while no lock expires under its
\* holder, of the requests that name a session one is executed after the other, also
\* of those with one key, so that a retry which is executed again, as it is shipped,
\* never races the request it repeats; and if a response can be encoded, the lookup
\* under the lock finds it: a key is then executed to an answer once, while nothing
\* fails.
THEOREM RetriesAlways == Spec => [](OneAfterAnother /\ (ResponseEncodes => SingleExecution))
<1>1. Init => OneAfterAnother
  BY DEF Init, OneAfterAnother
<1>2. Spec => []OneAfterAnother
  BY <1>1, NextOneAfterAnother, OrderInvariant, PTL DEF Spec
<1>3. TypeInv /\ OnceInv => SingleExecution
  BY CalmSum DEF OnceInv, SingleExecution
<1>4. CASE ResponseEncodes = TRUE
  <2>1. TypeInv /\ LockInv /\ ConvInv /\ OrderInv /\ OnceInv /\ [Next]_vars => OnceInv'
    BY <1>4, NextOnceInv
  <2>2. Spec => []SingleExecution
    BY <1>3, <2>1, InitOnceInv, OrderInvariant, PTL DEF Spec
  <2> QED
    BY <1>2, <2>2, PTL
<1>5. CASE ResponseEncodes = FALSE
  <2>1. OneAfterAnother => OneAfterAnother /\ (ResponseEncodes => SingleExecution)
    BY <1>5
  <2> QED
    BY <1>2, <2>1, PTL
<1> QED
  BY <1>4, <1>5, ConstantsAssumption

-----------------------------------------------------------------------------
(***************************************************************************)
(* The pipeline is a ConversationLog                                       *)
(***************************************************************************)

LEMMA LogWritten == ASSUME NEW r \in Req PROVE r \in Log!Written <=> HasTurn(r)
  BY DEF Log!Written, HasTurn

\* The lock table seen from the conversations.
LEMMA HolderUnchanged == ASSUME lock' = lock PROVE [s \in Session |-> lock[s]]' = [s \in Session |-> lock[s]]
  OBVIOUS

\* A change of one lock changes the holder of its conversation.
LEMMA HolderChanged ==
  ASSUME TypeInv, NEW k \in Session, NEW h, lock' = [lock EXCEPT ![k] = h]
  PROVE  [s \in Session |-> lock[s]]' = [[s \in Session |-> lock[s]] EXCEPT ![k] = h]
<1>1. lock \in [LockKey -> Req \cup {NULL}] /\ Session \subseteq LockKey
  BY DEF TypeInv, TypeOK, LockKey
<1>2. \A s \in Session : lock'[s] = IF s = k THEN h ELSE lock[s]
  BY <1>1
<1> QED
  BY <1>2

\* The request whose key is free is admitted to its conversation.
LEMMA Admits ==
  ASSUME TypeInv, ConvInv, NamedInv, NEW r \in Req, pc[r] = "start", lock[KeyOf(r)] = NULL,
         lock' = [lock EXCEPT ![KeyOf(r)] = r], turns' = turns
  PROVE  Log!Next
<1>1. PICK s \in Session : s = KeyOf(r)
  BY DEF NamedInv, LocksItsSession
<1>2. r \notin Log!Written
  BY LogWritten DEF ConvInv, WritesOnce, Before
<1>3. Log!Admit(r, s)
  BY <1>1, <1>2, HolderChanged DEF Log!Admit
<1> QED
  BY <1>3 DEF Log!Next

\* The holder of a conversation writes to it.
LEMMA LogWrites ==
  ASSUME TypeInv, LockInv, ConvInv, NamedInv, slow = 0, NEW r \in Req, pc[r] \in Writing,
         NEW status \in {"answered", "failed"}, Record(r, status), lock' = lock
  PROVE  Log!Next
<1>1. sid[r] \in Session /\ sid[r] = KeyOf(r)
  BY NullAssumption DEF ConvInv, WritesToOwn, NamedInv, LocksItsSession
<1>2. lock[sid[r]] = r
  BY <1>1 DEF LockInv, HolderOwnsLock, Holding, Held, Writing
<1>3. r \notin Log!Written
  BY LogWritten DEF ConvInv, WritesOnce, Before, Writing
<1>4. Log!Write(r, sid[r])
  BY <1>1, <1>2, <1>3, HolderUnchanged DEF Log!Write, Record
<1> QED
  BY <1>1, <1>4 DEF Log!Next

\* A lock key that becomes free is a request leaving, or no conversation's.
LEMMA Leaves ==
  ASSUME TypeInv, NEW k \in LockKey, lock[k] # NULL, lock' = [lock EXCEPT ![k] = NULL], turns' = turns
  PROVE  [Log!Next]_(Log!vars)
<1>1. CASE k \in Session
  <2>1. Log!Leave(k)
    BY <1>1, HolderChanged DEF Log!Leave
  <2> QED
    BY <1>1, <2>1 DEF Log!Next
<1>2. CASE k \notin Session
  <2>1. lock \in [LockKey -> Req \cup {NULL}]
    BY DEF TypeInv, TypeOK
  <2>2. [s \in Session |-> lock[s]]' = [s \in Session |-> lock[s]]
    BY <1>2, <2>1 DEF LockKey
  <2> QED
    BY <2>2 DEF Log!vars
<1> QED
  BY <1>1, <1>2

LEMMA NextLog ==
  ASSUME TypeInv, LockInv, ConvInv, NamedInv, slow = 0, [Next]_vars
  PROVE  [Log!Next]_(Log!vars)
<1>1. ASSUME lock' = lock, turns' = turns PROVE [Log!Next]_(Log!vars)
  BY <1>1, HolderUnchanged DEF Log!vars
<1>2. CASE UNCHANGED vars
  BY <1>1, <1>2 DEF vars, redis, db
<1>3. ASSUME NEW k \in LockKey, ExpireLock(k) PROVE [Log!Next]_(Log!vars)
  BY <1>3, Leaves DEF ExpireLock, db
<1>4. ASSUME NEW r \in Req, Step(r) \/ Environment(r) PROVE [Log!Next]_(Log!vars)
  <2>1. CASE AcquireLock(r) \/ AcquireFails(r)
    BY <1>1, <2>1, Admits DEF AcquireLock, AcquireFails, db
  <2>2. CASE Persist(r) \/ PersistFails(r) \/ PersistFallback(r)
    <3>1. /\ lock' = lock /\ pc[r] \in Writing
          /\ turns' = turns \/ Record(r, "answered") \/ Record(r, "failed")
      BY <2>2 DEF Persist, PersistFails, PersistFallback, redis, Writing
    <3> QED
      BY <1>1, <3>1, LogWrites
  <2>3. CASE Release(r) \/ Unlock(r)
    <3>1. /\ lock' = [lock EXCEPT ![KeyOf(r)] = IF lock[KeyOf(r)] = r \/ Unlock(r) THEN NULL ELSE lock[KeyOf(r)]]
          /\ turns' = turns /\ Holding(r) /\ pc[r] # "unsent"
      BY <2>3 DEF Release, Unlock, db, Holding, Held
    <3>2. lock[KeyOf(r)] = r /\ r # NULL
      BY <3>1, NullAssumption DEF LockInv, HolderOwnsLock
    <3>3. KeyOf(r) \in LockKey
      BY <3>1 DEF NamedInv, LocksItsSession, LockKey
    <3> QED
      BY <3>1, <3>2, <3>3, Leaves
  <2>4. CASE \/ Send(r) \/ RefuseBusy(r) \/ RefuseCircuitOpen(r) \/ IdempotencyHit(r) \/ FastPath(r)
             \/ NormalPath(r) \/ SaveFirst(r) \/ SaveFirstFails(r) \/ ResolveExisting(r) \/ ResolveNew(r)
             \/ CreateSession(r) \/ LoadMemory(r) \/ ContextFails(r) \/ GenerateSucceeds(r)
             \/ GenerateFails(r) \/ PersistInteraction(r) \/ SaveLast(r) \/ ReleaseByGet(r)
             \/ ReleaseFails(r) \/ Crash(r)
    <3>1. lock' = lock /\ turns' = turns
      BY <2>4 DEF Send, RefuseBusy, RefuseCircuitOpen, Refuse, IdempotencyHit, FastPath, NormalPath,
         SaveFirst, SaveFirstFails, ResolveExisting, ResolveNew, CreateSession, LoadMemory, ContextFails,
         GenerateSucceeds, GenerateFails, PersistInteraction, SaveLast, ReleaseByGet, ReleaseFails, Crash,
         redis, db
    <3> QED
      BY <1>1, <3>1
  <2> QED
    BY <1>4, <2>1, <2>2, <2>3, <2>4 DEF Step, Environment
<1> QED
  BY <1>2, <1>3, <1>4 DEF Next

LEMMA InitLog == Init => Log!Init
  BY DEF Init, Log!Init, LockKey

\* Whatever dies, fails and races: while clients name their sessions and no lock
\* expires under its holder, a conversation is written by the request admitted to it
\* alone, one turn at most, and requests are admitted one at a time.
THEOREM ImplementsConversationLogAlways ==
  ASSUME NewChats = FALSE, MaxSlow = 0
  PROVE  Spec => ImplementsConversationLog
<1>1. TypeInv => slow = 0
  BY DEF TypeInv, TypeOK
<1>2. TypeInv /\ LockInv /\ ConvInv /\ NamedInv /\ [Next]_vars => [Log!Next]_(Log!vars)
  BY <1>1, NextLog
<1> QED
  BY <1>2, InitLog, NamedInvariant, PTL DEF Spec, ImplementsConversationLog, Log!Spec
=============================================================================
