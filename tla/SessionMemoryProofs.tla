------------------------- MODULE SessionMemoryProofs -------------------------
(***************************************************************************)
(* What holds of SessionMemory for any window, any number of turns,        *)
(* deletions and failures.                                                 *)
(***************************************************************************)
EXTENDS SessionMemory, SequenceTheorems, FiniteSetTheorems, TLAPS

\* A turn under way has a sender, and a history where its step needs one.
TurnInv ==
  /\ pc # "idle" => by \in User /\ nr \in 1..MaxTurn
  /\ pc = "write_back" => draft # NULL
  /\ pc = "generate" => seen # NULL
  /\ \A w \in warming : Len(w.turns) <= Window

TypeInv == TypeOK /\ TurnInv

\* What a stretch of a sequence is.
LEMMA OldestOf ==
  ASSUME NEW s \in History, NEW k \in Nat
  PROVE  /\ Oldest(s, k) \in History /\ Len(Oldest(s, k)) <= k
         /\ \A i \in DOMAIN Oldest(s, k) : i \in DOMAIN s /\ Oldest(s, k)[i] = s[i]
BY DEF Oldest, History

LEMMA NewestOf ==
  ASSUME NEW s \in History, NEW k \in Nat
  PROVE  /\ Newest(s, k) \in History /\ Len(Newest(s, k)) <= k
         /\ \E d \in Nat : \A i \in DOMAIN Newest(s, k) :
              i + d \in DOMAIN s /\ Newest(s, k)[i] = s[i + d]
<1>1. s \in Seq(Turn) /\ Len(s) \in Nat
  BY DEF History
<1>2. PICK d \in 0..Len(s) : d = IF Len(s) < k THEN 0 ELSE Len(s) - k
  BY <1>1
<1>3. Newest(s, k) = SubSeq(s, d + 1, Len(s))
  BY <1>1, <1>2 DEF Newest
<1>4. \A i \in (d + 1)..Len(s) : s[i] \in Turn
  BY <1>1
<1>5. /\ Newest(s, k) \in Seq(Turn)
      /\ Len(Newest(s, k)) = Len(s) - d
      /\ \A i \in 1..(Len(s) - d) : Newest(s, k)[i] = s[i + d]
  <2> DEFINE n == Len(s)
  <2>1. d + 1 \in Int /\ n \in Int
    BY <1>1
  <2>2. /\ SubSeq(s, d + 1, n) \in Seq(Turn)
        /\ Len(SubSeq(s, d + 1, n)) = IF d + 1 <= n THEN n - (d + 1) + 1 ELSE 0
        /\ \A i \in 1..(n - (d + 1) + 1) : SubSeq(s, d + 1, n)[i] = s[d + 1 + i - 1]
    BY <1>1, <1>4, <2>1, SubSeqProperties
  <2>3. \A i \in 1..(n - d) : d + 1 + i - 1 = i + d
    BY <1>1
  <2> QED
    BY <1>1, <1>3, <2>2, <2>3
<1>6. \A i \in DOMAIN Newest(s, k) : i + d \in DOMAIN s /\ Newest(s, k)[i] = s[i + d]
  BY <1>1, <1>5
<1>7. Newest(s, k) \in History /\ Len(Newest(s, k)) <= k
  BY <1>1, <1>2, <1>5 DEF History
<1>8. d \in Nat
  BY <1>1, <1>2
<1> QED
  BY <1>6, <1>7, <1>8

LEMMA ThisTurn ==
  ASSUME TypeInv, pc # "idle", NEW b \in BOOLEAN
  PROVE  This(b) \in Turn
BY DEF TypeInv, TurnInv, This, Turn

LEMMA CommitType ==
  ASSUME TypeInv, Commit, pc # "idle"
  PROVE  log' \in History /\ committed' \in SUBSET Turn
<1> DEFINE t == This(pc = "persist")
<1>1. t \in Turn
  BY ThisTurn
<1>2. log' = Append(log, t) /\ committed' = committed \cup {t}
  BY DEF Commit
<1> HIDE DEF t
<1>3. log \in Seq(Turn) /\ committed \in SUBSET Turn
  BY DEF TypeInv, TypeOK, History
<1> QED
  BY <1>1, <1>2, <1>3, AppendProperties DEF History

LEMMA WrittenHistory ==
  ASSUME TypeInv, pc = "write_back"
  PROVE  Written \in History /\ Len(Written) <= Window
<1>1. This(TRUE) \in Turn /\ draft \in History
  BY ThisTurn DEF TypeInv, TypeOK, TurnInv
<1>2. Append(draft, This(TRUE)) \in History
  BY <1>1, AppendProperties DEF History
<1> QED
  BY <1>2, NewestOf, ConstantsAssumption DEF Written

\* A fault counts, and leaves the other counters alone.
LEMMA FaultType ==
  ASSUME TypeOK, Fault
  PROVE  /\ faults' \in 0..MaxFault
         /\ nr' \in 0..MaxTurn /\ clearing' \in BOOLEAN /\ deletes' \in 0..MaxDelete
         /\ nr \in 1..MaxTurn => nr' \in 1..MaxTurn
BY ConstantsAssumption DEF TypeOK, Fault

LEMMA InitTypeInv == Init => TypeInv
<1> SUFFICES ASSUME Init PROVE TypeInv
  OBVIOUS
<1>1. <<>> \in History
  BY DEF History
<1>2. 0 \in 0..MaxTurn /\ 0 \in 0..MaxDelete /\ 0 \in 0..MaxFault
  BY ConstantsAssumption
<1> QED
  BY <1>1, <1>2 DEF Init, TypeInv, TypeOK, TurnInv, Steps, Warming

LEMMA NextTypeInv == TypeInv /\ [Next]_vars => TypeInv'
<1> SUFFICES ASSUME TypeInv, [Next]_vars PROVE TypeInv'
  OBVIOUS
<1> USE ConstantsAssumption
    DEF TypeInv, TypeOK, TurnInv, Steps, Goto, EndTurn, db, redis, history, env
<1>0. NULL \notin History
  BY NullAssumption DEF History
<1>1. CASE UNCHANGED vars
  BY <1>1 DEF vars, turn
<1>2. ASSUME NEW u \in User, Begin(u) PROVE TypeInv'
  BY <1>2 DEF Begin
<1>3. CASE ReadContext
  BY <1>3 DEF ReadContext, Resolved
<1>4. CASE ReadContextFails
  BY <1>4, FaultType DEF ReadContextFails
<1>5. CASE Lookup \/ Sync
  BY <1>5 DEF Lookup, Sync, Resolved
<1>6. CASE Create
  BY <1>6 DEF Create
<1>7. CASE CreateFails
  <2>1. row' \in User \cup {NULL}
    BY <1>7 DEF CreateFails
  <2> QED
    BY <1>7, <2>1, FaultType DEF CreateFails
<1>8. CASE SaveContext
  BY <1>8 DEF SaveContext, Resolved
<1>9. CASE SaveContextFails
  <2>1. context' \in User \cup {NULL}
    BY <1>9 DEF SaveContextFails
  <2> QED
    BY <1>9, <2>1, FaultType DEF SaveContextFails, Resolved
<1>10. CASE LoadHistory
  <2>1. cached # NULL => Newest(cached, Window) \in History
    BY NewestOf
  <2> QED
    BY <1>10, <1>0, <2>1 DEF LoadHistory
<1>11. CASE LoadHistoryFails
  BY <1>11, FaultType DEF LoadHistoryFails
<1>12. CASE Generate
  BY <1>12 DEF Generate
<1>13. CASE Stop
  BY <1>13, FaultType DEF Stop
<1>14. CASE ReadLog
  <2>1. Oldest(log, Window) \in History /\ Len(Oldest(log, Window)) <= Window
    BY OldestOf
  <2>2. [nr |-> nr, turns |-> Oldest(log, Window)] \in Warming
    BY <2>1 DEF Warming
  <2> QED
    BY <1>14, <1>0, <2>1, <2>2 DEF ReadLog
<1>15. ASSUME NEW w \in warming, Warm(w) PROVE TypeInv'
  <2>1. w.turns \in History /\ Len(w.turns) <= Window
    BY DEF Warming
  <2>2. late' \in BOOLEAN
    BY <1>15 DEF Warm
  <2> QED
    BY <1>15, <2>1, <2>2 DEF Warm, turn
<1>16. ASSUME NEW w \in warming, WarmFails(w) PROVE TypeInv'
  BY <1>16, FaultType DEF WarmFails, turn
<1>17. CASE Persist
  <2>1. CASE row = NULL
    BY <1>17, <2>1 DEF Persist
  <2>2. CASE row # NULL
    <3>1. log' \in History /\ committed' \in SUBSET Turn
      BY <1>17, <2>2, CommitType DEF Persist
    <3> QED
      BY <1>17, <2>2, <3>1 DEF Persist
  <2> QED
    BY <2>1, <2>2
<1>23. CASE PersistFails
  <2>1. log' \in History /\ committed' \in SUBSET Turn
    BY <1>23, CommitType DEF PersistFails
  <2> QED
    BY <1>23, <2>1, FaultType DEF PersistFails
<1>18. CASE Remember
  BY <1>18 DEF Remember
<1>19. CASE WriteBack
  <2>1. Written \in History /\ Len(Written) <= Window
    BY <1>19, WrittenHistory DEF WriteBack
  <2> QED
    BY <1>19, <2>1 DEF WriteBack
<1>24. CASE WriteBackFails
  <2>1. Written \in History /\ Len(Written) <= Window
    BY <1>24, WrittenHistory DEF WriteBackFails
  <2>2. cached' \in History \cup {NULL} /\ (cached' # NULL => Len(cached') <= Window)
    BY <1>24, <2>1 DEF WriteBackFails
  <2> QED
    BY <1>24, <2>2, FaultType DEF WriteBackFails
<1>20. CASE DeleteRow
  <2>1. <<>> \in History
    BY DEF History
  <2> QED
    BY <1>20, <2>1 DEF DeleteRow, turn
<1>21. CASE Clear
  BY <1>21 DEF Clear, turn
<1>25. CASE ClearFails
  <2>1. faults' \in 0..MaxFault
    BY <1>25 DEF ClearFails
  <2>2. /\ UNCHANGED <<row, log, context, cached, warming, pc, by, fast, seen, draft>>
        /\ UNCHANGED <<committed, deleted, late, nr, deletes>>
        /\ clearing' = FALSE
    BY <1>25 DEF ClearFails, turn
  <2>3. TypeOK'
    BY <2>1, <2>2
  <2>4. TurnInv'
    BY <2>2
  <2> QED
    BY <2>3, <2>4
<1>22. CASE ExpireContext \/ ExpireHistory
  BY <1>22 DEF ExpireContext, ExpireHistory, turn
<1> QED
  BY <1>1, <1>2, <1>3, <1>4, <1>5, <1>6, <1>7, <1>8, <1>9, <1>10, <1>11, <1>12, <1>13,
     <1>14, <1>15, <1>16, <1>17, <1>18, <1>19, <1>20, <1>21, <1>22, <1>23, <1>24,
     <1>25 DEF Next

\* Every variable keeps its type; the cached history keeps CHAT_MAX_HISTORY, too,
\* whether the table or persist_interaction has written it.
THEOREM TypeCorrect == Spec => []TypeOK
<1>1. Spec => []TypeInv
  BY InitTypeInv, NextTypeInv, PTL DEF Spec
<1>2. TypeInv => TypeOK
  BY DEF TypeInv
<1> QED
  BY <1>1, <1>2, PTL

LEMMA TypeInvAlways == Spec => []TypeInv
BY InitTypeInv, NextTypeInv, PTL DEF Spec
-----------------------------------------------------------------------------
(***************************************************************************)
(* No phantom turns: whatever is stored, on its way to be stored, or read  *)
(* was committed before.                                                   *)
(***************************************************************************)
Committed(s) == s # NULL => ToSet(s) \subseteq committed

PhantomInv ==
  /\ Committed(log) /\ Committed(cached) /\ Committed(draft) /\ Committed(seen)
  /\ \A w \in warming : Committed(w.turns)
  /\ pc \in {"remember", "write_back"} => This(TRUE) \in committed

\* Stretches and extensions of a sequence have no other elements.
LEMMA OldestElements ==
  ASSUME NEW s \in History, NEW k \in Nat
  PROVE  ToSet(Oldest(s, k)) \subseteq ToSet(s)
BY OldestOf DEF ToSet

LEMMA NewestElements ==
  ASSUME NEW s \in History, NEW k \in Nat
  PROVE  ToSet(Newest(s, k)) \subseteq ToSet(s)
<1>1. PICK d \in Nat : \A i \in DOMAIN Newest(s, k) : i + d \in DOMAIN s /\ Newest(s, k)[i] = s[i + d]
  BY NewestOf
<1> QED
  BY <1>1 DEF ToSet

LEMMA AppendElements ==
  ASSUME NEW s \in History, NEW t \in Turn
  PROVE  ToSet(Append(s, t)) \subseteq ToSet(s) \cup {t}
<1>1. s \in Seq(Turn)
  BY DEF History
<1>2. \A i \in DOMAIN Append(s, t) :
       (i \in DOMAIN s /\ Append(s, t)[i] = s[i]) \/ Append(s, t)[i] = t
  BY <1>1, AppendProperties
<1> QED
  BY <1>2 DEF ToSet

LEMMA InitPhantomInv == Init => PhantomInv
BY DEF Init, PhantomInv, Committed, ToSet

LEMMA NextPhantomInv == TypeInv /\ PhantomInv /\ [Next]_vars => PhantomInv'
<1> SUFFICES ASSUME TypeInv, PhantomInv, [Next]_vars PROVE PhantomInv'
  OBVIOUS
<1> USE DEF PhantomInv, Committed, Goto, EndTurn, db, redis, history, env
<1>0. NULL \notin History /\ log \in History
  BY NullAssumption DEF History, TypeInv, TypeOK
<1>1. CASE UNCHANGED vars
  BY <1>1 DEF vars, turn, This
<1>2. ASSUME NEW u \in User, Begin(u) PROVE PhantomInv'
  BY <1>2 DEF Begin
<1>3. CASE ReadContext \/ Lookup \/ Sync \/ Create \/ SaveContext
  BY <1>3 DEF ReadContext, Lookup, Sync, Create, SaveContext, Resolved
<1>4. CASE ReadContextFails \/ CreateFails \/ SaveContextFails \/ LoadHistoryFails \/ Stop
  BY <1>4 DEF ReadContextFails, CreateFails, SaveContextFails, LoadHistoryFails, Stop, Resolved
<1>5. CASE LoadHistory
  <2>1. cached # NULL => ToSet(Newest(cached, Window)) \subseteq committed
    BY NewestElements, ConstantsAssumption DEF TypeInv, TypeOK
  <2> QED
    BY <1>5, <2>1 DEF LoadHistory
<1>6. CASE ReadLog
  <2>1. ToSet(Oldest(log, Window)) \subseteq committed
    BY <1>0, OldestElements, ConstantsAssumption
  <2> QED
    BY <1>6, <2>1 DEF ReadLog
<1>7. CASE Generate
  BY <1>7 DEF Generate
<1>8. ASSUME NEW w \in warming, Warm(w) \/ WarmFails(w) PROVE PhantomInv'
  <2>1. ToSet(w.turns) \subseteq committed
    BY <1>0 DEF TypeInv, TypeOK, Warming
  <2>2. UNCHANGED <<log, turn, committed>> /\ nr' = nr
    BY <1>8 DEF Warm, WarmFails, Fault
  <2>3. cached' \in {cached, w.turns} /\ warming' = warming \ {w}
    BY <1>8 DEF Warm, WarmFails
  <2> QED
    BY <2>1, <2>2, <2>3 DEF turn, This
<1>9. CASE Persist \/ PersistFails
  <2>1. pc # "idle" /\ UNCHANGED <<cached, warming>> /\ nr' = nr
    BY <1>9 DEF Persist, PersistFails, Fault
  <2>2. committed \subseteq committed' /\ ToSet(log') \subseteq committed'
    <3>1. CASE UNCHANGED <<log, committed>>
      BY <1>0, <3>1
    <3>2. CASE Commit
      <4>1. This(pc = "persist") \in Turn
        BY <2>1, ThisTurn
      <4> QED
        BY <1>0, <3>2, <4>1, AppendElements DEF Commit
    <3> QED
      BY <1>9, <3>1, <3>2 DEF Persist, PersistFails
  <2>3. pc' \in {"remember", "write_back"} => This(TRUE)' \in committed'
    BY <1>9, <2>1 DEF Persist, PersistFails, Commit, This
  <2>4. draft' \in {draft, NULL} /\ seen' \in {seen, NULL}
    BY <1>9 DEF Persist, PersistFails
  <2> QED
    BY <2>1, <2>2, <2>3, <2>4
<1>10. CASE Remember
  BY <1>10 DEF Remember, This
<1>11. CASE WriteBack \/ WriteBackFails
  <2>1. pc = "write_back" /\ UNCHANGED <<log, warming, committed>>
    BY <1>11 DEF WriteBack, WriteBackFails
  <2>2. ToSet(Written) \subseteq committed
    <3>1. draft \in History /\ This(TRUE) \in Turn
      BY <2>1, ThisTurn DEF TypeInv, TypeOK, TurnInv
    <3>2. Append(draft, This(TRUE)) \in History
      BY <3>1, AppendProperties DEF History
    <3>3. ToSet(Append(draft, This(TRUE))) \subseteq committed
      <4>1. ToSet(draft) \subseteq committed /\ This(TRUE) \in committed
        BY <1>0, <2>1, <3>1
      <4>2. ToSet(Append(draft, This(TRUE))) \subseteq ToSet(draft) \cup {This(TRUE)}
        BY <3>1, AppendElements
      <4> QED
        BY <4>1, <4>2
    <3> QED
      BY <3>2, <3>3, NewestElements, ConstantsAssumption DEF Written
  <2> QED
    BY <1>11, <2>1, <2>2 DEF WriteBack, WriteBackFails
<1>12. CASE DeleteRow
  BY <1>12 DEF DeleteRow, turn, ToSet, This
<1>13. CASE Clear \/ ClearFails \/ ExpireContext \/ ExpireHistory
  BY <1>13 DEF Clear, ClearFails, ExpireContext, ExpireHistory, turn, This
<1> QED
  BY <1>1, <1>2, <1>3, <1>4, <1>5, <1>6, <1>7, <1>8, <1>9, <1>10, <1>11, <1>12, <1>13 DEF Next

\* The model is never shown a turn that was not committed, whatever fails, is deleted
\* or lands late: Redis is written only after the transaction.
THEOREM NoPhantomTurnsAlways == Spec => []NoPhantomTurns
<1>1. Spec => []PhantomInv
  BY TypeInvAlways, InitPhantomInv, NextPhantomInv, PTL DEF Spec
<1>2. PhantomInv => NoPhantomTurns
  BY DEF PhantomInv, Committed, NoPhantomTurns
<1> QED
  BY <1>1, <1>2, PTL
-----------------------------------------------------------------------------
(***************************************************************************)
(* Owners: while no call fails, a turn writes a context only where it has  *)
(* found or inserted its own row, so the two never name different users.   *)
(***************************************************************************)
Resolving == {"lookup", "sync", "create", "save_context"}
Admitted == {"sync", "save_context", "history", "read_log", "generate", "fallback", "persist"}

OwnerInv ==
  faults = 0 =>
    /\ context # NULL /\ row # NULL => context = row
    /\ \A i \in DOMAIN log : log[i].by = row
    /\ pc \in Resolving => context = NULL
    /\ pc \in Admitted => row \in {by, NULL}

LEMMA InitOwnerInv == Init => OwnerInv
BY DEF Init, OwnerInv, Resolving, Admitted

LEMMA NextOwnerInv == TypeInv /\ OwnerInv /\ [Next]_vars => OwnerInv'
<1> SUFFICES ASSUME TypeInv, OwnerInv, [Next]_vars, faults' = 0 PROVE OwnerInv'
  BY DEF OwnerInv
<1> USE DEF OwnerInv, Resolving, Admitted, Goto, EndTurn, db, redis, history, env
<1>a. faults \in Nat /\ log \in Seq(Turn) /\ NULL \notin User
  BY NullAssumption, ConstantsAssumption DEF TypeInv, TypeOK, History
<1>b. ASSUME Fault PROVE FALSE
  BY <1>a, <1>b DEF Fault
<1>1. CASE UNCHANGED vars
  BY <1>1 DEF vars, turn
<1>2. ASSUME NEW u \in User, Begin(u) PROVE OwnerInv'
  BY <1>2 DEF Begin
<1>3. CASE ReadContext
  BY <1>3 DEF ReadContext, Resolved
<1>4. CASE ReadContextFails \/ CreateFails \/ SaveContextFails \/ LoadHistoryFails \/ Stop
            \/ PersistFails \/ WriteBackFails
  BY <1>4, <1>b DEF ReadContextFails, CreateFails, SaveContextFails, LoadHistoryFails, Stop,
                    PersistFails, WriteBackFails
<1>5. CASE Lookup \/ Sync
  BY <1>5 DEF Lookup, Sync, Resolved
<1>6. CASE Create
  <2>1. row = NULL => log = <<>>
    <3>1. row = NULL => \A i \in DOMAIN log : log[i] \in Turn /\ log[i].by = NULL
      BY <1>a, <1>6 DEF Create
    <3>2. row = NULL => DOMAIN log = {}
      BY <1>a, <3>1 DEF Turn
    <3> QED
      BY <1>a, <3>2
  <2>2. UNCHANGED <<log, context, faults>>
    BY <1>6 DEF Create
  <2>3. CASE row = NULL
    BY <1>6, <2>1, <2>2, <2>3 DEF Create
  <2>4. CASE row # NULL
    BY <1>6, <2>2, <2>4 DEF Create
  <2> QED
    BY <2>3, <2>4
<1>7. CASE SaveContext
  BY <1>7 DEF SaveContext, Resolved
<1>8. CASE LoadHistory \/ ReadLog \/ Generate
  BY <1>8 DEF LoadHistory, ReadLog, Generate
<1>9. ASSUME NEW w \in warming, Warm(w) \/ WarmFails(w) PROVE OwnerInv'
  BY <1>9, <1>b DEF Warm, WarmFails, turn
<1>10. CASE Persist
  <2>1. CASE row = NULL
    BY <1>10, <2>1 DEF Persist
  <2>2. CASE row # NULL
    <3> DEFINE t == This(pc = "persist")
    <3>1. t \in Turn /\ t.by = row
      <4>1. row = by /\ pc # "idle"
        BY <1>10, <2>2 DEF Persist
      <4> QED
        BY <4>1, ThisTurn DEF This
    <3>2. log' = Append(log, t)
      BY <1>10, <2>2 DEF Persist, Commit
    <3> HIDE DEF t
    <3>3. \A i \in DOMAIN log' : (i \in DOMAIN log /\ log'[i] = log[i]) \/ log'[i] = t
      BY <1>a, <3>1, <3>2, AppendProperties
    <3>4. \A i \in DOMAIN log : log[i].by = row
      BY <1>10 DEF Persist
    <3>5. \A i \in DOMAIN log' : log'[i].by = row
      BY <3>1, <3>3, <3>4
    <3>6. UNCHANGED <<row, context, faults>> /\ pc' \in {"remember", "idle"}
      BY <1>10 DEF Persist
    <3> QED
      BY <3>5, <3>6
  <2> QED
    BY <2>1, <2>2
<1>11. CASE Remember \/ WriteBack
  BY <1>11 DEF Remember, WriteBack
<1>12. CASE DeleteRow
  BY <1>12 DEF DeleteRow, turn
<1>13. CASE Clear \/ ClearFails
  BY <1>13, <1>a DEF Clear, ClearFails, turn
<1>14. CASE ExpireContext \/ ExpireHistory
  BY <1>14 DEF ExpireContext, ExpireHistory, turn
<1> QED
  BY <1>1, <1>2, <1>3, <1>4, <1>5, <1>6, <1>7, <1>8, <1>9, <1>10, <1>11, <1>12, <1>13, <1>14
     DEF Next

LEMMA OwnerInvAlways == Spec => []OwnerInv
BY TypeInvAlways, InitOwnerInv, NextOwnerInv, PTL DEF Spec

\* As long as no call fails, the cached context and the row agree on the owner: whom
\* get_or_create_session answers 404 is never the owner.
THEOREM OwnerNeverRefusedAlways == Spec => []OwnerNeverRefused
<1>1. OwnerInv => OwnerNeverRefused
  BY DEF OwnerInv, OwnerNeverRefused
<1> QED
  BY <1>1, OwnerInvAlways, PTL

\* As long as no call fails, every turn in the messages table was sent by the owner
\* of the session, although the context alone admits it and a deletion may intervene.
THEOREM TurnsOfOwnerAlways == Spec => []TurnsOfOwner
<1>1. OwnerInv => TurnsOfOwner
  BY DEF OwnerInv, TurnsOfOwner, ToSet
<1> QED
  BY <1>1, OwnerInvAlways, PTL
-----------------------------------------------------------------------------
(***************************************************************************)
(* Order: every copy of the history is ordered, and holds turns before the *)
(* one under way only, so a write that lands late loses turns and cannot   *)
(* disorder them.                                                          *)
(***************************************************************************)
Before(s, n) == Ordered(s) /\ \A i \in DOMAIN s : s[i].nr < n
Unwritten == Steps \ {"idle", "remember", "write_back"}

OrderInv ==
  /\ Before(log, IF pc \in Unwritten THEN nr ELSE nr + 1)
  /\ cached # NULL => Before(cached, IF pc = "idle" THEN nr + 1 ELSE nr)
  /\ draft # NULL => Before(draft, nr)
  /\ seen # NULL => Ordered(seen)
  /\ \A w \in warming : Before(w.turns, nr)

LEMMA Numbered ==
  ASSUME NEW s \in History
  PROVE  \A i \in DOMAIN s : s[i].nr \in Nat
<1>1. \A t \in Turn : t.nr \in Nat
  BY DEF Turn
<1>2. \A i \in DOMAIN s : s[i] \in Turn
  BY DEF History
<1> QED
  BY <1>1, <1>2

LEMMA BeforeMore ==
  ASSUME NEW s \in History, NEW m \in Nat, NEW n \in Nat, m <= n, Before(s, m)
  PROVE  Before(s, n)
<1>1. \A i \in DOMAIN s : s[i].nr \in Nat
  BY Numbered
<1> QED
  BY <1>1 DEF Before

LEMMA BeforeOldest ==
  ASSUME NEW s \in History, NEW k \in Nat, NEW n \in Nat, Before(s, n)
  PROVE  Before(Oldest(s, k), n)
<1>1. \A i \in DOMAIN Oldest(s, k) : i \in DOMAIN s /\ Oldest(s, k)[i] = s[i]
  BY OldestOf
<1> QED
  BY <1>1 DEF Before, Ordered

LEMMA OrderedNewest ==
  ASSUME NEW s \in History, NEW k \in Nat, Ordered(s)
  PROVE  Ordered(Newest(s, k))
<1>1. PICK d \in Nat : \A i \in DOMAIN Newest(s, k) : i + d \in DOMAIN s /\ Newest(s, k)[i] = s[i + d]
  BY NewestOf
<1>2. \A i, j \in DOMAIN Newest(s, k) : i < j => i + d < j + d
  BY NewestOf DEF History
<1> QED
  BY <1>1, <1>2 DEF Ordered

LEMMA BeforeNewest ==
  ASSUME NEW s \in History, NEW k \in Nat, NEW n \in Nat, Before(s, n)
  PROVE  Before(Newest(s, k), n)
<1>1. PICK d \in Nat : \A i \in DOMAIN Newest(s, k) : i + d \in DOMAIN s /\ Newest(s, k)[i] = s[i + d]
  BY NewestOf
<1> QED
  BY <1>1, OrderedNewest DEF Before

LEMMA BeforeAppend ==
  ASSUME NEW s \in History, NEW t \in Turn, Before(s, t.nr)
  PROVE  Append(s, t) \in History /\ Before(Append(s, t), t.nr + 1)
<1>1. s \in Seq(Turn) /\ t.nr \in Nat /\ \A i \in DOMAIN s : s[i].nr \in Nat
  BY Numbered DEF History, Turn
<1>2. Append(s, t) \in History /\ DOMAIN Append(s, t) = 1..(Len(s) + 1)
  BY <1>1, AppendProperties DEF History
<1>3. \A i \in DOMAIN s : Append(s, t)[i] = s[i]
  BY <1>1, AppendProperties
<1>4. Append(s, t)[Len(s) + 1] = t
  BY <1>1, AppendProperties
<1>5. \A i \in DOMAIN Append(s, t) : i \in DOMAIN s \/ i = Len(s) + 1
  BY <1>1, <1>2
<1>6. \A i \in DOMAIN s : i < Len(s) + 1
  BY <1>1
<1>7. Ordered(Append(s, t))
  <2> SUFFICES ASSUME NEW i \in DOMAIN Append(s, t), NEW j \in DOMAIN Append(s, t), i < j
               PROVE  Append(s, t)[i].nr < Append(s, t)[j].nr
    BY DEF Ordered
  <2>1. i \in DOMAIN s
    BY <1>1, <1>2, <1>5, <1>6
  <2>2. CASE j \in DOMAIN s
    BY <1>3, <2>1, <2>2 DEF Before, Ordered
  <2>3. CASE j = Len(s) + 1
    BY <1>3, <1>4, <2>1, <2>3 DEF Before
  <2> QED
    BY <1>5, <2>2, <2>3
<1>8. \A i \in DOMAIN Append(s, t) : Append(s, t)[i].nr < t.nr + 1
  BY <1>1, <1>3, <1>4, <1>5 DEF Before
<1> QED
  BY <1>2, <1>7, <1>8 DEF Before

LEMMA InitOrderInv == Init => OrderInv
BY DEF Init, OrderInv, Before, Ordered

LEMMA NextOrderInv == TypeInv /\ OrderInv /\ [Next]_vars => OrderInv'
<1> SUFFICES ASSUME TypeInv, OrderInv, [Next]_vars PROVE OrderInv'
  OBVIOUS
<1> USE DEF OrderInv, Unwritten, Steps, Goto, EndTurn, db, redis, history, env
<1>0. /\ NULL \notin History /\ log \in History /\ nr \in Nat
      /\ cached # NULL => cached \in History
      /\ \A w \in warming : w.turns \in History
  BY NullAssumption, ConstantsAssumption DEF History, TypeInv, TypeOK, Warming
<1>1. CASE UNCHANGED vars
  BY <1>1 DEF vars, turn
<1>b. /\ Before(log, nr + 1)
      /\ cached # NULL => Before(cached, nr + 1)
      /\ \A w \in warming : Before(w.turns, nr + 1)
  BY <1>0, BeforeMore
<1>2. ASSUME NEW u \in User, Begin(u) PROVE OrderInv'
  <2>1. pc = "idle" /\ pc' = "context" /\ nr' = nr + 1
    BY <1>2 DEF Begin
  <2>2. UNCHANGED <<log, cached, draft, seen, warming>>
    BY <1>2 DEF Begin
  <2>3. draft # NULL => Before(draft, nr + 1)
    BY <1>0, BeforeMore DEF TypeInv, TypeOK
  <2> QED
    BY <1>b, <2>1, <2>2, <2>3
<1>3. CASE ReadContext \/ Lookup \/ Sync \/ Create \/ SaveContext
  <2>1. UNCHANGED <<log, cached, warming, nr>> /\ draft' \in {draft, NULL} /\ seen' \in {seen, NULL}
    BY <1>3 DEF ReadContext, Lookup, Sync, Create, SaveContext, Resolved
  <2>2. pc \in Unwritten /\ pc' \in Unwritten \cup {"idle"}
    BY <1>3 DEF ReadContext, Lookup, Sync, Create, SaveContext, Resolved
  <2> QED
    BY <1>b, <2>1, <2>2
<1>4. CASE ReadContextFails \/ CreateFails \/ SaveContextFails \/ LoadHistoryFails
  <2>1. UNCHANGED <<log, cached, warming, nr>> /\ draft' \in {draft, NULL} /\ seen' \in {seen, NULL}
    BY <1>4 DEF ReadContextFails, CreateFails, SaveContextFails, LoadHistoryFails, Resolved, Fault
  <2>2. pc \in Unwritten /\ pc' \in Unwritten \cup {"idle"}
    BY <1>4 DEF ReadContextFails, CreateFails, SaveContextFails, LoadHistoryFails, Resolved
  <2> QED
    BY <1>b, <2>1, <2>2
<1>5. CASE Stop
  <2>1. UNCHANGED <<log, cached, warming, nr>> /\ draft' = NULL /\ seen' = NULL /\ pc' = "idle"
    BY <1>5 DEF Stop, Fault
  <2> QED
    BY <1>b, <2>1
<1>6. CASE LoadHistory
  <2>1. cached # NULL => Ordered(Newest(cached, Window))
    BY <1>0, OrderedNewest, ConstantsAssumption DEF Before
  <2> QED
    BY <1>6, <2>1 DEF LoadHistory
<1>7. CASE ReadLog
  <2>1. Before(Oldest(log, Window), nr)
    BY <1>0, <1>7, BeforeOldest, ConstantsAssumption DEF ReadLog
  <2> QED
    BY <1>7, <2>1 DEF ReadLog, Before
<1>8. CASE Generate
  BY <1>8 DEF Generate
<1>9. ASSUME NEW w \in warming, Warm(w) \/ WarmFails(w) PROVE OrderInv'
  <2>1. UNCHANGED <<log, turn, nr>>
    BY <1>9 DEF Warm, WarmFails, Fault
  <2>2. cached' \in {cached, w.turns} /\ warming' = warming \ {w}
    BY <1>9 DEF Warm, WarmFails
  <2>3. cached' # NULL => Before(cached', IF pc = "idle" THEN nr + 1 ELSE nr)
    BY <1>b, <2>2
  <2> QED
    BY <2>1, <2>2, <2>3 DEF turn
<1>10. CASE Persist \/ PersistFails
  <2>1. pc \in {"persist", "fallback"} /\ pc' \in {"remember", "idle"} /\ UNCHANGED <<cached, warming, nr>>
    BY <1>10 DEF Persist, PersistFails, Fault
  <2>2. draft' \in {draft, NULL} /\ seen' \in {seen, NULL}
    BY <1>10 DEF Persist, PersistFails
  <2>3. Before(log', nr + 1)
    <3>1. CASE log' = log
      BY <1>b, <3>1
    <3>2. CASE Commit
      <4> DEFINE t == This(pc = "persist")
      <4>1. t \in Turn /\ t.nr = nr
        BY <2>1, ThisTurn DEF This
      <4>2. log' = Append(log, t)
        BY <3>2 DEF Commit
      <4> HIDE DEF t
      <4> QED
        BY <1>0, <2>1, <4>1, <4>2, BeforeAppend
    <3> QED
      BY <1>10, <3>1, <3>2 DEF Persist, PersistFails
  <2> QED
    BY <1>b, <2>1, <2>2, <2>3
<1>11. CASE Remember
  BY <1>11 DEF Remember
<1>12. CASE WriteBack \/ WriteBackFails
  <2>1. pc = "write_back" /\ pc' = "idle" /\ UNCHANGED <<log, warming, nr>> /\ draft' = NULL /\ seen' = NULL
    BY <1>12 DEF WriteBack, WriteBackFails, Fault
  <2>2. Before(Written, nr + 1)
    <3> DEFINE t == This(TRUE)
    <3>1. t \in Turn /\ t.nr = nr /\ draft \in History
      BY <2>1, ThisTurn DEF This, TypeInv, TypeOK, TurnInv
    <3>2. Before(draft, t.nr)
      BY <1>0, <3>1
    <3> HIDE DEF t
    <3>3. Append(draft, t) \in History /\ Before(Append(draft, t), nr + 1)
      BY <3>1, <3>2, BeforeAppend
    <3>4. Before(Newest(Append(draft, t), Window), nr + 1)
      BY <1>0, <3>3, BeforeNewest, ConstantsAssumption
    <3> QED
      BY <3>4 DEF Written, t
  <2>3. cached' \in {cached, Written}
    BY <1>12 DEF WriteBack, WriteBackFails
  <2> QED
    BY <1>b, <2>1, <2>2, <2>3
<1>13. CASE DeleteRow
  <2>1. log' = <<>> /\ UNCHANGED <<cached, warming, turn, nr>>
    BY <1>13 DEF DeleteRow
  <2> QED
    BY <2>1 DEF turn, Before, Ordered
<1>14. CASE Clear \/ ClearFails \/ ExpireContext \/ ExpireHistory
  BY <1>14 DEF Clear, ClearFails, ExpireContext, ExpireHistory, turn
<1> QED
  BY <1>1, <1>2, <1>3, <1>4, <1>5, <1>6, <1>7, <1>8, <1>9, <1>10, <1>11, <1>12, <1>13, <1>14
     DEF Next

\* The turns the model is shown are in the order they were sent and none appears
\* twice, whichever store they come from and whatever has overwritten it late.
THEOREM HistoryInOrderAlways == Spec => []HistoryInOrder
<1>1. Spec => []OrderInv
  BY TypeInvAlways, InitOrderInv, NextOrderInv, PTL DEF Spec
<1>2. OrderInv => HistoryInOrder
  BY DEF OrderInv, HistoryInOrder
<1> QED
  BY <1>1, <1>2, PTL
-----------------------------------------------------------------------------
(***************************************************************************)
(* Nothing forgotten: while nothing fails, is deleted or lands late, every *)
(* copy of the history holds the answered turns before the one under way.  *)
(* The window drops none of them: an ordered copy of a part of the log is  *)
(* no longer than the log.                                                 *)
(***************************************************************************)
LEMMA OrderedIsShorter ==
  ASSUME NEW s \in History, NEW t \in History, Ordered(s), ToSet(s) \subseteq ToSet(t)
  PROVE  Len(s) <= Len(t)
<1> DEFINE m == Len(s)
           n == Len(t)
           f == [i \in 1..m |-> CHOOSE j \in 1..n : t[j] = s[i]]
<1>1. m \in Nat /\ n \in Nat /\ DOMAIN s = 1..m /\ DOMAIN t = 1..n
  BY DEF History
<1>2. \A i \in 1..m : \E j \in 1..n : t[j] = s[i]
  BY <1>1 DEF ToSet
<1>3. \A i \in 1..m : f[i] \in 1..n /\ t[f[i]] = s[i]
  BY <1>2
<1>4. f \in [1..m -> 1..n]
  BY <1>3
<1>5. ASSUME NEW i \in 1..m, NEW j \in 1..m, f[i] = f[j] PROVE i = j
  <2>1. s[i] = s[j] /\ s[i].nr \in Nat
    BY <1>1, <1>3, <1>5, Numbered
  <2>2. ~(i < j) /\ ~(j < i)
    BY <1>1, <2>1 DEF Ordered
  <2> QED
    BY <2>2
<1> HIDE DEF f
<1>6. f \in Injection(1..m, 1..n)
  BY <1>4, <1>5 DEF Injection, IsInjective
<1>7. /\ IsFiniteSet(1..m) /\ IsFiniteSet(1..n)
      /\ Cardinality(1..m) = (IF 1 > m THEN 0 ELSE m - 1 + 1)
      /\ Cardinality(1..n) = (IF 1 > n THEN 0 ELSE n - 1 + 1)
  <2>1. 1 \in Int /\ m \in Int /\ n \in Int
    BY <1>1
  <2> HIDE DEF m, n
  <2> QED
    BY <2>1, FS_Interval, Zenon
<1>8. Cardinality(1..m) <= Cardinality(1..n)
  BY <1>6, <1>7, FS_Injection
<1> QED
  BY <1>1, <1>7, <1>8

\* The window keeps all of a history that fits in it.
LEMMA NewestAll ==
  ASSUME NEW s \in History, NEW k \in Nat, Len(s) <= k
  PROVE  ToSet(s) \subseteq ToSet(Newest(s, k))
<1>1. s \in Seq(Turn) /\ Len(s) \in Nat /\ DOMAIN s = 1..Len(s)
  BY DEF History
<1>2. Newest(s, k) = SubSeq(s, 1, Len(s))
  <2>1. (IF Len(s) < k THEN 1 ELSE Len(s) - k + 1) = 1
    BY <1>1
  <2> QED
    BY <2>1, Zenon DEF Newest
<1>3. SubSeq(s, 1, Len(s)) = s
  BY <1>1
<1> QED
  BY <1>2, <1>3

LEMMA OldestAll ==
  ASSUME NEW s \in History, NEW k \in Nat, Len(s) <= k
  PROVE  ToSet(s) \subseteq ToSet(Oldest(s, k))
<1>1. s \in Seq(Turn) /\ Len(s) \in Nat
  BY DEF History
<1>2. Oldest(s, k) = SubSeq(s, 1, Len(s))
  BY <1>1 DEF Oldest
<1>3. SubSeq(s, 1, Len(s)) = s
  BY <1>1
<1> QED
  BY <1>2, <1>3

LEMMA AppendAll ==
  ASSUME NEW s \in History, NEW t \in Turn
  PROVE  /\ Append(s, t) \in History /\ Len(Append(s, t)) = Len(s) + 1
         /\ ToSet(Append(s, t)) = ToSet(s) \cup {t}
<1>1. s \in Seq(Turn) /\ Len(s) \in Nat /\ DOMAIN s = 1..Len(s)
  BY DEF History
<1>2. /\ Append(s, t) \in Seq(Turn) /\ Len(Append(s, t)) = Len(s) + 1
      /\ DOMAIN Append(s, t) = 1..(Len(s) + 1)
      /\ \A i \in 1..Len(s) : Append(s, t)[i] = s[i]
      /\ Append(s, t)[Len(s) + 1] = t
  BY <1>1, AppendProperties
<1>3. ToSet(s) \cup {t} \subseteq ToSet(Append(s, t))
  BY <1>1, <1>2 DEF ToSet
<1> QED
  BY <1>2, <1>3, AppendElements DEF History

\* The answered turns of the log before the n-th turn.
Answered(n) == {t \in ToSet(log) : t.answered /\ t.nr < n}
Calm == faults = 0 /\ deletes = 0 /\ ~late /\ Len(log) <= Window
Reading == {"context", "lookup", "sync", "create", "save_context", "history", "read_log"}
Waited == {"generate", "fallback", "persist", "remember"}

KeepInv ==
  /\ deletes = 0 => committed \subseteq ToSet(log)
  /\ pc \in {"remember", "write_back"} => \A t \in ToSet(log) : t.nr = nr => t = This(TRUE)
  /\ \A w \in warming : w.nr <= nr /\ (pc \in Reading => w.nr < nr)
  /\ Calm =>
       /\ cached # NULL => Answered(IF pc = "idle" THEN nr + 1 ELSE nr) \subseteq ToSet(cached)
       /\ pc = "write_back" => Answered(nr) \subseteq ToSet(draft)
       /\ pc = "generate" => Answered(nr) \subseteq ToSet(seen)
       /\ \A w \in warming : w.nr = nr /\ pc \in Waited => Answered(nr) \subseteq ToSet(w.turns)

LEMMA InitKeepInv == Init => KeepInv
BY DEF Init, KeepInv, Reading, Waited

\* Every turn of the log came before the one under way, until that one is committed.
LEMMA LogBefore ==
  ASSUME TypeInv, OrderInv
  PROVE  /\ \A t \in ToSet(log) : t \in Turn /\ t.nr \in Nat /\ t.nr < nr + 1
         /\ pc \in Unwritten => \A t \in ToSet(log) : t.nr < nr
         /\ pc \in Unwritten => Answered(nr + 1) = Answered(nr)
         /\ nr \in Nat /\ log \in History /\ Len(log) \in Nat
<1>1. nr \in Nat /\ log \in History /\ Len(log) \in Nat
  BY ConstantsAssumption DEF TypeInv, TypeOK, History
<1>2. \A i \in DOMAIN log : log[i] \in Turn /\ log[i].nr \in Nat
  BY <1>1, Numbered DEF History
<1>3. Before(log, nr + 1) /\ (pc \in Unwritten => Before(log, nr))
  BY <1>1, BeforeMore DEF OrderInv
<1>4. /\ \A t \in ToSet(log) : t \in Turn /\ t.nr \in Nat /\ t.nr < nr + 1
      /\ pc \in Unwritten => \A t \in ToSet(log) : t.nr < nr
  BY <1>2, <1>3 DEF Before, ToSet
<1>5. ASSUME pc \in Unwritten PROVE Answered(nr + 1) = Answered(nr)
  BY <1>1, <1>4, <1>5 DEF Answered
<1> QED
  BY <1>1, <1>4, <1>5

\* Steps that leave the log, the numbers and the caches alone.
LEMMA KeepQuiet ==
  ASSUME TypeInv, OrderInv, KeepInv, UNCHANGED <<log, cached, warming, nr, committed, deletes, late>>,
         faults' = 0 => faults = 0, pc \in Unwritten, pc' \in Unwritten \cup {"idle"},
         pc' \in Reading => pc \in Reading, pc' \in Waited => pc \in Waited \cup Reading,
         pc' # "generate"
  PROVE  KeepInv'
<1>1. \A n : Answered(n)' = Answered(n)
  BY DEF Answered
<1>2. Answered(nr + 1) = Answered(nr)
  BY LogBefore
<1>3. pc # "idle" /\ pc' \notin {"remember", "write_back"} /\ (Calm' => Calm)
  BY DEF Unwritten, Calm
<1>4. ASSUME Calm
      PROVE  /\ cached # NULL => Answered(nr) \subseteq ToSet(cached)
             /\ \A w \in warming : w.nr = nr /\ pc \in Waited \cup Reading => Answered(nr) \subseteq ToSet(w.turns)
  <2>1. \A w \in warming : w.nr \in Nat /\ nr \in Nat
    BY LogBefore DEF TypeInv, TypeOK, Warming
  <2> QED
    BY <1>3, <1>4, <2>1 DEF KeepInv
<1> QED
  BY <1>1, <1>2, <1>3, <1>4 DEF KeepInv

\* What persist_interaction writes back holds the turn and all before it.
LEMMA WrittenKeeps ==
  ASSUME TypeInv, PhantomInv, OrderInv, KeepInv, Calm, pc = "write_back"
  PROVE  Answered(nr + 1) \subseteq ToSet(Written)
<1> DEFINE t == This(TRUE)
           whole == Append(draft, t)
<1>1. t \in Turn /\ t.nr = nr /\ draft \in History /\ draft # NULL
  BY ThisTurn DEF This, TypeInv, TypeOK, TurnInv
<1>2. Before(draft, nr)
  BY <1>1 DEF OrderInv
<1>3. t \in committed /\ ToSet(draft) \subseteq committed /\ committed \subseteq ToSet(log)
  BY <1>1 DEF PhantomInv, Committed, KeepInv, Calm
<1>4. /\ \A x \in ToSet(log) : x.nr \in Nat /\ x.nr < nr + 1
      /\ nr \in Nat /\ log \in History /\ Len(log) \in Nat
  BY LogBefore
<1>5. \A x \in ToSet(log) : x.nr = nr => x = t
  BY DEF KeepInv
<1>6. Answered(nr) \subseteq ToSet(draft)
  BY DEF KeepInv
<1> HIDE DEF t
<1>7. whole \in History /\ ToSet(whole) = ToSet(draft) \cup {t} /\ Len(whole) \in Nat
  <2>1. whole \in History /\ ToSet(whole) = ToSet(draft) \cup {t}
    BY <1>1, AppendAll
  <2> QED
    BY <2>1 DEF History
<1>8. Ordered(whole)
  BY <1>1, <1>2, BeforeAppend DEF Before
<1>9. Len(whole) <= Window
  <2>1. Len(whole) <= Len(log)
    BY <1>3, <1>4, <1>7, <1>8, OrderedIsShorter
  <2> QED
    BY <1>4, <1>7, <2>1, ConstantsAssumption DEF Calm
<1>10. ToSet(whole) \subseteq ToSet(Newest(whole, Window))
  BY <1>7, <1>9, NewestAll, ConstantsAssumption
<1>11. ASSUME NEW x \in Answered(nr + 1) PROVE x \in ToSet(whole)
  <2>1. x \in ToSet(log) /\ x.answered /\ (x.nr < nr \/ x.nr = nr)
    BY <1>4, <1>11 DEF Answered
  <2>2. CASE x.nr < nr
    BY <1>6, <1>7, <2>1, <2>2 DEF Answered
  <2>3. CASE x.nr = nr
    BY <1>5, <1>7, <2>1, <2>3
  <2> QED
    BY <2>1, <2>2, <2>3
<1> QED
  BY <1>10, <1>11 DEF Written, t

LEMMA NextKeepInv == TypeInv /\ PhantomInv /\ OrderInv /\ KeepInv /\ [Next]_vars => KeepInv'
<1> SUFFICES ASSUME TypeInv, PhantomInv, OrderInv, KeepInv, [Next]_vars PROVE KeepInv'
  OBVIOUS
<1> USE DEF Goto, EndTurn, db, redis, history, env
<1>0. /\ nr \in Nat /\ log \in History /\ Len(log) \in Nat /\ faults \in Nat /\ deletes \in Nat
      /\ NULL \notin History /\ cached \in History \cup {NULL} /\ pc \in Steps
      /\ \A w \in warming : w.nr \in Nat /\ w.turns \in History
  BY LogBefore, NullAssumption, ConstantsAssumption DEF History, TypeInv, TypeOK, Warming
<1>1. CASE UNCHANGED vars
  BY <1>1 DEF vars, turn, KeepInv, Answered, Calm, This
<1>2. ASSUME NEW u \in User, Begin(u) PROVE KeepInv'
  <2>1. pc = "idle" /\ pc' = "context" /\ nr' = nr + 1
        /\ UNCHANGED <<log, cached, warming, committed, deletes, faults, late>>
    BY <1>2 DEF Begin
  <2>2. \A w \in warming : w.nr < nr + 1
    BY <1>0 DEF KeepInv
  <2>3. \A w \in warming : w.nr <= nr + 1
    BY <1>0, <2>2
  <2>4. (Calm' <=> Calm) /\ \A n : Answered(n)' = Answered(n)
    BY <2>1 DEF Calm, Answered
  <2> QED
    BY <2>1, <2>2, <2>3, <2>4 DEF KeepInv, Reading, Waited
<1>3. CASE ReadContext \/ Lookup \/ Sync \/ Create \/ SaveContext \/ Generate
  <2>1. UNCHANGED <<log, cached, warming, nr, committed, deletes, late, faults>>
    BY <1>3 DEF ReadContext, Lookup, Sync, Create, SaveContext, Generate
  <2>2. pc \in Reading \/ (pc = "generate" /\ pc' \in {"persist", "fallback"})
    BY <1>3 DEF ReadContext, Lookup, Sync, Create, SaveContext, Generate, Reading
  <2>3. pc' \in {"lookup", "sync", "create", "save_context", "history", "persist", "fallback", "idle"}
    BY <1>3 DEF ReadContext, Lookup, Sync, Create, SaveContext, Generate, Resolved
  <2> QED
    BY <2>1, <2>2, <2>3, KeepQuiet DEF Unwritten, Steps, Reading, Waited
<1>4. CASE ReadContextFails \/ CreateFails \/ SaveContextFails \/ LoadHistoryFails
  <2>1. UNCHANGED <<log, cached, warming, nr, committed, deletes, late>> /\ faults' = faults + 1
    BY <1>4 DEF ReadContextFails, CreateFails, SaveContextFails, LoadHistoryFails, Fault
  <2>2. pc \in Reading /\ pc' \in {"lookup", "read_log", "history", "persist", "idle"}
    BY <1>4 DEF ReadContextFails, CreateFails, SaveContextFails, LoadHistoryFails, Resolved, Reading
  <2> QED
    BY <1>0, <2>1, <2>2, KeepQuiet DEF Unwritten, Steps, Reading, Waited
<1>5. ASSUME faults' = faults + 1, pc' = "idle", UNCHANGED <<warming, nr, deletes>>,
             committed \subseteq ToSet(log) => committed' \subseteq ToSet(log')
      PROVE  KeepInv'
  <2>1. ~Calm'
    BY <1>0, <1>5 DEF Calm
  <2> QED
    BY <1>5, <2>1 DEF KeepInv, Reading
<1>6. CASE Stop \/ WriteBackFails
  BY <1>5, <1>6 DEF Stop, WriteBackFails, Fault
<1>7. CASE LoadHistory
  <2>1. UNCHANGED <<log, cached, warming, nr, committed, deletes, late, faults>> /\ pc = "history"
    BY <1>7 DEF LoadHistory
  <2>2. CASE cached = NULL
    BY <1>7, <2>1, <2>2, KeepQuiet DEF LoadHistory, Unwritten, Steps, Reading, Waited
  <2>3. CASE cached # NULL
    <3>1. seen' = Newest(cached, Window) /\ pc' = "generate"
      BY <1>7, <2>3 DEF LoadHistory
    <3>2. ToSet(cached) \subseteq ToSet(Newest(cached, Window))
      BY <1>0, <2>3, NewestAll, ConstantsAssumption DEF TypeInv, TypeOK
    <3>3. (Calm' <=> Calm) /\ \A n : Answered(n)' = Answered(n)
      BY <2>1 DEF Calm, Answered
    <3>4. \A w \in warming : w.nr < nr
      BY <2>1 DEF KeepInv, Reading
    <3>5. \A w \in warming : w.nr # nr
      BY <1>0, <3>4
    <3> QED
      BY <2>1, <2>3, <3>1, <3>2, <3>3, <3>5 DEF KeepInv, Reading
  <2> QED
    BY <2>2, <2>3
<1>8. CASE ReadLog
  <2> DEFINE turns == Oldest(log, Window)
             w == [nr |-> nr, turns |-> turns]
  <2>1. UNCHANGED <<log, cached, nr, committed, deletes, late, faults>> /\ pc = "read_log"
        /\ seen' = turns /\ warming' = warming \cup {w} /\ pc' = "generate"
    BY <1>8 DEF ReadLog
  <2>2. Calm => ToSet(log) \subseteq ToSet(turns)
    BY <1>0, OldestAll, ConstantsAssumption DEF Calm
  <2>3. (Calm' <=> Calm) /\ \A n : Answered(n)' = Answered(n)
    BY <2>1 DEF Calm, Answered
  <2>4. Calm => Answered(nr) \subseteq ToSet(turns)
    BY <2>2 DEF Answered
  <2>5. w.nr = nr /\ w.turns = turns
    OBVIOUS
  <2>6. \A x \in warming : x.nr < nr
    BY <2>1 DEF KeepInv, Reading
  <2>7. \A x \in warming : x.nr # nr /\ x.nr <= nr
    BY <1>0, <2>6
  <2> HIDE DEF turns, w
  <2> QED
    BY <1>0, <2>1, <2>3, <2>4, <2>5, <2>7 DEF KeepInv, Reading
<1>9. ASSUME NEW w \in warming, Warm(w) PROVE KeepInv'
  <2>1. UNCHANGED <<log, pc, by, seen, draft, nr, committed, deletes, faults>>
    BY <1>9 DEF Warm, turn
  <2>2. cached' = w.turns /\ warming' = warming \ {w}
    BY <1>9 DEF Warm
  <2>3. Calm' => Calm /\ w.nr = nr /\ pc \in Waited
    BY <1>9, <2>1 DEF Warm, Calm, Waited
  <2>4. \A n : Answered(n)' = Answered(n)
    BY <2>1 DEF Answered
  <2> QED
    BY <2>1, <2>2, <2>3, <2>4 DEF KeepInv, Waited, This
<1>10. ASSUME NEW w \in warming, WarmFails(w) PROVE KeepInv'
  <2>1. UNCHANGED <<log, pc, by, nr, committed, deletes>> /\ faults' = faults + 1 /\ warming' = warming \ {w}
    BY <1>10 DEF WarmFails, Fault, turn
  <2>2. ~Calm'
    BY <1>0, <2>1 DEF Calm
  <2> QED
    BY <2>1, <2>2 DEF KeepInv, This
<1>11. CASE Persist \/ PersistFails
  <2>1. pc \in {"persist", "fallback"} /\ UNCHANGED <<cached, warming, nr, deletes, late, row>>
    BY <1>11 DEF Persist, PersistFails, Fault
  <2> DEFINE t == This(pc = "persist")
  <2>2. t \in Turn /\ t.nr = nr /\ t.answered = (pc = "persist")
    BY <2>1, ThisTurn DEF This
  <2>3. Commit => log' = Append(log, t) /\ committed' = committed \cup {t}
    BY DEF Commit
  <2>4. pc = "persist" => t = This(TRUE)
    BY <2>1
  <2> HIDE DEF t
  <2>5. ASSUME Commit PROVE ToSet(log') = ToSet(log) \cup {t} /\ Len(log') = Len(log) + 1
    BY <1>0, <2>2, <2>3, <2>5, AppendAll
  <2>6. CASE PersistFails
    <3>1. committed \subseteq ToSet(log) => committed' \subseteq ToSet(log')
      BY <2>3, <2>5, <2>6 DEF PersistFails
    <3> QED
      BY <1>5, <2>6, <3>1 DEF PersistFails, Fault
  <2>7. CASE Persist /\ row = NULL
    BY <2>1, <2>7, KeepQuiet DEF Persist, Unwritten, Steps, Reading, Waited
  <2>8. CASE Persist /\ row # NULL
    <3>1. Commit /\ faults' = faults /\ (IF pc = "persist" THEN Goto("remember") ELSE EndTurn)
      BY <2>8 DEF Persist
    <3>2. Calm' => Calm
      BY <1>0, <2>1, <2>5, <3>1, ConstantsAssumption DEF Calm
    <3>3. \A x \in ToSet(log) : x.nr < nr /\ x.nr \in Nat
      BY <2>1, LogBefore DEF Unwritten, Steps
    <3>4. Answered(nr)' = Answered(nr)
      BY <1>0, <2>1, <2>2, <2>5, <3>1 DEF Answered
    <3>5. pc = "fallback" => Answered(nr + 1)' = Answered(nr + 1)
      BY <2>1, <2>2, <2>5, <3>1 DEF Answered
    <3>6. Answered(nr + 1) = Answered(nr)
      BY <2>1, LogBefore DEF Unwritten, Steps
    <3>7. committed \subseteq ToSet(log) => committed' \subseteq ToSet(log')
      BY <2>3, <2>5, <3>1
    <3>8. CASE pc = "persist"
      <4>1. pc' = "remember" /\ by' = by
        BY <3>1, <3>8
      <4>2. \A x \in ToSet(log') : x.nr = nr => x = This(TRUE)
        <5>1. \A x \in ToSet(log) : x.nr # nr
          BY <1>0, <3>3
        <5> HIDE DEF ToSet
        <5> QED
          BY <2>4, <2>5, <3>1, <3>8, <5>1, Zenon
      <4>3. This(TRUE)' = This(TRUE)
        BY <2>1, <4>1 DEF This
      <4> QED
        BY <2>1, <3>2, <3>4, <3>7, <3>8, <4>1, <4>2, <4>3 DEF KeepInv, Reading, Waited
    <3>9. CASE pc = "fallback"
      <4>1. pc' = "idle"
        BY <3>1, <3>9
      <4> QED
        BY <2>1, <3>2, <3>5, <3>6, <3>7, <3>9, <4>1 DEF KeepInv, Reading, Waited
    <3> QED
      BY <2>1, <3>8, <3>9
  <2> QED
    BY <1>11, <2>6, <2>7, <2>8
<1>12. CASE Remember
  <2>1. UNCHANGED <<log, cached, warming, nr, committed, deletes, late, faults>> /\ pc = "remember"
    BY <1>12 DEF Remember
  <2>2. (Calm' <=> Calm) /\ \A n : Answered(n)' = Answered(n)
    BY <2>1 DEF Calm, Answered
  <2>3. \/ pc' = "idle" /\ cached = NULL
        \/ pc' = "write_back" /\ draft' = cached /\ cached # NULL /\ by' = by
    BY <1>12 DEF Remember
  <2> QED
    BY <2>1, <2>2, <2>3 DEF KeepInv, Reading, Waited, This
<1>13. CASE WriteBack
  <2>1. UNCHANGED <<log, warming, nr, committed, deletes, late, faults>> /\ pc = "write_back" /\ pc' = "idle"
        /\ cached' = Written
    BY <1>13 DEF WriteBack
  <2>2. (Calm' <=> Calm) /\ \A n : Answered(n)' = Answered(n)
    BY <2>1 DEF Calm, Answered
  <2>3. Calm => Answered(nr + 1) \subseteq ToSet(Written)
    BY <2>1, WrittenKeeps
  <2> QED
    BY <2>1, <2>2, <2>3 DEF KeepInv, Reading, Waited
<1>14. CASE DeleteRow
  <2>1. log' = <<>> /\ UNCHANGED <<warming, turn, nr>> /\ deletes' = deletes + 1
    BY <1>14 DEF DeleteRow
  <2>2. ~Calm' /\ deletes' # 0 /\ ToSet(log') = {}
    BY <1>0, <2>1 DEF Calm, ToSet
  <2> QED
    BY <2>1, <2>2 DEF KeepInv, turn
<1>15. CASE Clear \/ ClearFails \/ ExpireContext \/ ExpireHistory
  <2>1. UNCHANGED <<log, warming, pc, by, seen, draft, nr, committed, deletes, late>>
        /\ cached' \in {cached, NULL} /\ faults' \in {faults, faults + 1}
    BY <1>15 DEF Clear, ClearFails, ExpireContext, ExpireHistory, turn
  <2>2. (Calm' => Calm) /\ \A n : Answered(n)' = Answered(n)
    BY <1>0, <2>1 DEF Calm, Answered
  <2> QED
    BY <2>1, <2>2 DEF KeepInv, This
<1> QED
  BY <1>1, <1>2, <1>3, <1>4, <1>6, <1>7, <1>8, <1>9, <1>10, <1>11, <1>12, <1>13, <1>14, <1>15 DEF Next

\* While nothing fails, is deleted or lands late, a turn is generated from every
\* answered turn of a session that fits the window, whichever store it read.
THEOREM NothingForgottenAlways == Spec => []NothingForgotten
<1>1. TypeInv /\ OrderInv /\ KeepInv => NothingForgotten
  <2> SUFFICES ASSUME TypeInv, OrderInv, KeepInv, pc = "generate", Calm
               PROVE  {t \in ToSet(log) : t.answered} \subseteq ToSet(seen)
    BY DEF NothingForgotten, Calm
  <2>1. \A t \in ToSet(log) : t.nr < nr
    BY LogBefore DEF Unwritten, Steps
  <2> QED
    BY <2>1 DEF KeepInv, Answered
<1>2. Spec => [](TypeInv /\ PhantomInv /\ OrderInv /\ KeepInv)
  BY InitTypeInv, NextTypeInv, InitPhantomInv, NextPhantomInv, InitOrderInv, NextOrderInv,
     InitKeepInv, NextKeepInv, PTL DEF Spec
<1> QED
  BY <1>1, <1>2, PTL
-----------------------------------------------------------------------------
(***************************************************************************)
(* What a deletion leaves: nothing in the table, whatever Redis keeps      *)
(***************************************************************************)

\* Turns are numbered as they begin: what was deleted before a turn is older.
NumberedInTurn ==
  /\ \A t \in committed : t.nr <= nr
  /\ \A t \in deleted : t.nr < nr

\* The table holds no turn that had been deleted when this turn began.
TableForgets == ToSet(log) \cap deleted = {}

ForgetInv == NumberedInTurn /\ TableForgets

LEMMA NextForgetInv == ASSUME TypeInv, ForgetInv, [Next]_vars PROVE ForgetInv'
<1>0. nr \in Nat /\ log \in History /\ committed \subseteq Turn /\ deleted \subseteq Turn
  BY ConstantsAssumption DEF TypeInv, TypeOK
<1>1. ASSUME nr' = nr, committed' = committed, deleted' = deleted, log' \in {log, <<>>}
      PROVE  ForgetInv'
  BY <1>1 DEF ForgetInv, NumberedInTurn, TableForgets, ToSet
<1>2. ASSUME NEW u \in User, Begin(u) PROVE ForgetInv'
  <2>1. nr' = nr + 1 /\ log' = log /\ committed' = committed
    BY <1>2 DEF Begin, db
  <2>2. deleted' = deleted \/ deleted' = committed \ ToSet(log)
    BY <1>2 DEF Begin
  <2>3. \A t \in Turn : t.nr \in Nat
    BY DEF Turn
  <2>4. NumberedInTurn'
    <3>1. \A t \in committed \cup deleted : t.nr <= nr /\ t.nr \in Nat
      BY <1>0, <2>3 DEF ForgetInv, NumberedInTurn
    <3> QED
      BY <1>0, <2>1, <2>2, <3>1 DEF NumberedInTurn
  <2>5. TableForgets'
    BY <2>1, <2>2 DEF ForgetInv, TableForgets
  <2> QED
    BY <2>4, <2>5 DEF ForgetInv
<1>3. CASE Persist \/ PersistFails
  <2>1. nr' = nr /\ deleted' = deleted /\ pc # "idle"
    BY <1>3 DEF Persist, PersistFails, Fault, env
  <2>2. CASE UNCHANGED <<log, committed>>
    BY <1>1, <2>1, <2>2
  <2>3. CASE Commit
    <3> DEFINE t == This(pc = "persist")
    <3>1. t \in Turn /\ t.nr = nr
      <4>1. t.nr = nr
        BY DEF This
      <4> QED
        BY <2>1, <4>1, ThisTurn
    <3>2. log' = Append(log, t) /\ committed' = committed \cup {t}
      BY <2>3 DEF Commit
    <3> HIDE DEF t
    <3>3. t \notin deleted
      BY <1>0, <3>1 DEF ForgetInv, NumberedInTurn
    <3>4. ToSet(log') \subseteq ToSet(log) \cup {t}
      BY <1>0, <3>1, <3>2, AppendElements
    <3> QED
      BY <1>0, <2>1, <3>1, <3>2, <3>3, <3>4 DEF ForgetInv, NumberedInTurn, TableForgets
  <2> QED
    BY <1>3, <2>2, <2>3 DEF Persist, PersistFails
<1>4. CASE DeleteRow
  BY <1>1, <1>4 DEF DeleteRow, history
<1>5. CASE \/ ReadContext \/ ReadContextFails \/ Lookup \/ Sync \/ Create \/ CreateFails
           \/ SaveContext \/ SaveContextFails \/ LoadHistory \/ LoadHistoryFails \/ ReadLog \/ Generate
  BY <1>1, <1>5 DEF ReadContext, ReadContextFails, Lookup, Sync, Create, CreateFails, SaveContext,
     SaveContextFails, LoadHistory, LoadHistoryFails, ReadLog, Generate, Fault, db, history, env
<1>6. ASSUME NEW w, Warm(w) \/ WarmFails(w) PROVE ForgetInv'
  BY <1>1, <1>6 DEF Warm, WarmFails, Fault, db, history, env
<1>7. CASE \/ Remember \/ WriteBack \/ WriteBackFails \/ Clear \/ ClearFails \/ ExpireContext
           \/ ExpireHistory \/ Stop \/ UNCHANGED vars
  BY <1>1, <1>7 DEF Remember, WriteBack, WriteBackFails, Clear, ClearFails, ExpireContext,
     ExpireHistory, Stop, Fault, vars, db, history, env
<1> QED
  BY <1>2, <1>3, <1>4, <1>5, <1>6, <1>7 DEF Next

\* A turn that finds no history in Redis is never shown a turn deleted before it
\* began: what outlives the deletion of a session is the history key alone.
TableReadsForget == [][ReadLog => ToSet(seen') \cap deleted = {}]_vars

THEOREM TableReadsForgetAlways == Spec => TableReadsForget
<1>1. Init => ForgetInv
  BY DEF Init, ForgetInv, NumberedInTurn, TableForgets
<1>2. TypeInv /\ ForgetInv /\ [Next]_vars => ForgetInv'
  BY NextForgetInv
<1>3. ASSUME TypeInv, ForgetInv, ReadLog PROVE ToSet(seen') \cap deleted = {}
  <2>1. seen' = Oldest(log, Window) /\ log \in History /\ Window \in Nat
    BY <1>3, ConstantsAssumption DEF ReadLog, TypeInv, TypeOK
  <2> QED
    BY <1>3, <2>1, OldestElements DEF ForgetInv, TableForgets
<1>4. TypeInv /\ ForgetInv => [ReadLog => ToSet(seen') \cap deleted = {}]_vars
  BY <1>3
<1> QED
  BY <1>1, <1>2, <1>4, TypeInvAlways, PTL DEF Spec, TableReadsForget
=============================================================================
