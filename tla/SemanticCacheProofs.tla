------------------------- MODULE SemanticCacheProofs -------------------------
(***************************************************************************)
(* What holds of SemanticCache for any number of calls, sessions and       *)
(* queries, any capacities and any number of failures.                     *)
(***************************************************************************)
EXTENDS SemanticCache, TLAPS

\* What a call is inside of, by its next step.
Inside == {"search", "add", "undo", "trim"}
Initialising == {"loading", "indexing"}
PastCheck == {"encode", "encoding", "enter"} \cup Inside

\* Who holds the locks.
LockInv ==
  \A c \in Call :
    /\ cacheLock = c <=> pc[c] \in Inside
    /\ initLock = c <=> pc[c] \in Initialising

\* The index appears while the call that loaded the model holds _init_lock, or never.
InitInv ==
  /\ ~model => index = NULL
  /\ model /\ index = NULL => raced \/ \E c \in Call : pc[c] = "indexing"
  /\ \A c \in Call : pc[c] = "loading" => ~model
  /\ \A c \in Call : pc[c] = "indexing" => model /\ index = NULL
  /\ \A c \in Call : pc[c] = "trim" => index # NULL

\* A call has a request while it is under way, and a hit only when it returns.
CallInv ==
  \A c \in Call :
    /\ ask[c] = NULL <=> pc[c] = "idle"
    /\ hit[c] # NULL => pc[c] = "return"

\* The index never has more positions than the list, raced or not.
BehindInv == index # NULL => Len(index) <= Len(data)

\* Unless the initialisation was raced or broken off, whoever is past the check has an index.
ReadyInv ==
  ~raced =>
    /\ \A c \in Call : pc[c] \in PastCheck => index # NULL
    /\ index = NULL => data = <<>>

\* The list is one entry ahead of the index in the handler of add, and in step
\* with it otherwise.
Matches == \A i \in DOMAIN index : index[i] = data[i].query

AlignInv ==
  ~raced /\ index # NULL =>
    /\ Matches
    /\ Len(data) = Len(index) + (IF \E c \in Call : pc[c] = "undo" THEN 1 ELSE 0)

\* The list is over its cap by one more while the call that added has yet to trim.
SizeInv ==
  ~raced =>
    /\ Len(data) <= MaxSize + faults + 1
    /\ (\A c \in Call : pc[c] \notin {"undo", "trim"}) => Len(data) <= MaxSize + faults

\* Unless the initialisation was raced or broken off, a call was served the entry it matched.
AnswersInv == ~raced => AnswersTheQuestion

-----------------------------------------------------------------------------
LEMMA InitTypeOK == Init => TypeOK
<1> SUFFICES ASSUME Init PROVE TypeOK
  OBVIOUS
<1>1. 0 \in 0..MaxFault
  BY ConstantsAssumption
<1>2. <<>> \in Seq(Entry) /\ <<>> \in Seq(Query)
  OBVIOUS
<1> QED
  BY <1>1, <1>2 DEF Init, TypeOK, PC

\* The tail of the list that eviction keeps.
LEMMA NewestSeq ==
  ASSUME data \in Seq(Entry), Len(data) > MaxSize
  PROVE  /\ Newest \in Seq(Entry)
         /\ Len(Newest) = MaxSize - EvictionCount
         /\ [i \in DOMAIN Newest |-> Newest[i].query] \in Seq(Query)
         /\ Len([i \in DOMAIN Newest |-> Newest[i].query]) = Len(Newest)
<1> DEFINE first == Len(data) - (MaxSize - EvictionCount) + 1
<1>1. first \in 1..Len(data) /\ MaxSize - EvictionCount \in Nat
  BY ConstantsAssumption
<1>2. Newest \in Seq(Entry) /\ Len(Newest) = MaxSize - EvictionCount
  BY <1>1 DEF Newest
<1>3. \A i \in 1..Len(Newest) : Newest[i] \in Entry
  BY <1>2
<1>4. DOMAIN Newest = 1..Len(Newest)
  BY <1>2
<1>5. [i \in 1..Len(Newest) |-> Newest[i].query] \in Seq(Query)
  BY <1>2, <1>3 DEF Entry, Request
<1> QED
  BY <1>2, <1>4, <1>5

LEMMA NextTypeOK == TypeOK /\ CallInv /\ BehindInv /\ [Next]_vars => TypeOK'
<1> SUFFICES ASSUME TypeOK, CallInv, BehindInv, [Next]_vars PROVE TypeOK'
  OBVIOUS
<1> USE DEF TypeOK, PC, Goto, cache, locks
<1>1. CASE UNCHANGED vars
  BY <1>1 DEF vars, call
<1>2. ASSUME NEW c \in Call, Step(c) PROVE TypeOK'
  <2>1. CASE Ask(c)
    BY <2>1 DEF Ask
  <2>2. CASE Generate(c) \/ GenerateFails(c) \/ Return(c)
    BY <2>2 DEF Generate, GenerateFails, Return
  <2>3. CASE CheckModel(c)
    BY <2>3 DEF CheckModel
  <2>15. CASE LockInit(c)
    BY <2>15 DEF LockInit
  <2>16. CASE LoadModel(c)
    BY <2>16 DEF LoadModel
  <2>17. CASE CreateIndex(c)
    <3>1. <<>> \in Seq(Query)
      OBVIOUS
    <3> QED
      BY <2>17, <3>1 DEF CreateIndex
  <2>4. CASE LoadFails(c) \/ EncodeFails(c)
    BY <2>4, ConstantsAssumption DEF LoadFails, EncodeFails, Swallow, Fault
  <2>18. CASE CreateIndexFails(c)
    BY <2>18, ConstantsAssumption DEF CreateIndexFails, Swallow, Fault
  <2>5. CASE Encode(c)
    BY <2>5 DEF Encode
  <2>6. ASSUME pc[c] # "idle"
        PROVE  ask[c] \in Request /\ ask[c].query \in Query
    BY <2>6 DEF CallInv, Request
  <2>7. CASE Remember(c)
    <3>1. ask[c].query \in Query
      BY <2>6, <2>7 DEF Remember
    <3>2. Pruned \in Seq(Query)
      BY ConstantsAssumption DEF Pruned
    <3> QED
      BY <2>7, <3>1, <3>2 DEF Remember
  <2>8. CASE Enter(c) \/ SearchMisses(c)
    BY <2>8 DEF Enter, SearchMisses, Leave
  <2>9. CASE SearchHits(c)
    <3>1. PICK i \in Similar(c) : hit' = [hit EXCEPT ![c] = data[i]]
      BY <2>9 DEF SearchHits
    <3>2. index # NULL /\ i \in DOMAIN index
      BY DEF Similar
    <3>3. index \in Seq(Query) /\ Len(index) <= Len(data)
      BY <3>2 DEF BehindInv
    <3>4. data[i] \in Entry
      BY <3>2, <3>3
    <3> QED
      BY <2>9, <3>1, <3>4 DEF SearchHits, Leave
  <2>10. CASE Add(c)
    <3>1. ask[c] \in Request /\ ask[c].query \in Query
      BY <2>6, <2>10 DEF Add
    <3> QED
      BY <2>10, <3>1 DEF Add, AppendData, Entry
  <2>11. CASE AddFails(c)
    <3>1. ask[c] \in Request
      BY <2>6, <2>11 DEF AddFails
    <3>4. data' = data \/ data' = Append(data, ask[c])
      BY <2>11 DEF AddFails, AppendData
    <3>2. data' \in Seq(Entry)
      BY <3>1, <3>4 DEF Entry
    <3>3. faults' \in 0..MaxFault
      BY <2>11, ConstantsAssumption DEF AddFails, Fault
    <3> QED
      BY <2>11, <3>2, <3>3 DEF AddFails
  <2>12. CASE Undo(c)
    BY <2>12 DEF Undo, Leave
  <2>13. CASE Trim(c)
    BY <2>13, NewestSeq DEF Trim, Leave
  <2>14. CASE TrimFails(c)
    BY <2>14, ConstantsAssumption DEF TrimFails, Leave, Fault
  <2> QED
    BY <1>2, <2>1, <2>2, <2>3, <2>4, <2>5, <2>7, <2>8, <2>9, <2>10, <2>11, <2>12,
       <2>13, <2>14, <2>15, <2>16, <2>17, <2>18 DEF Step
<1> QED
  BY <1>1, <1>2 DEF Next

LEMMA NextBehindInv == TypeOK /\ CallInv /\ BehindInv /\ [Next]_vars => BehindInv'
<1> SUFFICES ASSUME TypeOK, CallInv, BehindInv, [Next]_vars PROVE BehindInv'
  OBVIOUS
<1> USE DEF BehindInv
<1>1. CASE UNCHANGED <<index, data>>
  BY <1>1
<1>2. ASSUME NEW c \in Call, Step(c), ~UNCHANGED <<index, data>> PROVE BehindInv'
  <2>1. CASE CreateIndex(c)
    BY <2>1 DEF CreateIndex, TypeOK
  <2>2. CASE Add(c)
    BY <2>2, NullAssumption DEF Add, AppendData, TypeOK
  <2>3. CASE AddFails(c)
    BY <2>3 DEF AddFails, AppendData, TypeOK
  <2>4. CASE Undo(c)
    BY <2>4 DEF Undo, TypeOK
  <2>5. CASE Trim(c)
    BY <2>5, NewestSeq DEF Trim, TypeOK
  <2> QED
    BY <1>2, <2>1, <2>2, <2>3, <2>4, <2>5
       DEF Step, cache, Ask, Generate, GenerateFails, Return, CheckModel, LockInit,
           LoadModel, LoadFails, CreateIndexFails, Encode, Remember, EncodeFails, Enter,
           SearchHits, SearchMisses, TrimFails
<1> QED
  BY <1>1, <1>2 DEF Next, vars, cache

LEMMA NextCallInv == TypeOK /\ CallInv /\ [Next]_vars => CallInv'
<1> SUFFICES ASSUME TypeOK, CallInv, [Next]_vars PROVE CallInv'
  OBVIOUS
<1> USE DEF TypeOK, PC, Goto, CallInv
<1>1. CASE UNCHANGED vars
  BY <1>1 DEF vars, call
<1>2. ASSUME NEW c \in Call, Step(c) PROVE CallInv'
  <2>1. CASE Ask(c)
    BY <2>1, NullAssumption DEF Ask
  <2>2. CASE Generate(c) \/ GenerateFails(c) \/ Return(c)
    BY <2>2 DEF Generate, GenerateFails, Return
  <2>3. CASE \/ CheckModel(c) \/ LockInit(c) \/ LoadModel(c) \/ LoadFails(c)
             \/ CreateIndex(c) \/ CreateIndexFails(c)
    BY <2>3 DEF CheckModel, LockInit, LoadModel, LoadFails, CreateIndex, CreateIndexFails,
                Swallow
  <2>4. CASE Encode(c) \/ Remember(c) \/ EncodeFails(c)
    BY <2>4 DEF Encode, Remember, EncodeFails, Swallow
  <2>5. CASE Enter(c)
    BY <2>5 DEF Enter
  <2>6. CASE SearchHits(c)
    BY <2>6 DEF SearchHits, Leave
  <2>7. CASE SearchMisses(c) \/ Add(c) \/ AddFails(c)
    BY <2>7 DEF SearchMisses, Add, AddFails, Leave
  <2>8. CASE Undo(c) \/ Trim(c) \/ TrimFails(c)
    BY <2>8 DEF Undo, Trim, TrimFails, Leave
  <2> QED
    BY <1>2, <2>1, <2>2, <2>3, <2>4, <2>5, <2>6, <2>7, <2>8 DEF Step
<1> QED
  BY <1>1, <1>2 DEF Next

LEMMA InitRest ==
  Init => /\ LockInv /\ InitInv /\ CallInv /\ BehindInv /\ ReadyInv /\ AlignInv /\ SizeInv
          /\ Isolated /\ AnswersInv /\ EncodingsBounded
<1> SUFFICES ASSUME Init
    PROVE  /\ LockInv /\ InitInv /\ CallInv /\ BehindInv /\ ReadyInv /\ AlignInv /\ SizeInv
           /\ Isolated /\ AnswersInv /\ EncodingsBounded
  OBVIOUS
<1>1. LockInv /\ InitInv /\ CallInv /\ ReadyInv
  BY NullAssumption
     DEF Init, LockInv, InitInv, CallInv, ReadyInv, Inside, Initialising, PastCheck
<1>2. BehindInv /\ AlignInv /\ Isolated /\ AnswersInv
  BY DEF Init, BehindInv, AlignInv, Isolated, AnswersInv, AnswersTheQuestion
<1>3. SizeInv /\ EncodingsBounded
  BY ConstantsAssumption DEF Init, SizeInv, EncodingsBounded
<1> QED
  BY <1>1, <1>2, <1>3

LEMMA NextLockInv == TypeOK /\ LockInv /\ [Next]_vars => LockInv'
<1> SUFFICES ASSUME TypeOK, LockInv, [Next]_vars, NEW d \in Call
             PROVE  /\ cacheLock' = d <=> pc'[d] \in Inside
                    /\ initLock' = d <=> pc'[d] \in Initialising
  BY DEF LockInv
<1> USE NullAssumption DEF TypeOK, PC, Goto, LockInv, Inside, Initialising
<1>1. CASE UNCHANGED vars
  BY <1>1 DEF vars, call, locks
<1>2. ASSUME NEW c \in Call, Step(c)
      PROVE  /\ cacheLock' = d <=> pc'[d] \in Inside
             /\ initLock' = d <=> pc'[d] \in Initialising
  <2>1. CASE Ask(c) \/ Generate(c) \/ GenerateFails(c) \/ Return(c)
    BY <2>1 DEF Ask, Generate, GenerateFails, Return, locks
  <2>2. CASE CheckModel(c) \/ LockInit(c)
    BY <2>2 DEF CheckModel, LockInit, locks
  <2>3. CASE LoadModel(c) \/ LoadFails(c) \/ CreateIndex(c) \/ CreateIndexFails(c)
    BY <2>3 DEF LoadModel, LoadFails, CreateIndex, CreateIndexFails, Swallow, locks
  <2>4. CASE Encode(c) \/ Remember(c) \/ EncodeFails(c)
    BY <2>4 DEF Encode, Remember, EncodeFails, Swallow, locks
  <2>5. CASE Enter(c)
    BY <2>5 DEF Enter
  <2>6. CASE SearchHits(c) \/ SearchMisses(c)
    BY <2>6 DEF SearchHits, SearchMisses, Leave
  <2>7. CASE Add(c) \/ AddFails(c)
    BY <2>7 DEF Add, AddFails, locks
  <2>8. CASE Undo(c) \/ Trim(c) \/ TrimFails(c)
    BY <2>8 DEF Undo, Trim, TrimFails, Leave
  <2> QED
    BY <1>2, <2>1, <2>2, <2>3, <2>4, <2>5, <2>6, <2>7, <2>8 DEF Step
<1> QED
  BY <1>1, <1>2 DEF Next

LEMMA NextInitInv == TypeOK /\ TypeOK' /\ LockInv /\ InitInv /\ CallInv /\ [Next]_vars => InitInv'
<1> SUFFICES ASSUME TypeOK, TypeOK', LockInv, InitInv, CallInv, [Next]_vars PROVE InitInv'
  OBVIOUS
<1> USE NullAssumption DEF Goto, InitInv
<1>0. pc \in [Call -> PC] /\ model \in BOOLEAN
  BY DEF TypeOK
<1>1. CASE UNCHANGED vars
  BY <1>1 DEF vars, call, cache
<1>2. ASSUME NEW c \in Call, Step(c) PROVE InitInv'
  <2>1. CASE Ask(c) \/ Generate(c) \/ GenerateFails(c) \/ Return(c)
    BY <1>0, <2>1 DEF Ask, Generate, GenerateFails, Return, cache
  <2>2. CASE CheckModel(c) \/ LockInit(c)
    BY <1>0, <2>2 DEF CheckModel, LockInit, cache
  <2>3. CASE LoadModel(c)
    <3>1. \A d \in Call : pc[d] \in Initialising => d = c
      BY <2>3 DEF LoadModel, LockInv, Initialising
    <3>2. model' = TRUE /\ index' = NULL /\ pc'[c] = "indexing"
      BY <1>0, <2>3 DEF LoadModel
    <3>3. \A d \in Call \ {c} : pc'[d] = pc[d] /\ pc[d] \notin Initialising
      BY <1>0, <2>3, <3>1 DEF LoadModel
    <3>4. \A d \in Call : pc[d] # "trim"
      BY <2>3 DEF LoadModel
    <3> QED
      BY <3>2, <3>3, <3>4 DEF Initialising
  <2>4. CASE CreateIndex(c)
    <3>1. \A d \in Call : pc[d] \in Initialising => d = c
      BY <2>4 DEF CreateIndex, LockInv, Initialising
    <3>2. model' /\ index' # NULL /\ pc'[c] = "encode"
      <4>1. <<>> \in Seq(Query)
        OBVIOUS
      <4> QED
        BY <1>0, <2>4, <4>1 DEF CreateIndex
    <3>3. \A d \in Call \ {c} : pc'[d] = pc[d] /\ pc[d] \notin Initialising
      BY <1>0, <2>4, <3>1 DEF CreateIndex
    <3> QED
      BY <3>2, <3>3 DEF Initialising
  <2>5. CASE LoadFails(c) \/ EncodeFails(c)
    BY <1>0, <2>5 DEF LoadFails, EncodeFails, Swallow, cache
  <2>11. CASE CreateIndexFails(c)
    BY <1>0, <2>11 DEF CreateIndexFails, Swallow, cache
  <2>6. CASE Encode(c) \/ Remember(c)
    BY <1>0, <2>6 DEF Encode, Remember, cache
  <2>7. CASE Enter(c)
    <3>1. phase[c] \in {"search", "add"}
      BY DEF TypeOK
    <3> QED
      BY <1>0, <2>7, <3>1 DEF Enter, cache
  <2>8. CASE SearchHits(c) \/ SearchMisses(c) \/ TrimFails(c) \/ AddFails(c) \/ Undo(c)
    BY <1>0, <2>8 DEF SearchHits, SearchMisses, TrimFails, AddFails, Undo, Leave, cache
  <2>9. CASE Add(c)
    <3>1. index' # NULL
      <4>1. ask[c] # NULL
        BY <2>9 DEF Add, CallInv
      <4>2. ask[c].query \in Query /\ index \in Seq(Query)
        BY <2>9, <4>1 DEF Add, TypeOK, Request
      <4> QED
        BY <2>9, <4>2 DEF Add
    <3> QED
      BY <1>0, <2>9, <3>1 DEF Add
  <2>10. CASE Trim(c)
    <3>1. index # NULL /\ index' # NULL
      BY <2>10, NewestSeq DEF Trim, TypeOK
    <3> QED
      BY <1>0, <2>10, <3>1 DEF Trim, Leave
  <2> QED
    BY <1>2, <2>1, <2>2, <2>3, <2>4, <2>5, <2>6, <2>7, <2>8, <2>9, <2>10, <2>11 DEF Step
<1> QED
  BY <1>1, <1>2 DEF Next

LEMMA NextReadyInv ==
  TypeOK /\ LockInv /\ InitInv /\ InitInv' /\ ReadyInv /\ [Next]_vars => ReadyInv'
<1> SUFFICES ASSUME TypeOK, LockInv, InitInv, InitInv', ReadyInv, [Next]_vars, ~raced'
             PROVE  /\ \A d \in Call : pc'[d] \in PastCheck => index' # NULL
                    /\ index' = NULL => data' = <<>>
  BY DEF ReadyInv
<1> USE DEF Goto, PastCheck, Inside
<1>0. pc \in [Call -> PC] /\ phase \in [Call -> {"search", "add"}]
  BY DEF TypeOK
<1>1. CASE UNCHANGED vars
  BY <1>1 DEF vars, call, cache, ReadyInv
<1>2. ASSUME NEW c \in Call, Step(c)
      PROVE  /\ \A d \in Call : pc'[d] \in PastCheck => index' # NULL
             /\ index' = NULL => data' = <<>>
  <2>0. ~raced
    BY <1>2 DEF Step, Ask, Generate, GenerateFails, Return, CheckModel, LockInit, LoadModel,
                LoadFails, CreateIndex, CreateIndexFails, Encode, Remember, EncodeFails, Enter, SearchHits,
                SearchMisses, Add, AddFails, Undo, Trim, TrimFails
  <2> USE <1>0, <2>0 DEF ReadyInv
  <2>1. CASE Ask(c) \/ Generate(c) \/ GenerateFails(c) \/ Return(c)
    BY <2>1 DEF Ask, Generate, GenerateFails, Return, cache
  <2>2. CASE CheckModel(c)
    BY <2>2 DEF CheckModel, cache
  <2>3. CASE LockInit(c)
    <3>1. model => index # NULL
      BY <2>3, NullAssumption DEF LockInit, LockInv, InitInv, Initialising
    <3> QED
      BY <2>3, <3>1 DEF LockInit, cache
  <2>4. CASE LoadModel(c) \/ LoadFails(c)
    BY <2>4 DEF LoadModel, LoadFails, Swallow, cache
  <2>5. CASE CreateIndex(c)
    <3>1. <<>> # NULL
      <4>1. <<>> \in Seq(Query)
        OBVIOUS
      <4> QED
        BY <4>1, NullAssumption
    <3> QED
      BY <2>5, <3>1 DEF CreateIndex
  <2>6. CASE Encode(c) \/ Remember(c) \/ EncodeFails(c)
    BY <2>6 DEF Encode, Remember, EncodeFails, Swallow, cache
  <2>7. CASE Enter(c)
    BY <2>7 DEF Enter, cache
  <2>8. CASE SearchHits(c) \/ SearchMisses(c) \/ TrimFails(c)
    BY <2>8 DEF SearchHits, SearchMisses, TrimFails, Leave, cache
  <2>9. CASE Add(c)
    <3>1. pc'[c] = "trim" /\ index' # NULL
      BY <2>9 DEF Add, InitInv
    <3> QED
      BY <3>1
  <2>10. CASE AddFails(c)
    BY <2>10 DEF AddFails
  <2>11. CASE Undo(c)
    BY <2>11 DEF Undo
  <2>12. CASE Trim(c)
    <3>1. index # NULL
      BY <2>12 DEF Trim
    <3>2. index' # NULL
      BY <2>12, <3>1, NewestSeq, NullAssumption DEF Trim, TypeOK
    <3> QED
      BY <3>2
  <2> QED
    BY <1>2, <2>1, <2>2, <2>3, <2>4, <2>5, <2>6, <2>7, <2>8, <2>9, <2>10, <2>11, <2>12
       DEF Step, CreateIndexFails
<1> QED
  BY <1>1, <1>2 DEF Next

\* The steps that leave the list and the index as they are, and nobody in the
\* handler of add who was not there before.
LEMMA Elsewhere ==
  ASSUME TypeOK, NEW c \in Call,
         \/ Ask(c) \/ Generate(c) \/ GenerateFails(c) \/ Return(c) \/ CheckModel(c)
         \/ LockInit(c) \/ LoadModel(c) \/ LoadFails(c) \/ CreateIndexFails(c)
         \/ Encode(c) \/ Remember(c) \/ EncodeFails(c) \/ Enter(c) \/ SearchHits(c) \/ SearchMisses(c)
  PROVE  /\ UNCHANGED <<data, index>>
         /\ raced => raced'
         /\ faults' \in Nat /\ faults <= faults'
         /\ pc[c] \notin {"undo", "trim"}
         /\ \A d \in Call : pc'[d] = "undo" <=> pc[d] = "undo"
         /\ \A d \in Call : pc'[d] = "trim" <=> pc[d] = "trim"
<1> USE ConstantsAssumption DEF TypeOK, PC, Goto
<1>1. CASE Ask(c) \/ Generate(c) \/ GenerateFails(c) \/ Return(c)
  BY <1>1 DEF Ask, Generate, GenerateFails, Return, cache
<1>2. CASE CheckModel(c) \/ LockInit(c) \/ LoadModel(c)
  BY <1>2 DEF CheckModel, LockInit, LoadModel, cache
<1>3. CASE LoadFails(c) \/ CreateIndexFails(c) \/ EncodeFails(c)
  BY <1>3 DEF LoadFails, CreateIndexFails, EncodeFails, Swallow, Fault, cache
<1>4. CASE Encode(c) \/ Remember(c)
  BY <1>4 DEF Encode, Remember, cache
<1>5. CASE Enter(c)
  BY <1>5 DEF Enter, cache
<1>6. CASE SearchHits(c) \/ SearchMisses(c)
  BY <1>6 DEF SearchHits, SearchMisses, Leave, cache
<1> QED
  BY <1>1, <1>2, <1>3, <1>4, <1>5, <1>6

\* Whoever is inside _cache_lock is alone there.
LEMMA Alone ==
  ASSUME LockInv, NEW c \in Call, pc[c] \in Inside
  PROVE  \A d \in Call \ {c} : pc[d] \notin Inside
BY DEF LockInv

LEMMA NextAlignInv ==
  TypeOK /\ LockInv /\ InitInv /\ CallInv /\ ReadyInv /\ AlignInv /\ [Next]_vars => AlignInv'
<1> SUFFICES ASSUME TypeOK, LockInv, InitInv, CallInv, ReadyInv, AlignInv, [Next]_vars
             PROVE  AlignInv'
  OBVIOUS
<1> USE DEF AlignInv, Matches
<1>1. CASE UNCHANGED vars
  BY <1>1 DEF vars, call, cache
<1>2. ASSUME NEW c \in Call, Step(c) PROVE AlignInv'
  <2>0. pc \in [Call -> PC] /\ data \in Seq(Entry) /\ (index # NULL => index \in Seq(Query))
    BY DEF TypeOK
  <2>1. CASE \/ Ask(c) \/ Generate(c) \/ GenerateFails(c) \/ Return(c) \/ CheckModel(c)
             \/ LockInit(c) \/ LoadModel(c) \/ LoadFails(c) \/ CreateIndexFails(c)
             \/ Encode(c) \/ Remember(c) \/ EncodeFails(c) \/ Enter(c) \/ SearchHits(c) \/ SearchMisses(c)
    BY <2>1, Elsewhere
  <2>2. CASE CreateIndex(c)
    <3> SUFFICES ASSUME ~raced PROVE AlignInv'
      BY <2>2 DEF CreateIndex
    <3>1. data = <<>> /\ \A d \in Call : pc[d] # "undo"
      BY <2>2 DEF CreateIndex, InitInv, ReadyInv, PastCheck, Inside
    <3> QED
      BY <2>0, <2>2, <3>1 DEF CreateIndex, Goto
  <2>3. CASE Add(c)
    <3> SUFFICES ASSUME ~raced PROVE AlignInv'
      BY <2>3 DEF Add
    <3>1. \A d \in Call : pc[d] # "undo" /\ pc'[d] # "undo"
      BY <2>0, <2>3, Alone DEF Add, Inside, Goto
    <3>2. index \in Seq(Query) /\ Len(data) = Len(index) /\ Matches
      BY <2>0, <2>3, <3>1 DEF Add
    <3>3. ask[c] \in Entry /\ ask[c].query \in Query
      BY <2>3 DEF Add, CallInv, TypeOK, Entry, Request
    <3>4. data' = Append(data, ask[c]) /\ index' = Append(index, ask[c].query)
      BY <2>3 DEF Add, AppendData
    <3>5. Len(data') = Len(index')
      BY <2>0, <3>2, <3>4
    <3>6. Matches'
      BY <2>0, <3>2, <3>3, <3>4
    <3> QED
      BY <3>1, <3>5, <3>6
  <2>4. CASE AddFails(c)
    <3> SUFFICES ASSUME ~raced PROVE AlignInv'
      BY <2>4 DEF AddFails
    <3>1. index # NULL /\ index' = index
      BY <2>4 DEF AddFails, ReadyInv, PastCheck, Inside
    <3>2. pc'[c] = "undo" /\ \A d \in Call : pc[d] # "undo"
      BY <2>0, <2>4, Alone DEF AddFails, Inside, Goto
    <3>3. index \in Seq(Query) /\ Len(data) = Len(index) /\ Matches
      BY <2>0, <3>1, <3>2
    <3>4. data' = Append(data, ask[c])
      BY <2>4, <3>1 DEF AddFails, AppendData
    <3>5. Len(data') = Len(index') + 1 /\ Matches'
      BY <2>0, <3>1, <3>3, <3>4
    <3> QED
      BY <3>2, <3>5
  <2>5. CASE Undo(c)
    <3> SUFFICES ASSUME ~raced PROVE AlignInv'
      BY <2>5 DEF Undo
    <3>1. index # NULL /\ index' = index
      BY <2>5 DEF Undo, ReadyInv, PastCheck, Inside
    <3>2. pc[c] = "undo" /\ \A d \in Call : pc'[d] # "undo"
      BY <2>0, <2>5, Alone DEF Undo, Leave, Inside, Goto
    <3>3. index \in Seq(Query) /\ Len(data) = Len(index) + 1 /\ Matches
      BY <2>0, <3>1, <3>2
    <3>4. data' = SubSeq(data, 1, Len(data) - 1)
      BY <2>0, <2>5, <3>1, <3>3 DEF Undo
    <3>5. Len(data') = Len(index') /\ Matches'
      BY <2>0, <3>1, <3>3, <3>4
    <3> QED
      BY <3>2, <3>5
  <2>6. CASE Trim(c)
    <3>1. index # NULL /\ \A d \in Call : pc[d] # "undo" /\ pc'[d] # "undo"
      BY <2>0, <2>6, Alone DEF Trim, Leave, Inside, Goto, InitInv
    <3>2. CASE Len(data) > MaxSize
      <4>1. data' = Newest /\ index' = [i \in DOMAIN Newest |-> Newest[i].query]
        BY <2>6, <3>2 DEF Trim
      <4>2. Len(data') = Len(index') /\ Matches'
        BY <2>0, <3>2, <4>1, NewestSeq
      <4> QED
        BY <3>1, <4>2
    <3>3. CASE ~(Len(data) > MaxSize)
      BY <2>6, <3>1, <3>3 DEF Trim
    <3> QED
      BY <3>2, <3>3
  <2>7. CASE TrimFails(c)
    <3>1. \A d \in Call : pc'[d] = "undo" <=> pc[d] = "undo"
      BY <2>0, <2>7 DEF TrimFails, Leave, Goto
    <3> QED
      BY <2>7, <3>1 DEF TrimFails, cache
  <2> QED
    BY <1>2, <2>1, <2>2, <2>3, <2>4, <2>5, <2>6, <2>7 DEF Step
<1> QED
  BY <1>1, <1>2 DEF Next

LEMMA NextSizeInv ==
  TypeOK /\ LockInv /\ ReadyInv /\ AlignInv /\ SizeInv /\ [Next]_vars => SizeInv'
<1> SUFFICES ASSUME TypeOK, LockInv, ReadyInv, AlignInv, SizeInv, [Next]_vars
             PROVE  SizeInv'
  OBVIOUS
<1> USE ConstantsAssumption DEF SizeInv
<1>1. CASE UNCHANGED vars
  BY <1>1 DEF vars, call, cache
<1>2. ASSUME NEW c \in Call, Step(c) PROVE SizeInv'
  <2>0. pc \in [Call -> PC] /\ data \in Seq(Entry) /\ Len(data) \in Nat /\ faults \in Nat
    BY DEF TypeOK
  <2>1. CASE \/ Ask(c) \/ Generate(c) \/ GenerateFails(c) \/ Return(c) \/ CheckModel(c)
             \/ LockInit(c) \/ LoadModel(c) \/ LoadFails(c) \/ CreateIndexFails(c)
             \/ Encode(c) \/ Remember(c) \/ EncodeFails(c) \/ Enter(c) \/ SearchHits(c) \/ SearchMisses(c)
    BY <2>0, <2>1, Elsewhere
  <2>2. CASE CreateIndex(c)
    <3>1. UNCHANGED <<data, faults, raced>>
      BY <2>2 DEF CreateIndex
    <3>2. \A d \in Call : pc'[d] \in {"undo", "trim"} <=> pc[d] \in {"undo", "trim"}
      BY <2>0, <2>2 DEF CreateIndex, Goto
    <3> QED
      BY <3>1, <3>2
  <2>3. CASE Add(c) \/ AddFails(c)
    <3> SUFFICES ASSUME ~raced PROVE SizeInv'
      BY <2>3 DEF Add, AddFails
    <3>1. Len(data) <= MaxSize + faults
      BY <2>3, Alone DEF Add, AddFails, Inside
    <3>4. index # NULL
      BY <2>3 DEF Add, AddFails, ReadyInv, PastCheck, Inside
    <3>2. Len(data') = Len(data) + 1 /\ faults' \in Nat /\ faults' >= faults
      BY <2>0, <2>3, <3>4 DEF Add, AddFails, AppendData, Fault
    <3>3. pc'[c] \in {"undo", "trim"}
      BY <2>0, <2>3 DEF Add, AddFails, Goto
    <3> QED
      BY <2>0, <3>1, <3>2, <3>3
  <2>4. CASE Undo(c)
    <3> SUFFICES ASSUME ~raced PROVE SizeInv'
      BY <2>4 DEF Undo
    <3>1. index # NULL /\ Len(data) = Len(index) + 1
      BY <2>4 DEF Undo, ReadyInv, AlignInv, PastCheck, Inside
    <3>2. Len(data) <= MaxSize + faults + 1 /\ faults' = faults /\ index \in Seq(Query)
      BY <2>4, <3>1 DEF Undo, TypeOK
    <3>3. Len(data') = Len(data) - 1
      BY <2>0, <2>4, <3>1, <3>2 DEF Undo
    <3> QED
      BY <2>0, <3>2, <3>3
  <2>5. CASE Trim(c)
    <3>1. Len(data') <= MaxSize /\ Len(data') \in Nat /\ faults' = faults
      BY <2>0, <2>5, NewestSeq DEF Trim
    <3> QED
      BY <2>0, <3>1
  <2>6. CASE TrimFails(c)
    <3>1. data' = data /\ faults' = faults + 1 /\ raced' = raced
      BY <2>6 DEF TrimFails, Fault, cache
    <3> QED
      BY <2>0, <3>1
  <2> QED
    BY <1>2, <2>1, <2>2, <2>3, <2>4, <2>5, <2>6 DEF Step
<1> QED
  BY <1>1, <1>2 DEF Next

LEMMA NextIsolated == TypeOK /\ CallInv /\ BehindInv /\ Isolated /\ [Next]_vars => Isolated'
<1> SUFFICES ASSUME TypeOK, CallInv, BehindInv, Isolated, [Next]_vars PROVE Isolated'
  OBVIOUS
<1> USE DEF Isolated
<1>1. CASE UNCHANGED vars
  BY <1>1 DEF vars, call
<1>2. ASSUME NEW c \in Call, Step(c) PROVE Isolated'
  <2>1. CASE Ask(c)
    <3>1. hit[c] = NULL /\ hit' = hit /\ \A d \in Call \ {c} : ask'[d] = ask[d]
      BY <2>1 DEF Ask, CallInv, TypeOK
    <3> QED
      BY <3>1
  <2>2. CASE Return(c)
    <3>1. hit'[c] = NULL /\ \A d \in Call \ {c} : ask'[d] = ask[d] /\ hit'[d] = hit[d]
      BY <2>2 DEF Return, TypeOK
    <3> QED
      BY <3>1
  <2>3. CASE SearchHits(c)
    <3>1. PICK i \in Similar(c) : Fits(c, data[i]) /\ hit' = [hit EXCEPT ![c] = data[i]]
      BY <2>3 DEF SearchHits
    <3>2. data[i] \in Request
      BY DEF Similar, BehindInv, TypeOK, Entry
    <3>3. ask[c] \in Request /\ ask' = ask
      BY <2>3 DEF SearchHits, CallInv, TypeOK
    <3>4. data[i].session = ask[c].session \/ data[i].intent = "general_faq"
      BY <3>1, <3>2, <3>3, NullAssumption DEF Fits, Scope, Request
    <3>5. hit'[c] = data[i] /\ \A d \in Call \ {c} : hit'[d] = hit[d]
      BY <3>1 DEF TypeOK
    <3> QED
      BY <3>3, <3>4, <3>5
  <2>4. CASE UNCHANGED <<ask, hit>>
    BY <2>4
  <2> QED
    BY <1>2, <2>1, <2>2, <2>3, <2>4
       DEF Step, Generate, GenerateFails, CheckModel, LockInit, LoadModel, LoadFails,
           CreateIndex, CreateIndexFails, Encode, Remember, EncodeFails, Enter, SearchMisses,
           Add, AddFails, Undo, Trim, TrimFails
<1> QED
  BY <1>1, <1>2 DEF Next

\* A race is never forgotten.
LEMMA RacedForGood == [Next]_vars /\ raced => raced'
BY DEF Next, vars, Step, Ask, Generate, GenerateFails, Return, CheckModel, LockInit, LoadModel,
       LoadFails, CreateIndex, CreateIndexFails, Encode, Remember, EncodeFails, Enter,
       SearchHits, SearchMisses, Add, AddFails, Undo, Trim, TrimFails

LEMMA NextAnswersInv ==
  TypeOK /\ CallInv /\ ReadyInv /\ AlignInv /\ AnswersInv /\ [Next]_vars => AnswersInv'
<1> SUFFICES ASSUME TypeOK, CallInv, AlignInv, ~raced, AnswersTheQuestion, [Next]_vars
             PROVE  AnswersTheQuestion'
  BY RacedForGood DEF AnswersInv
<1> USE DEF AnswersTheQuestion
<1>1. CASE UNCHANGED vars
  BY <1>1 DEF vars, call
<1>2. ASSUME NEW c \in Call, Step(c) PROVE AnswersTheQuestion'
  <2>1. CASE Ask(c)
    <3>1. hit[c] = NULL /\ hit' = hit /\ \A d \in Call \ {c} : ask'[d] = ask[d]
      BY <2>1 DEF Ask, CallInv, TypeOK
    <3> QED
      BY <3>1
  <2>2. CASE Return(c)
    <3>1. hit'[c] = NULL /\ \A d \in Call \ {c} : ask'[d] = ask[d] /\ hit'[d] = hit[d]
      BY <2>2 DEF Return, TypeOK
    <3> QED
      BY <3>1
  <2>3. CASE SearchHits(c)
    <3>1. PICK i \in Similar(c) : hit' = [hit EXCEPT ![c] = data[i]]
      BY <2>3 DEF SearchHits
    <3>2. data[i].query = ask[c].query
      BY DEF Similar, AlignInv, Matches
    <3>3. ask' = ask /\ hit'[c] = data[i] /\ \A d \in Call \ {c} : hit'[d] = hit[d]
      BY <2>3, <3>1 DEF SearchHits, TypeOK
    <3> QED
      BY <3>2, <3>3
  <2>4. CASE UNCHANGED <<ask, hit>>
    BY <2>4
  <2> QED
    BY <1>2, <2>1, <2>2, <2>3, <2>4
       DEF Step, Generate, GenerateFails, CheckModel, LockInit, LoadModel, LoadFails,
           CreateIndex, CreateIndexFails, Encode, Remember, EncodeFails, Enter, SearchMisses,
           Add, AddFails, Undo, Trim, TrimFails
<1> QED
  BY <1>1, <1>2 DEF Next

LEMMA NextEncodings == TypeOK /\ EncodingsBounded /\ [Next]_vars => EncodingsBounded'
<1> SUFFICES ASSUME TypeOK, EncodingsBounded, [Next]_vars PROVE EncodingsBounded'
  OBVIOUS
<1>1. CASE UNCHANGED encoded
  BY <1>1 DEF EncodingsBounded
<1>2. ASSUME NEW c \in Call, Remember(c) PROVE EncodingsBounded'
  <2>1. encoded \in Seq(Query) /\ Len(encoded) <= EncodeLimit + 1
    BY DEF TypeOK, EncodingsBounded
  <2>2. Pruned \in Seq(Query) /\ Len(Pruned) <= EncodeLimit
    BY <2>1, ConstantsAssumption DEF Pruned
  <2>3. Len(encoded') <= Len(Pruned) + 1
    BY <1>2, <2>2 DEF Remember
  <2>4. Len(encoded') \in Nat
    BY <1>2, <2>2 DEF Remember
  <2> QED
    BY <2>2, <2>3, <2>4, ConstantsAssumption DEF EncodingsBounded
<1> QED
  BY <1>1, <1>2
     DEF Next, Step, vars, cache, Ask, Generate, GenerateFails, Return, CheckModel, LockInit,
         LoadModel, LoadFails, CreateIndex, CreateIndexFails, Encode, EncodeFails, Enter,
         SearchHits, SearchMisses, Add, AddFails, Undo, Trim, TrimFails

-----------------------------------------------------------------------------
IInv == /\ TypeOK /\ LockInv /\ InitInv /\ CallInv /\ BehindInv /\ ReadyInv
        /\ AlignInv /\ SizeInv /\ Isolated /\ AnswersInv /\ EncodingsBounded

LEMMA Invariant == Spec => []IInv
<1>1. Init => IInv
  BY InitTypeOK, InitRest DEF IInv
<1>2. IInv /\ [Next]_vars => IInv'
  BY NextTypeOK, NextLockInv, NextInitInv, NextCallInv, NextBehindInv, NextReadyInv,
     NextAlignInv, NextSizeInv, NextIsolated, NextAnswersInv, NextEncodings DEF IInv
<1> QED
  BY <1>1, <1>2, PTL DEF Spec

\* Every variable of the cache and of its calls keeps its type: no position of
\* the index is ever without an entry.
THEOREM TypeCorrect == Spec => []TypeOK
<1>1. IInv => TypeOK
  BY DEF IInv
<1> QED
  BY Invariant, <1>1, PTL

\* The list and the index stay in step through every failure of add and of
\* eviction, unless a call got in between the two assignments of
\* _initialize_if_needed, or the second of them failed.
THEOREM AlignedUnlessRacedAlways == Spec => []AlignedUnlessRaced
<1>1. IInv => AlignedUnlessRaced
  <2> SUFFICES ASSUME IInv, ~raced, index # NULL, cacheLock = NULL PROVE Aligned
    BY DEF AlignedUnlessRaced
  <2>1. \A c \in Call : pc[c] # "undo"
    BY NullAssumption DEF IInv, LockInv, Inside
  <2>2. Matches /\ Len(data) = Len(index)
    BY <2>1 DEF IInv, AlignInv, TypeOK
  <2>3. data \in Seq(Entry) /\ index \in Seq(Query)
    BY DEF IInv, TypeOK
  <2> QED
    BY <2>2, <2>3 DEF Aligned, Matches
<1> QED
  BY Invariant, <1>1, PTL

\* Eviction keeps the list under max_size plus one entry for each failure of the
\* libraries, between any two calls.
THEOREM BoundedAlways == Spec => []Bounded
<1>1. IInv => Bounded
  BY NullAssumption DEF IInv, LockInv, SizeInv, Bounded, Inside
<1> QED
  BY Invariant, <1>1, PTL

\* No call is served an answer that another session was given, other than an FAQ
\* answer, whatever state the race leaves the index in.
THEOREM IsolatedAlways == Spec => []Isolated
<1>1. IInv => Isolated
  BY DEF IInv
<1> QED
  BY Invariant, <1>1, PTL

\* A call is answered from the cache with an answer to its own question, unless
\* a call got in between the two assignments of _initialize_if_needed, or the
\* second of them failed: no failure of search, add or eviction leads to a wrong
\* answer.
THEOREM AnswersUnlessRacedAlways == Spec => [](~raced => AnswersTheQuestion)
<1>1. IInv => (~raced => AnswersTheQuestion)
  BY DEF IInv, AnswersInv
<1> QED
  BY Invariant, <1>1, PTL

\* The cache is filled once and never started over: no step, of a second
\* initialisation or of eviction, leaves an index that held vectors empty or
\* takes it away.
NeverEmptied == [][index \notin {NULL, <<>>} => index' \notin {NULL, <<>>}]_vars

THEOREM NeverEmptiedAlways == Spec => NeverEmptied
<1> DEFINE Kept == index \notin {NULL, <<>>} => index' \notin {NULL, <<>>}
<1>1. IInv /\ [Next]_vars => [Kept]_vars
  <2> SUFFICES ASSUME IInv, NEW c \in Call, Step(c), index \notin {NULL, <<>>}
               PROVE  index' \notin {NULL, <<>>}
    BY DEF Next
  <2> USE DEF IInv
  <2>1. index \in Seq(Query) /\ data \in Seq(Entry)
    BY DEF TypeOK
  <2>2. CASE CreateIndex(c)
    BY <2>2 DEF CreateIndex, InitInv
  <2>3. CASE Add(c)
    <3>1. ask[c].query \in Query
      BY <2>3 DEF Add, CallInv, TypeOK, Request
    <3>2. index' \in Seq(Query) /\ Len(index') # 0
      BY <2>1, <2>3, <3>1 DEF Add
    <3> QED
      BY <3>2, NullAssumption
  <2>4. CASE Trim(c)
    <3>1. CASE Len(data) > MaxSize
      <4>1. index' \in Seq(Query) /\ Len(index') = MaxSize - EvictionCount
        BY <2>1, <2>4, <3>1, NewestSeq DEF Trim
      <4> QED
        BY <4>1, ConstantsAssumption, NullAssumption
    <3>2. CASE ~(Len(data) > MaxSize)
      BY <2>4, <3>2 DEF Trim
    <3> QED
      BY <3>1, <3>2
  <2>5. CASE UNCHANGED index
    BY <2>5
  <2> QED
    BY <2>2, <2>3, <2>4, <2>5
       DEF Step, cache, Ask, Generate, GenerateFails, Return, CheckModel, LockInit, LoadModel,
           LoadFails, CreateIndexFails, Encode, Remember, EncodeFails, Enter, SearchHits,
           SearchMisses, AddFails, Undo, TrimFails
<1> QED
  BY Invariant, <1>1, PTL DEF Spec, NeverEmptied

\* The cache of encodings never holds more than one over its limit.
THEOREM EncodingsBoundedAlways == Spec => []EncodingsBounded
<1>1. IInv => EncodingsBounded
  BY DEF IInv
<1> QED
  BY Invariant, <1>1, PTL
=============================================================================
