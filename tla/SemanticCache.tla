---------------------------- MODULE SemanticCache ----------------------------
(***************************************************************************)
(* ChatService.generate_response for the intents it caches, and the        *)
(* in-memory SemanticCacheService it consults before and fills after       *)
(* generation: a list of (metadata, vector), a FAISS index over the same   *)
(* vectors, a cache of query encodings, and the locks around them.         *)
(*                                                                         *)
(* search and add run in threads (asyncio.to_thread), so calls interleave  *)
(* between any two steps that touch shared state; the body of a "with"     *)
(* block on _encode_lock is one step, for nothing in it is seen outside.   *)
(*                                                                         *)
(* A query stands for its meaning: its vector is similar to itself alone.  *)
(***************************************************************************)
EXTENDS Naturals, Sequences

CONSTANTS
  Call,           \* concurrent calls of generate_response
  Session,
  Query,
  NULL,
  MaxSize,        \* max_size: entries kept
  EvictionCount,  \* eviction_count: entries dropped when there are more
  EncodeLimit,    \* encodings kept
  EncodeDrop,     \* encodings dropped when there are more
  MaxFault,       \* calls of the two libraries that may raise
  MaxOrphans      \* entries counted that were added while there is no index

ASSUME ConstantsAssumption ==
  /\ MaxSize \in Nat /\ EvictionCount \in 1..(MaxSize - 1)
  /\ EncodeLimit \in Nat /\ EncodeDrop \in 1..(EncodeLimit + 1)
  /\ MaxFault \in Nat /\ MaxOrphans \in Nat

VARIABLES
  model,      \* self.model is not None
  index,      \* self.index: the vectors in it, by position; NULL is None
  data,       \* self._cache_data
  encoded,    \* the keys of self._query_encode_cache, oldest first
  initLock,   \* the call that holds _init_lock
  cacheLock,  \* the call that holds _cache_lock
  pc,         \* pc[c]: the next step of the call
  phase,      \* phase[c]: is its thread in search or in add?
  ask,        \* ask[c]: the session, query and intent of the call
  hit,        \* hit[c]: the entry it was answered from, if any
  faults,     \* how often a library has raised
  raced       \* history: has a call used the cache between the two assignments
              \* of _initialize_if_needed, or has the second of them failed?

cache == <<model, index, data, encoded>>
locks == <<initLock, cacheLock>>
call == <<pc, phase, ask, hit>>
vars == <<cache, locks, call, faults, raced>>

\* greeting, chit_chat and fallback are cached alike.
Intent == {"general_faq", "chit_chat"}
Request == [session : Session, query : Query, intent : Intent]
\* An entry: metadata (intent, and a scope that follows from session and intent)
\* and vector (query).  It is the answer to the request it was stored by.
Entry == Request

ASSUME NullAssumption == NULL \notin Call \cup Session \cup Request \cup Seq(Query)

PC == {"idle", "check", "return", "wait_init", "loading", "indexing", "encode", "encoding",
       "enter", "search", "generate", "add", "undo", "trim"}

TypeOK ==
  /\ model \in BOOLEAN
  /\ index \in Seq(Query) \cup {NULL}
  /\ data \in Seq(Entry)
  /\ encoded \in Seq(Query)
  /\ initLock \in Call \cup {NULL} /\ cacheLock \in Call \cup {NULL}
  /\ pc \in [Call -> PC]
  /\ phase \in [Call -> {"search", "add"}]
  /\ ask \in [Call -> Request \cup {NULL}]
  /\ hit \in [Call -> Entry \cup {NULL}]
  /\ faults \in 0..MaxFault
  /\ raced \in BOOLEAN

Init ==
  /\ model = FALSE /\ index = NULL /\ data = <<>> /\ encoded = <<>>
  /\ initLock = NULL /\ cacheLock = NULL
  /\ pc = [c \in Call |-> "idle"]
  /\ phase = [c \in Call |-> "search"]
  /\ ask = [c \in Call |-> NULL]
  /\ hit = [c \in Call |-> NULL]
  /\ faults = 0 /\ raced = FALSE

Goto(c, step) == pc' = [pc EXCEPT ![c] = step]
Fault == faults < MaxFault /\ faults' = faults + 1

\* search and add swallow what their libraries raise: a search that failed is a
\* miss, an add that failed is over.
Swallow(c) == Goto(c, IF phase[c] = "search" THEN "generate" ELSE "return")
-----------------------------------------------------------------------------
(***************************************************************************)
(* generate_response                                                       *)
(***************************************************************************)
Ask(c) ==
  /\ pc[c] = "idle"
  /\ \E r \in Request : ask' = [ask EXCEPT ![c] = r]
  /\ Goto(c, "check")
  /\ UNCHANGED <<cache, locks, phase, hit, faults, raced>>

\* generate_response returns, or its exception reaches the caller.
Return(c) ==
  /\ pc[c] = "return"
  /\ Goto(c, "idle")
  /\ phase' = [phase EXCEPT ![c] = "search"]
  /\ ask' = [ask EXCEPT ![c] = NULL]
  /\ hit' = [hit EXCEPT ![c] = NULL]
  /\ UNCHANGED <<cache, locks, faults, raced>>

\* The orchestrator answers: the answer is returned, and added to the cache.
Generate(c) ==
  /\ pc[c] = "generate"
  /\ phase' = [phase EXCEPT ![c] = "add"]
  /\ Goto(c, "check")
  /\ UNCHANGED <<cache, locks, ask, hit, faults, raced>>

\* No provider answers: the exception leaves generate_response.
GenerateFails(c) ==
  /\ pc[c] = "generate"
  /\ Goto(c, "return")
  /\ UNCHANGED <<cache, locks, phase, ask, hit, faults, raced>>

\* Mutant of Scope: an answer of no particular session is every session's.
ScopeIgnored(intent, session) == NULL

\* _get_cache_scope: FAQ answers are shared, the others are the session's own.
Scope(intent, session) == IF intent = "general_faq" THEN NULL ELSE session
-----------------------------------------------------------------------------
(***************************************************************************)
(* _initialize_if_needed                                                   *)
(***************************************************************************)
CheckModel(c) ==
  /\ pc[c] = "check"
  /\ Goto(c, IF model THEN "encode" ELSE "wait_init")
  /\ raced' = (raced \/ (model /\ index = NULL))
  /\ UNCHANGED <<cache, locks, phase, ask, hit, faults>>

\* Mutant of LockInit: the check under the lock is missing.
LockInitUnchecked(c) ==
  /\ pc[c] = "wait_init" /\ initLock = NULL
  /\ Goto(c, "loading") /\ initLock' = c
  /\ UNCHANGED <<cache, cacheLock, phase, ask, hit, faults, raced>>

LockInit(c) ==
  /\ pc[c] = "wait_init" /\ initLock = NULL
  /\ IF model
     THEN Goto(c, "encode") /\ UNCHANGED initLock
     ELSE Goto(c, "loading") /\ initLock' = c
  /\ UNCHANGED <<cache, cacheLock, phase, ask, hit, faults, raced>>

LoadModel(c) ==
  /\ pc[c] = "loading"
  /\ model' = TRUE
  /\ Goto(c, "indexing")
  /\ UNCHANGED <<index, data, encoded, locks, phase, ask, hit, faults, raced>>

LoadFails(c) ==
  /\ pc[c] = "loading" /\ Fault
  /\ initLock' = NULL
  /\ Swallow(c)
  /\ UNCHANGED <<cache, cacheLock, phase, ask, hit, raced>>

CreateIndex(c) ==
  /\ pc[c] = "indexing"
  /\ index' = <<>>
  /\ initLock' = NULL
  /\ Goto(c, "encode")
  /\ UNCHANGED <<model, data, encoded, cacheLock, phase, ask, hit, faults, raced>>

\* The model stays, and with it the end of all attempts to create an index.
CreateIndexFails(c) ==
  /\ pc[c] = "indexing" /\ Fault
  /\ initLock' = NULL
  /\ raced' = TRUE
  /\ Swallow(c)
  /\ UNCHANGED <<cache, cacheLock, phase, ask, hit>>
-----------------------------------------------------------------------------
(***************************************************************************)
(* _encode_query                                                           *)
(***************************************************************************)
Known(q) == \E i \in DOMAIN encoded : encoded[i] = q

Encode(c) ==
  /\ pc[c] = "encode"
  /\ Goto(c, IF Known(ask[c].query) THEN "enter" ELSE "encoding")
  /\ UNCHANGED <<cache, locks, phase, ask, hit, faults, raced>>

Pruned == IF Len(encoded) > EncodeLimit
          THEN SubSeq(encoded, EncodeDrop + 1, Len(encoded)) ELSE encoded

\* Mutant of Remember: the new encoding is stored before there is room for it.
RememberFirst(c) ==
  /\ pc[c] = "encoding"
  /\ encoded' = IF Known(ask[c].query) THEN encoded ELSE Append(encoded, ask[c].query)
  /\ Goto(c, "enter")
  /\ UNCHANGED <<model, index, data, locks, phase, ask, hit, faults, raced>>

\* A second lock block: another call may have stored the query meanwhile.
Remember(c) ==
  LET q == ask[c].query IN
  /\ pc[c] = "encoding"
  /\ encoded' = IF \E i \in DOMAIN Pruned : Pruned[i] = q THEN Pruned ELSE Append(Pruned, q)
  /\ Goto(c, "enter")
  /\ UNCHANGED <<model, index, data, locks, phase, ask, hit, faults, raced>>

EncodeFails(c) ==
  /\ pc[c] = "encoding" /\ Fault
  /\ Swallow(c)
  /\ UNCHANGED <<cache, locks, phase, ask, hit, raced>>
-----------------------------------------------------------------------------
(***************************************************************************)
(* The rest of search and add, under _cache_lock                           *)
(***************************************************************************)
Enter(c) ==
  /\ pc[c] = "enter" /\ cacheLock = NULL
  /\ cacheLock' = c
  /\ Goto(c, phase[c])
  /\ UNCHANGED <<cache, initLock, phase, ask, hit, faults, raced>>

Leave(c, step) == cacheLock' = NULL /\ Goto(c, step)

\* The positions the index finds similar to the query, and those of them whose
\* metadata fit the call.
Similar(c) == IF index = NULL THEN {} ELSE {i \in DOMAIN index : index[i] = ask[c].query}

Fits(c, entry) ==
  LET scope == Scope(ask[c].intent, ask[c].session) IN
  /\ scope # NULL => Scope(entry.intent, entry.session) = scope
  /\ entry.intent = ask[c].intent

SearchHits(c) ==
  /\ pc[c] = "search"
  /\ \E i \in Similar(c) : Fits(c, data[i]) /\ hit' = [hit EXCEPT ![c] = data[i]]
  /\ Leave(c, "return")
  /\ UNCHANGED <<cache, initLock, phase, ask, faults, raced>>

\* No entry fits; or those that do are older than ttl_seconds, or as near as 20
\* others, which is all a search asks the index for.
SearchMisses(c) ==
  /\ pc[c] = "search"
  /\ Leave(c, "generate")
  /\ UNCHANGED <<cache, initLock, phase, ask, hit, faults, raced>>

AppendData(c) == data' = Append(data, ask[c])

Add(c) ==
  /\ pc[c] = "add" /\ index # NULL
  /\ AppendData(c)
  /\ index' = Append(index, ask[c].query)
  /\ Goto(c, "trim")
  /\ UNCHANGED <<model, encoded, locks, phase, ask, hit, faults, raced>>

\* The entry is in the list, and adding its vector to the index raises: FAISS
\* does, or there is no index.  If there never will be one, entries pile up, and those
\* over the bound are not counted.
AddFails(c) ==
  /\ pc[c] = "add"
  /\ \/ index = NULL /\ Len(data) < MaxOrphans /\ AppendData(c) /\ UNCHANGED faults
     \/ index = NULL /\ initLock = NULL /\ Len(data) >= MaxOrphans /\ UNCHANGED <<data, faults>>
     \/ index # NULL /\ Fault /\ AppendData(c)
  /\ Goto(c, "undo")
  /\ UNCHANGED <<model, index, encoded, locks, phase, ask, hit, raced>>

\* The handler compares the lengths and takes the entry back; without an index
\* the comparison itself raises.
Undo(c) ==
  /\ pc[c] = "undo"
  /\ data' = IF index # NULL /\ Len(data) > Len(index)
             THEN SubSeq(data, 1, Len(data) - 1) ELSE data
  /\ Leave(c, "return")
  /\ UNCHANGED <<model, index, encoded, initLock, phase, ask, hit, faults, raced>>

\* The newest MaxSize - EvictionCount entries.
Newest == SubSeq(data, Len(data) - (MaxSize - EvictionCount) + 1, Len(data))

\* Mutant of Trim: eviction starts one entry late.
TrimLate(c) ==
  /\ pc[c] = "trim"
  /\ IF Len(data) > MaxSize + 1
     THEN /\ data' = Newest
          /\ index' = [i \in DOMAIN Newest |-> Newest[i].query]
     ELSE UNCHANGED <<data, index>>
  /\ Leave(c, "return")
  /\ UNCHANGED <<model, encoded, initLock, phase, ask, hit, faults, raced>>

\* Mutant of Trim: the index is rebuilt from the items, not their vectors.
TrimToItems(c) ==
  /\ pc[c] = "trim"
  /\ IF Len(data) > MaxSize
     THEN data' = Newest /\ index' = Newest
     ELSE UNCHANGED <<data, index>>
  /\ Leave(c, "return")
  /\ UNCHANGED <<model, encoded, initLock, phase, ask, hit, faults, raced>>

\* _evict_oldest: the oldest entries go, and the index is rebuilt from the rest.
Trim(c) ==
  /\ pc[c] = "trim"
  /\ IF Len(data) > MaxSize
     THEN /\ data' = Newest
          /\ index' = [i \in DOMAIN Newest |-> Newest[i].query]
     ELSE UNCHANGED <<data, index>>
  /\ Leave(c, "return")
  /\ UNCHANGED <<model, encoded, initLock, phase, ask, hit, faults, raced>>

TrimFails(c) ==
  /\ pc[c] = "trim" /\ Len(data) > MaxSize /\ Fault
  /\ Leave(c, "return")
  /\ UNCHANGED <<cache, initLock, phase, ask, hit, raced>>

Step(c) ==
  \/ Ask(c) \/ Generate(c) \/ GenerateFails(c) \/ Return(c)
  \/ CheckModel(c) \/ LockInit(c) \/ LoadModel(c) \/ LoadFails(c)
  \/ CreateIndex(c) \/ CreateIndexFails(c)
  \/ Encode(c) \/ Remember(c) \/ EncodeFails(c)
  \/ Enter(c) \/ SearchHits(c) \/ SearchMisses(c)
  \/ Add(c) \/ AddFails(c) \/ Undo(c) \/ Trim(c) \/ TrimFails(c)

Next == \E c \in Call : Step(c)

Spec == Init /\ [][Next]_vars
-----------------------------------------------------------------------------
\* Position i of the index is the vector of entry i of the list.
Aligned ==
  /\ Len(index) = Len(data)
  /\ \A i \in DOMAIN data : index[i] = data[i].query

\* Whatever fails in add or in eviction, the list and the index stay in step for
\* whoever enters the lock next, unless the initialisation was raced or broken off.
AlignedUnlessRaced ==
  ~raced /\ index # NULL /\ cacheLock = NULL => Aligned

\* A call is answered from the cache with an answer to its own question.
AnswersTheQuestion == \A c \in Call : hit[c] # NULL => hit[c].query = ask[c].query

\* An answer written for another session is served only if it is an FAQ answer,
\* even when the index points at the wrong entries.
Isolated ==
  \A c \in Call : hit[c] # NULL =>
    hit[c].session = ask[c].session \/ hit[c].intent = "general_faq"

\* Between two calls the list is over its cap by no more than the calls of FAISS
\* that failed, unless the initialisation was raced or broken off.
Bounded == ~raced /\ cacheLock = NULL => Len(data) <= MaxSize + faults

\* The encodings are over their cap by at most the one just stored.
EncodingsBounded == Len(encoded) <= EncodeLimit + 1
=============================================================================
