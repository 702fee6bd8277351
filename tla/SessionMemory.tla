---------------------------- MODULE SessionMemory ----------------------------
(***************************************************************************)
(* One session and what the backend keeps of it: its row and its messages  *)
(* in PostgreSQL, and in Redis the session context (who owns it) and the   *)
(* recent history.  SessionService.get_or_create_session resolves the      *)
(* session of a turn, ChatMemoryService loads and updates its history, and *)
(* delete_user_session deletes it.                                         *)
(*                                                                         *)
(* The turns of a session exclude one another: ChatPipeline shows that for *)
(* requests that name the session, while no lock expires under its holder. *)
(* Deletion takes no lock, keys expire, and the write that warms the       *)
(* history (fire_and_forget) lands whenever it lands, so these interleave  *)
(* with the steps of a turn.                                               *)
(***************************************************************************)
EXTENDS Naturals, Sequences, SequencesExt

CONSTANTS
  User,
  NULL,
  Window,     \* CHAT_MAX_HISTORY, in pairs of messages
  MaxTurn,    \* turns that may begin
  MaxDelete,  \* deletions
  MaxFault    \* calls to Redis or PostgreSQL that may raise, workers that may die

ASSUME ConstantsAssumption ==
  /\ Window \in Nat \ {0}
  /\ MaxTurn \in Nat /\ MaxDelete \in Nat /\ MaxFault \in Nat

\* A user message and its assistant message: the nr-th turn, sent by a user, and
\* whether it was answered or got the fallback text.
Turn == [nr : Nat, by : User, answered : BOOLEAN]

ASSUME NullAssumption == NULL \notin User \cup Seq(Turn)

VARIABLES
  row,        \* the owner in the sessions table, NULL: no row
  log,        \* its messages table, in order of sending_time
  context,    \* the user_id of v1:session:{id}:context, NULL: no key
  cached,     \* chat:session:{id}:history, NULL: no key
  warming,    \* the set_state calls of _get_reliable_history under way
  pc,         \* the next step of the turn under way
  by,         \* who sent it
  fast,       \* did FastPathRouter answer it?
  seen,       \* the history it was generated from
  draft,      \* the history persist_interaction has read
  nr,         \* how many turns have begun
  clearing,   \* has a deletion yet to clear Redis?
  deletes, faults,
  committed,  \* history: every turn ever committed
  deleted,    \* history: the turns that were deleted when this turn began
  late        \* history: has a warming write landed too late for its turn?

db == <<row, log>>
redis == <<context, cached, warming>>
turn == <<pc, by, fast, seen, draft>>
history == <<committed, deleted, late>>
env == <<nr, clearing, deletes, faults>>
vars == <<db, redis, turn, history, env>>

Steps == {"idle", "context", "lookup", "sync", "create", "save_context", "history", "read_log",
          "generate", "fallback", "persist", "remember", "write_back"}
History == Seq(Turn)
Warming == [nr : Nat, turns : History]

TypeOK ==
  /\ row \in User \cup {NULL} /\ log \in History
  /\ context \in User \cup {NULL}
  /\ cached \in History \cup {NULL} /\ (cached # NULL => Len(cached) <= Window)
  /\ warming \in SUBSET Warming
  /\ pc \in Steps
  /\ by \in User \cup {NULL} /\ fast \in BOOLEAN
  /\ seen \in History \cup {NULL} /\ draft \in History \cup {NULL}
  /\ nr \in 0..MaxTurn /\ clearing \in BOOLEAN
  /\ deletes \in 0..MaxDelete /\ faults \in 0..MaxFault
  /\ committed \in SUBSET Turn /\ deleted \in SUBSET Turn /\ late \in BOOLEAN

\* Nothing is known of the id, or POST /chat/session has created the session.
Init ==
  /\ row \in User \cup {NULL} /\ context \in {row, NULL}
  /\ log = <<>> /\ cached = NULL /\ warming = {}
  /\ pc = "idle" /\ by = NULL /\ fast = FALSE /\ seen = NULL /\ draft = NULL
  /\ nr = 0 /\ clearing = FALSE /\ deletes = 0 /\ faults = 0
  /\ committed = {} /\ deleted = {} /\ late = FALSE

Goto(step) == pc' = step /\ UNCHANGED <<by, fast, seen, draft>>
EndTurn == pc' = "idle" /\ by' = NULL /\ fast' = FALSE /\ seen' = NULL /\ draft' = NULL
Fault == faults < MaxFault /\ faults' = faults + 1 /\ UNCHANGED <<nr, clearing, deletes>>

Oldest(s, k) == SubSeq(s, 1, IF Len(s) < k THEN Len(s) ELSE k)
Newest(s, k) == SubSeq(s, IF Len(s) < k THEN 1 ELSE Len(s) - k + 1, Len(s))
-----------------------------------------------------------------------------
(***************************************************************************)
(* get_or_create_session                                                   *)
(***************************************************************************)
Begin(u) ==
  /\ pc = "idle" /\ nr < MaxTurn
  /\ nr' = nr + 1
  /\ pc' = "context" /\ by' = u /\ fast' \in BOOLEAN /\ UNCHANGED <<seen, draft>>
  /\ deleted' = IF clearing THEN deleted ELSE committed \ ToSet(log)
  /\ UNCHANGED <<db, redis, clearing, deletes, faults, committed, late>>

\* The fast path goes on to persist, without a history.
Resolved == Goto(IF fast THEN "persist" ELSE "history")

\* Mutant of ReadContext: a cached session is anybody's.
ReadContextOfAnybody ==
  /\ pc = "context"
  /\ IF context = NULL THEN Goto("lookup") ELSE Resolved
  /\ UNCHANGED <<db, redis, history, env>>

\* The cached context decides alone: its owner gets the session, anybody else 404.
ReadContext ==
  /\ pc = "context"
  /\ IF context = NULL THEN Goto("lookup")
     ELSE IF context = by THEN Resolved
     ELSE EndTurn
  /\ UNCHANGED <<db, redis, history, env>>

\* A read that raises counts as a miss.
ReadContextFails ==
  /\ pc = "context" /\ Fault
  /\ Goto("lookup")
  /\ UNCHANGED <<db, redis, history>>

\* get_owned_session.
Lookup ==
  /\ pc = "lookup"
  /\ Goto(IF row = by THEN "sync" ELSE "create")
  /\ UNCHANGED <<db, redis, history, env>>

\* The row was found: is its context still not there?
Sync ==
  /\ pc = "sync"
  /\ IF context = NULL THEN Goto("save_context") ELSE Resolved
  /\ UNCHANGED <<db, redis, history, env>>

\* Mutant of Create: Redis first.
CreateContextFirst ==
  /\ pc = "create"
  /\ context' = by
  /\ IF row = NULL THEN row' = by /\ Goto("save_context") ELSE EndTurn /\ UNCHANGED row
  /\ UNCHANGED <<log, cached, warming, history, env>>

\* The insert commits, or the primary key rejects it.
Create ==
  /\ pc = "create"
  /\ IF row = NULL THEN row' = by /\ Goto("save_context") ELSE EndTurn /\ UNCHANGED row
  /\ UNCHANGED <<log, redis, history, env>>

CreateFails ==
  /\ pc = "create" /\ Fault
  /\ row' \in {row, IF row = NULL THEN by ELSE row}
  /\ EndTurn
  /\ UNCHANGED <<log, redis, history>>

SaveContext ==
  /\ pc = "save_context"
  /\ context' = by
  /\ Resolved
  /\ UNCHANGED <<db, cached, warming, history, env>>

\* Best effort.
SaveContextFails ==
  /\ pc = "save_context" /\ Fault
  /\ context' \in {context, by}
  /\ Resolved
  /\ UNCHANGED <<db, cached, warming, history>>
-----------------------------------------------------------------------------
(***************************************************************************)
(* _get_reliable_history and generation                                    *)
(***************************************************************************)
LoadHistory ==
  /\ pc = "history"
  /\ IF cached = NULL THEN Goto("read_log")
     ELSE /\ seen' = Newest(cached, Window)
          /\ pc' = "generate" /\ UNCHANGED <<by, fast, draft>>
  /\ UNCHANGED <<db, redis, history, env>>

LoadHistoryFails ==
  /\ pc = "history" /\ Fault
  /\ Goto("read_log")
  /\ UNCHANGED <<db, redis, history>>

\* Mutant of ReadLog: newest first.
ReadLogDescending ==
  /\ pc = "read_log"
  /\ LET turns == Oldest(Reverse(log), Window) IN
       seen' = turns /\ warming' = warming \cup {[nr |-> nr, turns |-> turns]}
  /\ pc' = "generate" /\ UNCHANGED <<by, fast, draft>>
  /\ UNCHANGED <<db, context, cached, history, env>>

\* ORDER BY sending_time ASC LIMIT: the oldest turns.  They warm the cache, too.
ReadLog ==
  /\ pc = "read_log"
  /\ LET turns == Oldest(log, Window) IN
       seen' = turns /\ warming' = warming \cup {[nr |-> nr, turns |-> turns]}
  /\ pc' = "generate" /\ UNCHANGED <<by, fast, draft>>
  /\ UNCHANGED <<db, context, cached, history, env>>

\* The warming write lands: in time if its turn has yet to read the history again.
Warm(w) ==
  /\ w \in warming
  /\ cached' = w.turns
  /\ warming' = warming \ {w}
  /\ late' = (late \/ ~(w.nr = nr /\ pc \in {"generate", "fallback", "persist", "remember"}))
  /\ UNCHANGED <<db, context, turn, committed, deleted, env>>

WarmFails(w) ==
  /\ w \in warming /\ Fault
  /\ warming' = warming \ {w}
  /\ UNCHANGED <<db, context, cached, turn, history>>

Generate ==
  /\ pc = "generate"
  /\ Goto("persist") \/ Goto("fallback")
  /\ UNCHANGED <<db, redis, history, env>>
-----------------------------------------------------------------------------
(***************************************************************************)
(* _persist and persist_interaction                                        *)
(***************************************************************************)
This(answered) == [nr |-> nr, by |-> by, answered |-> answered]

Commit ==
  /\ log' = Append(log, This(pc = "persist"))
  /\ committed' = committed \cup {This(pc = "persist")}

\* The foreign key rejects messages of a session without a row.  A fallback ends
\* its turn here; so does an insert that was rejected.
Persist ==
  /\ pc \in {"persist", "fallback"}
  /\ IF row = NULL THEN UNCHANGED <<log, committed>> ELSE Commit
  /\ IF row # NULL /\ pc = "persist" THEN Goto("remember") ELSE EndTurn
  /\ UNCHANGED <<row, redis, deleted, late, env>>

\* Mutant of PersistFails: the failure is logged, not raised.
PersistFailsQuietly ==
  /\ pc = "persist" /\ Fault
  /\ \/ UNCHANGED <<log, committed>>
     \/ row # NULL /\ Commit
  /\ Goto("remember")
  /\ UNCHANGED <<row, redis, deleted, late>>

PersistFails ==
  /\ pc \in {"persist", "fallback"} /\ Fault
  /\ \/ UNCHANGED <<log, committed>>
     \/ row # NULL /\ Commit
  /\ EndTurn
  /\ UNCHANGED <<row, redis, deleted, late>>

\* Mutant of Remember: an empty history counts as none.
RememberNonEmpty ==
  /\ pc = "remember"
  /\ IF cached \in {NULL, <<>>} THEN EndTurn
     ELSE draft' = cached /\ pc' = "write_back" /\ UNCHANGED <<by, fast, seen>>
  /\ UNCHANGED <<db, redis, history, env>>

Remember ==
  /\ pc = "remember"
  /\ IF cached = NULL THEN EndTurn
     ELSE draft' = cached /\ pc' = "write_back" /\ UNCHANGED <<by, fast, seen>>
  /\ UNCHANGED <<db, redis, history, env>>

\* Mutant of Written: the history grows.
WrittenWhole == Append(draft, This(TRUE))

\* The history it has read, this turn appended.
Written == Newest(Append(draft, This(TRUE)), Window)

WriteBack ==
  /\ pc = "write_back"
  /\ cached' = Written
  /\ EndTurn
  /\ UNCHANGED <<db, context, warming, history, env>>

WriteBackFails ==
  /\ pc = "write_back" /\ Fault
  /\ cached' \in {cached, Written}
  /\ EndTurn
  /\ UNCHANGED <<db, context, warming, history>>
-----------------------------------------------------------------------------
(***************************************************************************)
(* Deletion, expiry and failures                                           *)
(***************************************************************************)

\* delete_user_session, by the owner: the row goes, and its messages with it.
DeleteRow ==
  /\ row # NULL /\ ~clearing /\ deletes < MaxDelete
  /\ row' = NULL /\ log' = <<>>
  /\ clearing' = TRUE /\ deletes' = deletes + 1
  /\ UNCHANGED <<redis, turn, history, nr, faults>>

\* Then clear_session: the context, not the history.
Clear ==
  /\ clearing
  /\ context' = NULL /\ clearing' = FALSE
  /\ UNCHANGED <<db, cached, warming, turn, history, nr, deletes, faults>>

ClearFails ==
  /\ clearing /\ faults < MaxFault
  /\ clearing' = FALSE /\ faults' = faults + 1
  /\ UNCHANGED <<db, redis, turn, history, nr, deletes>>

\* The seven days of the context are over, or the day of the history.
ExpireContext ==
  /\ context # NULL /\ context' = NULL
  /\ UNCHANGED <<db, cached, warming, turn, history, env>>

ExpireHistory ==
  /\ cached # NULL /\ cached' = NULL
  /\ UNCHANGED <<db, context, warming, turn, history, env>>

\* An exception ends the turn where it is, or its worker dies.
Stop ==
  /\ pc # "idle" /\ Fault
  /\ EndTurn
  /\ UNCHANGED <<db, redis, history>>

Next ==
  \/ \E u \in User : Begin(u)
  \/ ReadContext \/ ReadContextFails \/ Lookup \/ Sync
  \/ Create \/ CreateFails \/ SaveContext \/ SaveContextFails
  \/ LoadHistory \/ LoadHistoryFails \/ ReadLog \/ Generate
  \/ \E w \in warming : Warm(w) \/ WarmFails(w)
  \/ Persist \/ PersistFails \/ Remember \/ WriteBack \/ WriteBackFails
  \/ DeleteRow \/ Clear \/ ClearFails \/ ExpireContext \/ ExpireHistory \/ Stop

Spec == Init /\ [][Next]_vars
-----------------------------------------------------------------------------
Ordered(s) == \A i, j \in DOMAIN s : i < j => s[i].nr < s[j].nr

\* Whichever store the history comes from, and whatever overwrote it late, the
\* model is shown the turns in the order they were sent, none of them twice.
HistoryInOrder == seen # NULL => Ordered(seen)

\* A turn that was not committed is never part of the history.
NoPhantomTurns == seen # NULL => ToSet(seen) \subseteq committed

\* While nothing fails, is deleted or lands late, a turn is generated from all
\* turns of the session answered before it, unless they are more than Window.
NothingForgotten ==
  /\ pc = "generate" /\ Len(log) <= Window
  /\ faults = 0 /\ deletes = 0 /\ ~late
  => {t \in ToSet(log) : t.answered} \subseteq ToSet(seen)

\* Cache and table agree on the owner while no call fails, so the owner of a
\* session is never told it does not exist.
OwnerNeverRefused == faults = 0 /\ context # NULL /\ row # NULL => context = row

\* While no call fails, a session holds only turns of its owner, although the
\* cached context alone lets a turn in and the row may have gone meanwhile.
TurnsOfOwner == faults = 0 => \A t \in ToSet(log) : t.by = row

\* A turn that begins after a deletion was completed sees no turn it deleted.
DeletedSessionIsForgotten == pc = "generate" => ToSet(seen) \cap deleted = {}
=============================================================================
