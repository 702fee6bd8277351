--------------------------- MODULE ConversationLog --------------------------
(***************************************************************************)
(* What the chat pipeline promises of a conversation, without its steps:   *)
(* one request at a time is admitted to a conversation, only that request  *)
(* writes to it, and it writes one turn at most.                           *)
(***************************************************************************)
EXTENDS Sequences, Naturals

CONSTANTS Req, Session, NULL

VARIABLES
  holder,  \* holder[s]: the request admitted to conversation s, or NULL
  turns    \* turns[s]: the turns of conversation s, in order

vars == <<holder, turns>>

Written == UNION {{turns[s][i].req : i \in DOMAIN turns[s]} : s \in Session}

Init ==
  /\ holder = [s \in Session |-> NULL]
  /\ turns = [s \in Session |-> <<>>]

Admit(r, s) ==
  /\ holder[s] = NULL /\ r \notin Written
  /\ holder' = [holder EXCEPT ![s] = r]
  /\ UNCHANGED turns

Write(r, s) ==
  /\ holder[s] = r /\ r \notin Written
  /\ \E status \in {"answered", "failed"} :
       turns' = [turns EXCEPT ![s] = Append(@, [req |-> r, status |-> status])]
  /\ UNCHANGED holder

Leave(s) ==
  /\ holder[s] # NULL
  /\ holder' = [holder EXCEPT ![s] = NULL]
  /\ UNCHANGED turns

Next == \E s \in Session : Leave(s) \/ \E r \in Req : Admit(r, s) \/ Write(r, s)

Spec == Init /\ [][Next]_vars
=============================================================================
