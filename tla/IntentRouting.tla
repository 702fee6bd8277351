---------------------------- MODULE IntentRouting ----------------------------
(***************************************************************************)
(* What the chat domain decides of a message before it calls a model:      *)
(* IntentDetector, IntentRouter, FastPathRouter, and the orchestrator's    *)
(* tables from an intent to the tool it requires and the tools it offers.  *)
(* Confidences are percentages.                                            *)
(***************************************************************************)
EXTENDS Naturals, Sequences, FiniteSets, SequencesExt

\* The keyword sets of the detector, in the order it tries them.
Rules == <<"billing", "technical", "event", "support", "booking", "discover", "manage", "greeting">>
SupportMap == {"billing", "technical", "event"}
Social == {"greeting", "identity", "thanks", "goodbye"}

\* A message, as far as detection and routing tell messages apart: the sets its
\* words hit, whether it has words at all, whether it hits its first set twice and
\* holds a support phrase, and the fast-path patterns it matches.
Messages(maxHints) ==
  {m \in [hints : {H \in SUBSET ToSet(Rules) : Cardinality(H) <= maxHints},
          words : BOOLEAN, twice : BOOLEAN, phrase : BOOLEAN,
          social : SUBSET Social] : m.hints # {} => m.words}

ValidIntents == {"discover", "booking", "manage_booking", "support_billing",
                 "support_technical", "support_event", "greeting", "general"}
Intents == ValidIntents \cup {"support_general"}

\* Intents whose answers the semantic cache may hold.
STATIC_INTENTS == {"greeting", "general_faq", "chit_chat", "fallback"}

-----------------------------------------------------------------------------
IntentOf(rule) ==
  CASE rule = "billing"   -> "support_billing"
    [] rule = "technical" -> "support_technical"
    [] rule = "event"     -> "support_event"
    [] rule = "support"   -> "support_general"
    [] rule = "manage"    -> "manage_booking"
    [] OTHER              -> rule

AtMost100(n) == IF n > 100 THEN 100 ELSE n

ConfidenceOf(rule, m) ==
  CASE rule \in SupportMap -> AtMost100((IF m.twice THEN 90 ELSE 75) + (IF m.phrase THEN 15 ELSE 0))
    [] rule = "support"    -> 80
    [] rule = "booking"    -> IF m.phrase THEN 90 ELSE 85
    [] rule = "greeting"   -> 98
    [] OTHER               -> 85

\* The first keyword set with a word of the message decides.
RuleBasedDetect(m) ==
  IF m.hints = {} THEN [intent |-> "general", confidence |-> IF m.words THEN 20 ELSE 0]
  ELSE LET rule == Rules[SelectInSeq(Rules, LAMBDA r : r \in m.hints)]
       IN [intent |-> IntentOf(rule), confidence |-> ConfidenceOf(rule, m)]

\* A rule that is sure is trusted; a weak or missing one asks the model.
NeedsModel(d) == d.confidence < 85 /\ (d.confidence < 60 \/ d.intent = "general")

\* What the model may say: a label, a text with a known word in it, anything.
Labels == ValidIntents \cup {"ticket?", "bill?", "find?", "?"}
Normalise(label) ==
  CASE label \in ValidIntents -> label
    [] label = "ticket?"      -> "booking"
    [] label = "bill?"        -> "support_billing"
    [] label = "find?"        -> "discover"
    [] OTHER                  -> "general"

Route(d) ==
  IF d.intent = "greeting" THEN "fast_path"
  ELSE IF d.intent = "general" THEN "llm_path"
  ELSE IF d.confidence < 50 THEN "fallback_path"
  ELSE IF d.confidence >= 80 /\ d.intent = "booking" THEN "fast_path"
  ELSE "llm_path"

\* The fast path answers a message that matches one of the social patterns.
FastPathMatch(m) == m.social # {}

-----------------------------------------------------------------------------
\* The tools app/ai/tools registers, and the ones the planner is told of.
ShippedTools == {"search_events", "search_orders", "report_support_issue", "create_ticket",
                 "get_user_profile", "get_conversation_history"}
Enabled(tools) == tools \ {"get_conversation_history"}

\* INTENT_TOOL_MAP, over the intents detection yields.
ToolHint(intent, none) ==
  CASE intent = "support_event"  -> "search_events"
    [] intent = "manage_booking" -> "search_orders"
    [] OTHER                     -> none

\* Dynamic tool injection: the tools of an intent; all of them for an unknown one.
Allowed(intent, tools) ==
  CASE intent = "booking" ->
         tools \cap {"search_events", "get_event_details", "check_availability", "get_user_profile"}
    [] intent \in {"discover", "support_event"} ->
         tools \cap {"search_events", "get_event_details", "get_user_profile", "report_support_issue"}
    [] intent = "manage_booking" ->
         tools \cap {"get_booking", "cancel_booking", "search_orders", "get_user_profile",
                     "report_support_issue"}
    [] intent \in {"support_technical", "support_billing", "support_general"} ->
         tools \cap {"report_support_issue", "get_user_profile"}
    [] intent = "greeting" -> tools \cap {"get_user_profile"}
    [] OTHER -> tools
=============================================================================
