---------------------------- MODULE Orchestrator ----------------------------
(***************************************************************************)
(* ChatService.generate_response and the AIOrchestrator under it: one      *)
(* message from intent detection over planner, tools and renderer to the   *)
(* answer.  A step is the code up to the next await on a model, a tool or  *)
(* the semantic cache.  The model may answer anything: it may ignore the   *)
(* tool it is told to call, call tools it was not offered, and call tools  *)
(* that do not exist.                                                      *)
(***************************************************************************)
EXTENDS IntentRouting

CONSTANTS
  NULL,
  ExtraTools,       \* tools registered beside the shipped ones; {} is the code as
                    \* it stands, its tables and templates name five more
  UnknownTool,      \* a name that is not registered
  MaxHints,         \* keyword sets a message hits
  MaxCalls          \* tool calls of a plan

ASSUME ToolsAssumption ==
  /\ ExtraTools \subseteq {"create_booking", "get_booking", "cancel_booking",
                           "check_availability", "get_event_details"}
  /\ UnknownTool \notin ShippedTools \cup ExtraTools
  /\ NULL \notin ShippedTools \cup ExtraTools \cup {UnknownTool}
ASSUME BoundsAssumption == MaxHints \in Nat /\ MaxCalls \in Nat

VARIABLES
  stage,    \* the next step of the request
  intent,   \* routing["intent"]
  social,   \* does the message match the fast path, and is it routed there?
  attempts, \* planner calls made so far
  offered,  \* the tools attached to the last orchestrator call of the model
  plan,     \* the tool calls of the planner's last response
  results,  \* what handle_tool_calls and the firewall have made of them
  links,    \* what the answer links to
  answer    \* how the request was answered

vars == <<stage, intent, social, attempts, offered, plan, results, links, answer>>

Registered == ShippedTools \cup ExtraTools
Names == Registered \cup {UnknownTool}

\* A planner's response: the names of the tools it calls; none is an answer in text.
Plans == UNION {[1..n -> Names] : n \in 0..MaxCalls}

\* What a tool returns, as far as templates and sanitisation tell outputs apart.
Outputs == {"plain",    \* a dict without any of the below
            "pattern",  \* an INJECTION_PATTERN that matches, at any depth
            "key",      \* a forbidden key at its top level
            "prefix",   \* a top-level value that starts with SYSTEM: or USER:
            "template"} \* the field and the value a template asks for

\* Tools whose output a template is written for.
TemplateTools == {"create_booking", "check_availability", "cancel_booking"}
OutputsOf(tool) == IF tool \in TemplateTools THEN Outputs ELSE Outputs \ {"template"}

\* A tool result: its call by position, the tool, its payload.
Payloads == Outputs \cup {"redacted", "error"}
Result == [call : Nat \ {0}, tool : Names, payload : Payloads]

Stages == {"idle", "lookup", "dispatch", "plan", "execute", "results", "render", "store",
           "done", "failed"}
Answers == {"cached", "fast", "apology", "text", "template", "rendered"}
ASSUME NullAssumption == NULL \notin Answers \cup Intents
Links == SUBSET {"event", "foreign"}

Hint == ToolHint(intent, NULL)

TypeOK ==
  /\ stage \in Stages
  /\ intent \in Intents \cup {NULL}
  /\ social \in BOOLEAN
  /\ attempts \in 0..3
  /\ offered \subseteq Enabled(Registered)
  /\ plan \in Seq(Names) /\ Len(plan) <= MaxCalls
  /\ results \in Seq(Result) /\ Len(results) <= Len(plan)
  /\ links \in Links
  /\ answer \in Answers \cup {NULL}

Init ==
  /\ stage = "idle" /\ intent = NULL /\ social = FALSE
  /\ attempts = 0 /\ offered = {} /\ plan = <<>> /\ results = <<>>
  /\ links = {} /\ answer = NULL

-----------------------------------------------------------------------------
(***************************************************************************)
(* Intent, routing, semantic cache                                         *)
(***************************************************************************)

\* The static intents look into the semantic cache before anything else.
Routed(d, m) ==
  /\ intent' = d.intent
  /\ social' = (FastPathMatch(m) /\ Route(d) = "fast_path")
  /\ stage' = IF d.intent \in STATIC_INTENTS THEN "lookup" ELSE "dispatch"
  /\ UNCHANGED <<attempts, offered, plan, results, links, answer>>

\* detect_complex trusts the rule.
DetectByRule ==
  /\ stage = "idle"
  /\ \E m \in Messages(MaxHints) :
       /\ ~NeedsModel(RuleBasedDetect(m))
       /\ Routed(RuleBasedDetect(m), m)

\* It asks the model, and trusts what that says; or falls back on the rule when
\* the call raises.
DetectByModel ==
  /\ stage = "idle"
  /\ \E m \in Messages(MaxHints) :
       /\ NeedsModel(RuleBasedDetect(m))
       /\ \/ \E label \in Labels : Routed([intent |-> Normalise(label), confidence |-> 85], m)
          \/ Routed(RuleBasedDetect(m), m)

Respond(kind, target) ==
  /\ answer' = kind /\ links' = target
  /\ stage' = IF intent \in STATIC_INTENTS /\ kind # "cached" THEN "store" ELSE "done"

CacheHit ==
  /\ stage = "lookup"
  /\ Respond("cached", {})
  /\ UNCHANGED <<intent, social, attempts, offered, plan, results>>

CacheMiss ==
  /\ stage = "lookup"
  /\ stage' = "dispatch"
  /\ UNCHANGED <<intent, social, attempts, offered, plan, results, links, answer>>

\* generate_complex: the secondary fast-path check, or the model.
Dispatch ==
  /\ stage = "dispatch"
  /\ IF social THEN Respond("fast", {}) ELSE stage' = "plan" /\ UNCHANGED <<links, answer>>
  /\ UNCHANGED <<intent, social, attempts, offered, plan, results>>

Store ==
  /\ stage = "store"
  /\ stage' = "done"
  /\ UNCHANGED <<intent, social, attempts, offered, plan, results, links, answer>>

-----------------------------------------------------------------------------
(***************************************************************************)
(* Planner                                                                 *)
(***************************************************************************)

\* Tools are attached to every call of the model but the one that carries results.
Attach(res) == IF res = <<>> THEN Allowed(intent, Enabled(Registered)) ELSE {}

Required(p) == Hint = NULL \/ \E i \in DOMAIN p : p[i] = Hint

\* What the safety net of booking answers looks for: a foreign link, and no event's.
FakeBooking(target) == intent = "booking" /\ "foreign" \in target /\ "event" \notin target

\* The net is to replace what it finds.  The line that logs it hands a keyword to a
\* standard-library logger and raises before that, so the request fails instead.
Deliver(kind, target) ==
  IF FakeBooking(target) THEN stage' = "failed" /\ UNCHANGED <<links, answer>>
  ELSE Respond(kind, target)

\* One call of the planner; its response replaces the one before.
AskPlanner(p) ==
  /\ stage = "plan"
  /\ offered' = Attach(<<>>)
  /\ attempts' = attempts + 1
  /\ plan' = p
  /\ UNCHANGED <<intent, social, results>>

PlanTools ==
  \E p \in Plans :
    /\ AskPlanner(p) /\ Required(p) /\ p # <<>>
    /\ stage' = "execute" /\ UNCHANGED <<links, answer>>

\* Mutant of PlanText: the safety net is only on the renderer's path.
PlanTextUnchecked ==
  /\ AskPlanner(<<>>) /\ Required(<<>>)
  /\ \E target \in Links : Respond("text", target)

\* The planner answers by itself.
PlanText ==
  /\ AskPlanner(<<>>) /\ Required(<<>>)
  /\ \E target \in Links : Deliver("text", target)

\* Mutant of PlanRejected: the planner is asked until it obeys.
PlanRejectedRetrying ==
  \E p \in Plans :
    /\ stage = "plan" /\ ~Required(p)
    /\ offered' = Attach(<<>>) /\ plan' = p
    /\ UNCHANGED <<stage, intent, social, attempts, results, links, answer>>

\* Mutant of PlanRejected: after the last retry the planner's text is the answer.
PlanRejectedAccepting ==
  \E p \in Plans :
    /\ AskPlanner(p) /\ ~Required(p)
    /\ IF attempts < 2 THEN UNCHANGED <<stage, links, answer>> ELSE Respond("text", {})

\* Mutant of PlanRejected: one retry too many.
PlanRejectedOnceMore ==
  \E p \in Plans :
    /\ AskPlanner(p) /\ ~Required(p)
    /\ IF attempts < 3 THEN UNCHANGED <<stage, links, answer>> ELSE Respond("apology", {})

\* The required tool is not among the calls: two more attempts, then an apology.
PlanRejected ==
  \E p \in Plans :
    /\ AskPlanner(p) /\ ~Required(p)
    /\ IF attempts < 2 THEN UNCHANGED <<stage, links, answer>> ELSE Respond("apology", {})

-----------------------------------------------------------------------------
(***************************************************************************)
(* Tools, firewall, templates, renderer                                    *)
(***************************************************************************)

\* Mutant of Redact: only outputs that are strings are checked.
RedactNothing(payload) == payload

\* Layer 1: an output with an injection pattern is replaced as a whole.
Redact(payload) == IF payload = "pattern" THEN "redacted" ELSE payload

\* Layer 2 drops forbidden keys and redacts prefixed values at the top level.
Filtered(payload) == IF payload \in {"key", "prefix"} THEN "plain" ELSE payload

NextCall == plan[Len(results) + 1]

\* Mutant of CallTool: a tool that raises ends the loop.
CallToolAborting ==
  /\ stage = "execute" /\ Len(results) < Len(plan) /\ NextCall \in Registered
  /\ \E payload \in OutputsOf(NextCall) \cup {"error"} :
       /\ results' = Append(results, [call |-> Len(results) + 1, tool |-> NextCall,
                                      payload |-> Redact(payload)])
       /\ stage' = IF payload = "error" THEN "results" ELSE stage
  /\ UNCHANGED <<intent, social, attempts, offered, plan, links, answer>>

\* A registered tool runs, whether or not it was offered; what it raises becomes
\* its result.
CallTool ==
  /\ stage = "execute" /\ Len(results) < Len(plan) /\ NextCall \in Registered
  /\ \E payload \in OutputsOf(NextCall) \cup {"error"} :
       results' = Append(results, [call |-> Len(results) + 1, tool |-> NextCall,
                                   payload |-> Redact(payload)])
  /\ UNCHANGED <<stage, intent, social, attempts, offered, plan, links, answer>>

\* Mutant of CallUnknown: the call is dropped.
CallUnknownDropping ==
  /\ stage = "execute" /\ Len(results) < Len(plan) /\ NextCall \notin Registered
  /\ plan' = RemoveAt(plan, Len(results) + 1)
  /\ UNCHANGED <<stage, intent, social, attempts, offered, results, links, answer>>

\* A name nobody registered becomes an error result.
CallUnknown ==
  /\ stage = "execute" /\ Len(results) < Len(plan) /\ NextCall \notin Registered
  /\ results' = Append(results, [call |-> Len(results) + 1, tool |-> NextCall,
                                 payload |-> "error"])
  /\ UNCHANGED <<stage, intent, social, attempts, offered, plan, links, answer>>

Sanitize ==
  /\ stage = "execute" /\ Len(results) = Len(plan)
  /\ results' = [i \in DOMAIN results |-> [results[i] EXCEPT !.payload = Filtered(@)]]
  /\ stage' = "results"
  /\ UNCHANGED <<intent, social, attempts, offered, plan, links, answer>>

\* A single result with a template's field skips the renderer.
MatchTemplate ==
  /\ stage = "results"
  /\ IF Len(results) = 1 /\ results[1].payload = "template"
     THEN Respond("template", {})
     ELSE stage' = "render" /\ UNCHANGED <<links, answer>>
  /\ UNCHANGED <<intent, social, attempts, offered, plan, results>>

\* The blind renderer: what the model says of the results is the answer.
Render ==
  /\ stage = "render"
  /\ offered' = Attach(results)
  /\ \E target \in Links : Deliver("rendered", target)
  /\ UNCHANGED <<intent, social, attempts, plan, results>>

\* A call of the model raises, its answer is blank, or AI_REQUEST_TIMEOUT cancels
\* the request: the application answers for it.
Interrupt ==
  /\ stage \notin {"done", "failed"}
  /\ stage' = "failed"
  /\ UNCHANGED <<intent, social, attempts, offered, plan, results, links, answer>>
-----------------------------------------------------------------------------
Step ==
  \/ DetectByRule \/ DetectByModel \/ CacheHit \/ CacheMiss \/ Dispatch
  \/ PlanTools \/ PlanText \/ PlanRejected
  \/ CallTool \/ CallUnknown \/ Sanitize \/ MatchTemplate \/ Render \/ Store

Next == Step \/ Interrupt

Spec == Init /\ [][Next]_vars

\* Every call of a model, a tool or the cache returns or raises.  The timeout that
\* cancels the request is not needed for it to end.
FairSpec == Spec /\ WF_vars(Step)
-----------------------------------------------------------------------------
(***************************************************************************)
(* Safety                                                                  *)
(***************************************************************************)

\* Whatever a tool does, the renderer gets one result for each call of the plan,
\* in the plan's order and under the call's id.
OneResultPerCall ==
  stage \in {"results", "render"} =>
    /\ Len(results) = Len(plan)
    /\ \A i \in DOMAIN plan : results[i].call = i /\ results[i].tool = plan[i]

\* The call of the model that carries tool results carries no tools, also when
\* every tool of the plan failed: a result can never start another plan.
RendererIsBlind == answer = "rendered" => offered = {} /\ results # <<>>

\* An intent that requires a tool is answered from a run of that tool or with the
\* apology, never from what the model remembers; the planner was offered the tool,
\* and before an apology no tool has run.
RequiredToolRan ==
  /\ Hint # NULL /\ answer \notin {NULL, "apology"} =>
       \E i \in DOMAIN results : results[i].tool = Hint
  /\ Hint # NULL /\ stage = "plan" /\ attempts > 0 => Hint \in offered
  /\ answer = "apology" => results = <<>>

\* When the renderer is asked, no tool output holds an injection pattern that can match,
\* nor at its top level a forbidden key or a role prefix.
NothingSuspiciousRendered ==
  stage \in {"results", "render"} =>
    \A i \in DOMAIN results : results[i].payload \notin {"pattern", "key", "prefix"}

\* No booking answer sends its reader to foreign sites only, whether the planner or
\* the renderer wrote it: as the code stands the request is lost over it, which the
\* docstring of the safety net ("replaces any fake/hallucinated URLs") does not say.
NoFakeBookingAnswer ==
  intent = "booking" /\ answer # NULL /\ "foreign" \in links => "event" \in links
-----------------------------------------------------------------------------
(***************************************************************************)
(* Liveness                                                                *)
(***************************************************************************)

\* Every request is answered or fails: asking the planner again, and running its
\* calls, both end.
EveryRequestEnds == <>(stage \in {"done", "failed"})
=============================================================================
