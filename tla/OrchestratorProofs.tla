------------------------- MODULE OrchestratorProofs -------------------------
(***************************************************************************)
(* What holds of Orchestrator for any extra tools, any messages and plans  *)
(* of any length.                                                          *)
(***************************************************************************)
EXTENDS Orchestrator, TLAPS

\* Nothing has run and nothing is answered before the plan is accepted.
Fresh == stage \in {"idle", "lookup", "dispatch", "plan"} => results = <<>> /\ answer = NULL

\* An answered request only stores its answer.
Unanswered == answer # NULL => stage \in {"store", "done", "failed"}

\* The fast path is for intents that require no tool; so is the semantic cache.
Routing ==
  /\ social => intent \in {"greeting", "booking"}
  /\ stage = "lookup" => intent = "greeting"
  /\ stage = "idle" => intent = NULL

\* A planner that is asked again has been offered the tools of the intent.
Asking ==
  /\ stage \in {"idle", "lookup", "dispatch"} => attempts = 0
  /\ stage = "plan" => attempts <= 2 /\ (attempts > 0 => offered = Attach(<<>>))

\* Only a plan with the required tool is executed.
Obeyed == stage \in {"execute", "results", "render"} => plan # <<>> /\ Required(plan)

\* Results follow the plan.
Matching == \A i \in DOMAIN results : results[i].call = i /\ results[i].tool = plan[i]

Complete == stage \in {"results", "render"} => Len(results) = Len(plan)

\* The first layer takes out patterns at once, the second the rest before rendering.
Clean ==
  /\ \A i \in DOMAIN results : results[i].payload # "pattern"
  /\ NothingSuspiciousRendered

Inv ==
  /\ Fresh /\ Unanswered /\ Routing /\ Asking /\ Obeyed /\ Matching /\ Complete /\ Clean
  /\ RendererIsBlind /\ RequiredToolRan /\ NoFakeBookingAnswer

-----------------------------------------------------------------------------
(***************************************************************************)
(* Routing                                                                 *)
(***************************************************************************)

\* A set of rule positions has a first one.
LEMMA First ==
  ASSUME NEW I, I \subseteq 1..8, I # {}
  PROVE  Min(I) \in I
<1>1. \E x \in I : \A y \in I : x <= y
  <2> SUFFICES ASSUME \A x \in I : \E y \in I : y < x PROVE FALSE
    OBVIOUS
  <2>1. 1 \notin I
    OBVIOUS
  <2>2. 2 \notin I
    BY <2>1
  <2>3. 3 \notin I
    BY <2>1, <2>2
  <2>4. 4 \notin I
    BY <2>1, <2>2, <2>3
  <2>5. 5 \notin I
    BY <2>1, <2>2, <2>3, <2>4
  <2>6. 6 \notin I
    BY <2>1, <2>2, <2>3, <2>4, <2>5
  <2>7. 7 \notin I
    BY <2>1, <2>2, <2>3, <2>4, <2>5, <2>6
  <2>8. 8 \notin I
    BY <2>1, <2>2, <2>3, <2>4, <2>5, <2>6, <2>7
  <2>9. PICK x \in I : x \in 1..8
    OBVIOUS
  <2>10. x = 1 \/ x = 2 \/ x = 3 \/ x = 4 \/ x = 5 \/ x = 6 \/ x = 7 \/ x = 8
    BY <2>9
  <2> QED
    BY <2>1, <2>2, <2>3, <2>4, <2>5, <2>6, <2>7, <2>8, <2>10
<1> QED
  BY <1>1 DEF Min

\* Detection by rule yields an intent.
LEMMA DetectedIntent ==
  ASSUME NEW m, m.hints \subseteq ToSet(Rules)
  PROVE  RuleBasedDetect(m).intent \in Intents
<1> DEFINE I == {i \in 1..Len(Rules) : Rules[i] \in m.hints}
           pos == SelectInSeq(Rules, LAMBDA r : r \in m.hints)
<1>1. CASE m.hints = {}
  BY <1>1 DEF RuleBasedDetect, Intents, ValidIntents
<1>2. CASE m.hints # {}
  <2>1. Len(Rules) = 8
    BY DEF Rules
  <2>2. I # {}
    BY <1>2 DEF ToSet
  <2>3. pos = Min(I)
    BY <2>2 DEF SelectInSeq
  <2>4. pos \in 1..8
    BY <2>1, <2>2, <2>3, First
  <2>5. IntentOf(Rules[pos]) \in Intents
    BY <2>4 DEF Rules, IntentOf, Intents, ValidIntents
  <2> QED
    BY <1>2, <2>5 DEF RuleBasedDetect
<1> QED
  BY <1>1, <1>2

\* The fast path is only for greetings and bookings.
LEMMA RoutedFast ==
  ASSUME NEW d, Route(d) = "fast_path"
  PROVE  d.intent \in {"greeting", "booking"}
  BY DEF Route

LEMMA NormalisedIntent == ASSUME NEW label \in Labels PROVE Normalise(label) \in Intents
  BY DEF Normalise, Labels, Intents, ValidIntents

\* The cached intents that detection can yield.
LEMMA StaticIntent ==
  ASSUME NEW i \in Intents, i \in STATIC_INTENTS PROVE i = "greeting"
  BY DEF Intents, ValidIntents, STATIC_INTENTS

\* The planner is offered the tool it is told to call.
LEMMA HintAllowed ==
  ASSUME NEW i, NEW tools, ShippedTools \subseteq tools, ToolHint(i, NULL) # NULL
  PROVE  ToolHint(i, NULL) \in Allowed(i, Enabled(tools))
<1>1. CASE i = "support_event"
  BY <1>1 DEF ToolHint, Allowed, Enabled, ShippedTools
<1>2. CASE i = "manage_booking"
  BY <1>2 DEF ToolHint, Allowed, Enabled, ShippedTools
<1> QED
  BY <1>1, <1>2 DEF ToolHint

LEMMA AllowedOffered == ASSUME NEW i, NEW tools PROVE Allowed(i, tools) \subseteq tools
  BY DEF Allowed

LEMMA PlanType == ASSUME NEW p \in Plans PROVE p \in Seq(Names) /\ Len(p) \in Nat /\ Len(p) <= MaxCalls
<1>1. PICK n \in 0..MaxCalls : p \in [1..n -> Names]
  BY DEF Plans
<1> QED
  BY <1>1, BoundsAssumption

-----------------------------------------------------------------------------
(***************************************************************************)
(* The invariant                                                           *)
(***************************************************************************)
LEMMA InitInv == Init => TypeOK /\ Inv
<1> SUFFICES ASSUME Init PROVE TypeOK /\ Inv
  OBVIOUS
<1>1. TypeOK
  <2>1. plan \in Seq(Names) /\ Len(plan) <= MaxCalls
    BY BoundsAssumption DEF Init
  <2>2. results \in Seq(Result) /\ Len(results) <= Len(plan)
    <3>1. results = <<>>
      BY DEF Init
    <3>2. plan = <<>>
      BY DEF Init
    <3> QED
      BY <3>1, <3>2
  <2>3. stage \in Stages /\ links \in Links
    BY DEF Init, Stages, Links
  <2>4. intent \in Intents \cup {NULL} /\ answer \in Answers \cup {NULL}
    BY DEF Init
  <2>5. social \in BOOLEAN /\ offered \subseteq Enabled(Registered)
    BY Zenon DEF Init
  <2>6. attempts \in 0..3
    BY SMT DEF Init
  <2> QED
    BY <2>1, <2>2, <2>3, <2>4, <2>5, <2>6 DEF TypeOK
<1>2. ToolHint(NULL, NULL) = NULL /\ NULL # "apology" /\ NULL # "rendered"
  BY NullAssumption DEF ToolHint, Intents, ValidIntents, Answers
<1>3. Fresh /\ Unanswered /\ Routing /\ Asking /\ Obeyed /\ Matching /\ Complete /\ Clean
  BY DEF Init, Fresh, Unanswered, Routing, Asking, Obeyed, Matching, Complete, Clean, NothingSuspiciousRendered
<1>4. RendererIsBlind /\ RequiredToolRan /\ NoFakeBookingAnswer
  BY <1>2 DEF Init, RendererIsBlind, RequiredToolRan, NoFakeBookingAnswer, Hint
<1> QED
  BY <1>1, <1>3, <1>4 DEF Inv

\* Detection.
LEMMA RoutedInv ==
  ASSUME TypeOK, Inv, stage = "idle", NEW d, NEW m, d.intent \in Intents, Routed(d, m)
  PROVE  TypeOK' /\ Inv'
<1>1. social' => d.intent \in {"greeting", "booking"}
  BY RoutedFast DEF Routed
<1>2. d.intent \in STATIC_INTENTS => d.intent = "greeting"
  BY StaticIntent
<1>3. social' \in BOOLEAN
  BY DEF Routed
<1>4. TypeOK'
  BY <1>3 DEF TypeOK, Routed, Stages
<1>5. Inv'
  BY <1>1, <1>2 DEF Inv, Routed, Fresh, Unanswered, Routing, Asking, Obeyed, Matching, Complete, Clean,
     NothingSuspiciousRendered, RendererIsBlind, RequiredToolRan, NoFakeBookingAnswer
<1> QED
  BY <1>4, <1>5

LEMMA DetectInv == ASSUME TypeOK, Inv, DetectByRule \/ DetectByModel PROVE TypeOK' /\ Inv'
<1>1. ASSUME NEW m \in Messages(MaxHints) PROVE RuleBasedDetect(m).intent \in Intents
  BY DetectedIntent DEF Messages
<1>2. CASE DetectByRule
  BY <1>1, <1>2, RoutedInv DEF DetectByRule
<1>3. CASE DetectByModel
  <2>1. PICK m \in Messages(MaxHints) :
          \/ \E label \in Labels : Routed([intent |-> Normalise(label), confidence |-> 85], m)
          \/ Routed(RuleBasedDetect(m), m)
    BY <1>3 DEF DetectByModel
  <2>2. stage = "idle"
    BY <1>3 DEF DetectByModel
  <2>3. ASSUME NEW label \in Labels, Routed([intent |-> Normalise(label), confidence |-> 85], m)
        PROVE  TypeOK' /\ Inv'
    BY <2>2, <2>3, NormalisedIntent, RoutedInv
  <2> QED
    BY <1>1, <2>1, <2>2, <2>3, RoutedInv
<1> QED
  BY <1>2, <1>3

\* An answer that may be given keeps the invariant.
LEMMA RespondInv ==
  ASSUME Inv, NEW kind, NEW target, Respond(kind, target),
         kind # NULL, intent' = intent, social' = social, results' = results,
         plan' = plan \/ results = <<>>,
         kind = "rendered" => offered' = {} /\ results # <<>>,
         Hint # NULL /\ kind # "apology" => \E i \in DOMAIN results : results[i].tool = Hint,
         kind = "apology" => results = <<>>,
         ~FakeBooking(target)
  PROVE  Inv'
<1>1. stage' \in {"store", "done"} /\ answer' = kind /\ links' = target
  BY DEF Respond
<1>2. Fresh' /\ Unanswered' /\ Asking' /\ Obeyed' /\ Complete'
  BY <1>1 DEF Fresh, Unanswered, Asking, Obeyed, Complete
<1>3. Routing' /\ Matching' /\ Clean'
  BY <1>1 DEF Inv, Routing, Matching, Clean, NothingSuspiciousRendered
<1>4. RendererIsBlind' /\ NoFakeBookingAnswer'
  BY <1>1 DEF RendererIsBlind, NoFakeBookingAnswer, FakeBooking
<1>5. RequiredToolRan'
  BY <1>1 DEF RequiredToolRan, Hint
<1> QED
  BY <1>2, <1>3, <1>4, <1>5 DEF Inv

\* The types of an answer.
LEMMA RespondType ==
  ASSUME NEW kind \in Answers, NEW target \in Links, Respond(kind, target)
  PROVE  stage' \in Stages /\ links' \in Links /\ answer' \in Answers
  BY DEF Respond, Stages

\* A step that leaves plan, results and answer alone and enters none of the stages
\* that ask something of them.
LEMMA FrameInv ==
  ASSUME Inv, intent' = intent, social' = social, attempts' = attempts, offered' = offered,
         plan' = plan, results' = results, links' = links, answer' = answer,
         \/ stage = "lookup" /\ stage' = "dispatch"
         \/ stage = "dispatch" /\ stage' = "plan" /\ attempts = 0
         \/ stage = "store" /\ stage' = "done"
         \/ stage' = "failed"
  PROVE  Inv'
<1>1. Fresh' /\ Unanswered' /\ Routing' /\ Asking' /\ Obeyed' /\ Complete'
  BY DEF Inv, Fresh, Unanswered, Routing, Asking, Obeyed, Complete
<1>2. Matching' /\ Clean'
  BY DEF Inv, Matching, Clean, NothingSuspiciousRendered
<1>3. RendererIsBlind' /\ RequiredToolRan' /\ NoFakeBookingAnswer'
  BY DEF Inv, RendererIsBlind, RequiredToolRan, NoFakeBookingAnswer, Hint
<1> QED
  BY <1>1, <1>2, <1>3 DEF Inv

\* The semantic cache, the fast path, and the write after an answer.
LEMMA CacheInv ==
  ASSUME TypeOK, Inv, CacheHit \/ CacheMiss \/ Dispatch \/ Store \/ Interrupt PROVE TypeOK' /\ Inv'
<1>1. TypeOK'
  BY DEF TypeOK, CacheHit, CacheMiss, Dispatch, Store, Interrupt, Respond, Stages, Answers, Links
<1>2. ToolHint("greeting", NULL) = NULL /\ ToolHint("booking", NULL) = NULL
  BY DEF ToolHint
<1>3. NULL \notin Answers
  BY NullAssumption
<1>4. CASE CacheHit
  <2>1. Hint = NULL /\ intent # "booking"
    BY <1>2, <1>4 DEF CacheHit, Inv, Routing, Hint
  <2>2. Respond("cached", {}) /\ intent' = intent /\ social' = social /\ results' = results
        /\ plan' = plan
    BY <1>4 DEF CacheHit
  <2> QED
    BY <1>1, <1>3, <2>1, <2>2, RespondInv DEF Answers, FakeBooking
<1>5. CASE Dispatch
  <2>1. CASE social
    <3>1. Hint = NULL
      BY <1>2, <2>1 DEF Inv, Routing, Hint
    <3>2. Respond("fast", {}) /\ intent' = intent /\ social' = social /\ results' = results
        /\ plan' = plan
      BY <1>5, <2>1 DEF Dispatch
    <3> QED
      BY <1>1, <1>3, <3>1, <3>2, RespondInv DEF Answers, FakeBooking
  <2>2. CASE ~social
    <3>1. stage = "dispatch" /\ stage' = "plan" /\ attempts = 0
      BY <1>5, <2>2 DEF Dispatch, Inv, Asking
    <3>2. /\ intent' = intent /\ social' = social /\ attempts' = attempts /\ offered' = offered
          /\ plan' = plan /\ results' = results /\ links' = links /\ answer' = answer
      BY <1>5, <2>2 DEF Dispatch
    <3> QED
      BY <1>1, <3>1, <3>2, FrameInv
  <2> QED
    BY <2>1, <2>2
<1>6. CASE CacheMiss \/ Store \/ Interrupt
  <2>1. /\ intent' = intent /\ social' = social /\ attempts' = attempts /\ offered' = offered
        /\ plan' = plan /\ results' = results /\ links' = links /\ answer' = answer
    BY <1>6 DEF CacheMiss, Store, Interrupt
  <2>2. \/ stage = "lookup" /\ stage' = "dispatch"
        \/ stage = "store" /\ stage' = "done"
        \/ stage' = "failed"
    BY <1>6 DEF CacheMiss, Store, Interrupt
  <2> QED
    BY <1>1, <2>1, <2>2, FrameInv
<1> QED
  BY <1>1, <1>4, <1>5, <1>6

-----------------------------------------------------------------------------
(***************************************************************************)
(* The planner                                                             *)
(***************************************************************************)

\* A request that fails keeps what is known of it.
LEMMA FailedInv ==
  ASSUME TypeOK, Inv, stage' = "failed", links' = links, answer' = answer, answer = NULL,
         intent' = intent, social' = social, results' = results,
         plan' = plan \/ results = <<>>
  PROVE  Inv'
<1>1. Fresh' /\ Unanswered' /\ Routing' /\ Asking' /\ Obeyed' /\ Complete'
  BY DEF Inv, Fresh, Unanswered, Routing, Asking, Obeyed, Complete
<1>2. Matching' /\ Clean'
  BY DEF Inv, Matching, Clean, NothingSuspiciousRendered
<1>3. RendererIsBlind' /\ RequiredToolRan' /\ NoFakeBookingAnswer'
  BY NullAssumption DEF RendererIsBlind, RequiredToolRan, NoFakeBookingAnswer, Hint, Answers
<1> QED
  BY <1>1, <1>2, <1>3 DEF Inv

\* What one call of the planner changes.
LEMMA Asked ==
  ASSUME TypeOK, Inv, NEW p \in Plans, AskPlanner(p)
  PROVE  /\ stage = "plan" /\ results = <<>> /\ answer = NULL
         /\ attempts <= 2 /\ attempts' \in 0..3 /\ attempts' = attempts + 1
         /\ intent' = intent /\ social' = social /\ results' = results /\ plan' = p
         /\ offered' = Attach(<<>>) /\ offered' = Attach(<<>>)'
         /\ offered' \subseteq Enabled(Registered)
         /\ plan' \in Seq(Names) /\ Len(plan') <= MaxCalls /\ Len(results') <= Len(plan')
         /\ Hint # NULL => Hint \in offered'
<1>1. stage = "plan" /\ results = <<>> /\ answer = NULL /\ attempts <= 2
  BY DEF AskPlanner, Inv, Fresh, Asking
<1>2. /\ attempts' = attempts + 1 /\ offered' = Attach(<<>>) /\ plan' = p
      /\ intent' = intent /\ social' = social /\ results' = results
  BY DEF AskPlanner
<1>3. attempts' \in 0..3
  BY <1>1, <1>2 DEF TypeOK
<1>4. offered' = Allowed(intent, Enabled(Registered)) /\ offered' = Attach(<<>>)'
  BY <1>2 DEF Attach
<1>5. offered' \subseteq Enabled(Registered)
  BY <1>4, AllowedOffered
<1>6. plan' \in Seq(Names) /\ Len(plan') <= MaxCalls /\ Len(results') <= Len(plan')
  BY <1>1, <1>2, PlanType
<1>7. Hint # NULL => Hint \in offered'
  BY <1>4, HintAllowed DEF Hint, Registered
<1> QED
  BY <1>1, <1>2, <1>3, <1>4, <1>5, <1>6, <1>7

LEMMA PlanToolsInv == ASSUME TypeOK, Inv, PlanTools PROVE TypeOK' /\ Inv'
<1>1. PICK p \in Plans : /\ AskPlanner(p) /\ Required(p) /\ p # <<>>
                         /\ stage' = "execute" /\ links' = links /\ answer' = answer
  BY DEF PlanTools
<1>2. TypeOK'
  BY <1>1, Asked DEF TypeOK, Stages
<1>3. Fresh' /\ Unanswered' /\ Routing' /\ Asking' /\ Complete'
  BY <1>1, Asked DEF Inv, Routing, Fresh, Unanswered, Asking, Complete
<1>4. Obeyed'
  BY <1>1, Asked DEF Obeyed, Required, Hint
<1>5. Matching' /\ Clean' /\ NoFakeBookingAnswer'
  BY <1>1, Asked DEF Matching, Clean, NothingSuspiciousRendered, NoFakeBookingAnswer
<1>6. RendererIsBlind' /\ RequiredToolRan'
  BY <1>1, Asked, NullAssumption DEF RendererIsBlind, RequiredToolRan, Hint, Answers
<1> QED
  BY <1>2, <1>3, <1>4, <1>5, <1>6 DEF Inv

LEMMA PlanTextInv == ASSUME TypeOK, Inv, PlanText PROVE TypeOK' /\ Inv'
<1>1. <<>> \in Plans
  <2>1. <<>> \in [1..0 -> Names]
    OBVIOUS
  <2> QED
    BY <2>1, BoundsAssumption DEF Plans
<1>2. PICK target \in Links : Deliver("text", target)
  BY DEF PlanText
<1>3. AskPlanner(<<>>) /\ Hint = NULL
  BY DEF PlanText, Required
<1>4. CASE FakeBooking(target)
  <2>1. stage' = "failed" /\ links' = links /\ answer' = answer
    BY <1>2, <1>4 DEF Deliver
  <2>2. TypeOK'
    BY <1>1, <1>3, <2>1, Asked DEF TypeOK, Stages
  <2> QED
    BY <1>1, <1>3, <2>1, <2>2, Asked, FailedInv
<1>5. CASE ~FakeBooking(target)
  <2>1. Respond("text", target)
    BY <1>2, <1>5 DEF Deliver
  <2>2. TypeOK'
    BY <1>1, <1>3, <2>1, Asked, RespondType DEF TypeOK, Answers
  <2>3. Inv'
    BY <1>1, <1>3, <1>5, <2>1, Asked, RespondInv, NullAssumption DEF Answers
  <2> QED
    BY <2>2, <2>3
<1> QED
  BY <1>4, <1>5

LEMMA PlanRejectedInv == ASSUME TypeOK, Inv, PlanRejected PROVE TypeOK' /\ Inv'
<1>1. PICK p \in Plans :
        /\ AskPlanner(p) /\ ~Required(p)
        /\ IF attempts < 2 THEN UNCHANGED <<stage, links, answer>> ELSE Respond("apology", {})
  BY DEF PlanRejected
<1>2. CASE attempts < 2
  <2>1. stage' = "plan" /\ links' = links /\ answer' = NULL /\ answer = NULL
    BY <1>1, <1>2, Asked
  <2>2. TypeOK'
    BY <1>1, <2>1, Asked DEF TypeOK, Stages
  <2>3. Fresh' /\ Unanswered' /\ Routing' /\ Complete' /\ Obeyed'
    BY <1>1, <2>1, Asked DEF Inv, Routing, Fresh, Unanswered, Complete, Obeyed
  <2>4. Asking'
    BY <1>1, <1>2, <2>1, Asked DEF Asking, TypeOK
  <2>5. Matching' /\ Clean' /\ NoFakeBookingAnswer'
    BY <1>1, <2>1, Asked DEF Matching, Clean, NothingSuspiciousRendered, NoFakeBookingAnswer
  <2>6. RendererIsBlind' /\ RequiredToolRan'
    BY <1>1, <2>1, Asked, NullAssumption DEF RendererIsBlind, RequiredToolRan, Hint, Answers
  <2> QED
    BY <2>2, <2>3, <2>4, <2>5, <2>6 DEF Inv
<1>3. CASE ~(attempts < 2)
  <2>1. Respond("apology", {})
    BY <1>1, <1>3
  <2>2. TypeOK'
    BY <1>1, <2>1, Asked, RespondType DEF TypeOK, Answers, Links
  <2>3. Inv'
    BY <1>1, <2>1, Asked, RespondInv, NullAssumption DEF Answers, FakeBooking
  <2> QED
    BY <2>2, <2>3
<1> QED
  BY <1>2, <1>3

-----------------------------------------------------------------------------
(***************************************************************************)
(* Tools, firewall, renderer                                               *)
(***************************************************************************)

\* A call adds one result, of the next call of the plan and without a pattern.
LEMMA ResultInv ==
  ASSUME TypeOK, Inv, stage = "execute", Len(results) < Len(plan),
         NEW payload \in Payloads, payload # "pattern",
         results' = Append(results, [call |-> Len(results) + 1, tool |-> NextCall,
                                     payload |-> payload]),
         stage' = stage, intent' = intent, social' = social, attempts' = attempts,
         offered' = offered, plan' = plan, links' = links, answer' = answer
  PROVE  TypeOK' /\ Inv'
<1> DEFINE r == [call |-> Len(results) + 1, tool |-> NextCall, payload |-> payload]
<1>1. Len(results) \in Nat /\ Len(plan) \in Nat /\ results \in Seq(Result) /\ plan \in Seq(Names)
  BY DEF TypeOK
<1>2. NextCall \in Names
  BY <1>1 DEF NextCall
<1>3. r \in Result
  BY <1>1, <1>2 DEF Result
<1>4. /\ results' \in Seq(Result) /\ Len(results') = Len(results) + 1
      /\ DOMAIN results' = 1..(Len(results) + 1) /\ DOMAIN results = 1..Len(results)
      /\ \A i \in DOMAIN results : results'[i] = results[i]
      /\ results'[Len(results) + 1] = r
  BY <1>1, <1>3
<1>5. TypeOK'
  BY <1>1, <1>4 DEF TypeOK
<1>6. Matching'
  BY <1>1, <1>4 DEF Inv, Matching, NextCall
<1>7. Clean'
  BY <1>1, <1>4 DEF Inv, Clean, NothingSuspiciousRendered
<1>8. answer = NULL
  BY DEF Inv, Unanswered
<1>9. Fresh' /\ Unanswered' /\ Routing' /\ Asking' /\ Complete'
  BY <1>8 DEF Inv, Fresh, Unanswered, Routing, Asking, Complete
<1>10. Obeyed'
  BY DEF Inv, Obeyed, Required, Hint
<1>11. RendererIsBlind' /\ RequiredToolRan' /\ NoFakeBookingAnswer'
  BY <1>8, NullAssumption DEF RendererIsBlind, RequiredToolRan, NoFakeBookingAnswer, Answers
<1> QED
  BY <1>5, <1>6, <1>7, <1>9, <1>10, <1>11 DEF Inv

LEMMA CallInv == ASSUME TypeOK, Inv, CallTool \/ CallUnknown PROVE TypeOK' /\ Inv'
<1>1. CASE CallTool
  <2>1. PICK payload \in OutputsOf(NextCall) \cup {"error"} :
          results' = Append(results, [call |-> Len(results) + 1, tool |-> NextCall,
                                      payload |-> Redact(payload)])
    BY <1>1 DEF CallTool
  <2>2. Redact(payload) \in Payloads /\ Redact(payload) # "pattern"
    BY DEF Redact, Payloads, OutputsOf, Outputs
  <2>3. /\ stage = "execute" /\ Len(results) < Len(plan) /\ stage' = stage /\ intent' = intent
        /\ social' = social /\ attempts' = attempts /\ offered' = offered /\ plan' = plan
        /\ links' = links /\ answer' = answer
    BY <1>1 DEF CallTool
  <2> QED
    BY <2>1, <2>2, <2>3, ResultInv
<1>2. CASE CallUnknown
  <2>1. /\ stage = "execute" /\ Len(results) < Len(plan) /\ stage' = stage /\ intent' = intent
        /\ social' = social /\ attempts' = attempts /\ offered' = offered /\ plan' = plan
        /\ links' = links /\ answer' = answer
        /\ results' = Append(results, [call |-> Len(results) + 1, tool |-> NextCall,
                                       payload |-> "error"])
    BY <1>2 DEF CallUnknown
  <2>2. "error" \in Payloads /\ "error" # "pattern"
    BY DEF Payloads
  <2> QED
    BY <2>1, <2>2, ResultInv
<1> QED
  BY <1>1, <1>2

LEMMA SanitizeInv == ASSUME TypeOK, Inv, Sanitize PROVE TypeOK' /\ Inv'
<1>1. /\ stage = "execute" /\ Len(results) = Len(plan) /\ stage' = "results" /\ intent' = intent
      /\ social' = social /\ attempts' = attempts /\ offered' = offered /\ plan' = plan
      /\ links' = links /\ answer' = answer /\ answer = NULL
      /\ results' = [i \in DOMAIN results |-> [results[i] EXCEPT !.payload = Filtered(@)]]
  BY DEF Sanitize, Inv, Unanswered
<1>2. results \in Seq(Result) /\ DOMAIN results = 1..Len(results) /\ Len(results) \in Nat
  BY DEF TypeOK
<1>3. ASSUME NEW i \in DOMAIN results
      PROVE  /\ results[i] \in Result /\ results'[i] \in Result
             /\ results'[i].call = results[i].call /\ results'[i].tool = results[i].tool
             /\ results'[i].payload = Filtered(results[i].payload)
  <2>1. results[i] \in Result
    BY <1>2
  <2>2. results'[i] = [results[i] EXCEPT !.payload = Filtered(@)]
    BY <1>1
  <2>3. Filtered(results[i].payload) \in Payloads
    BY <2>1 DEF Result, Filtered, Payloads, Outputs
  <2> QED
    BY <2>1, <2>2, <2>3 DEF Result
<1>4. DOMAIN results' = DOMAIN results /\ results' \in Seq(Result) /\ Len(results') = Len(results)
  <2>1. DOMAIN results' = 1..Len(results)
    BY <1>1, <1>2
  <2>2. results' = [i \in 1..Len(results) |-> results'[i]]
    BY <1>1, <1>2
  <2>3. results' \in [1..Len(results) -> Result]
    BY <1>2, <1>3, <2>2
  <2> QED
    BY <1>2, <2>1, <2>3
<1>5. TypeOK'
  BY <1>1, <1>4 DEF TypeOK, Stages
<1>6. Matching'
  BY <1>1, <1>3, <1>4 DEF Inv, Matching
<1>7. Clean'
  <2>1. \A i \in DOMAIN results : results[i].payload # "pattern"
    BY DEF Inv, Clean
  <2>2. \A i \in DOMAIN results' : results'[i].payload \notin {"pattern", "key", "prefix"}
    BY <1>3, <1>4, <2>1 DEF Filtered
  <2> QED
    BY <2>2 DEF Clean, NothingSuspiciousRendered
<1>8. Fresh' /\ Unanswered' /\ Routing' /\ Asking' /\ Complete'
  BY <1>1, <1>4 DEF Inv, Fresh, Unanswered, Routing, Asking, Complete
<1>9. Obeyed'
  BY <1>1 DEF Inv, Obeyed, Required, Hint
<1>10. RendererIsBlind' /\ RequiredToolRan' /\ NoFakeBookingAnswer'
  BY <1>1, NullAssumption DEF RendererIsBlind, RequiredToolRan, NoFakeBookingAnswer, Answers
<1> QED
  BY <1>5, <1>6, <1>7, <1>8, <1>9, <1>10 DEF Inv

\* Once every call has its result, the required tool is among the results.
LEMMA HintRan ==
  ASSUME TypeOK, Inv, stage \in {"results", "render"}
  PROVE  /\ results # <<>>
         /\ Hint # NULL => \E i \in DOMAIN results : results[i].tool = Hint
<1>1. Len(results) = Len(plan) /\ plan # <<>> /\ Required(plan)
  BY DEF Inv, Complete, Obeyed
<1>2. /\ DOMAIN results = 1..Len(results) /\ DOMAIN plan = 1..Len(plan)
      /\ plan \in Seq(Names) /\ results \in Seq(Result)
  BY DEF TypeOK
<1>3. results # <<>>
  BY <1>1, <1>2
<1>4. \A i \in DOMAIN results : results[i].tool = plan[i]
  BY DEF Inv, Matching
<1> QED
  BY <1>1, <1>2, <1>3, <1>4 DEF Required

LEMMA TemplateInv == ASSUME TypeOK, Inv, MatchTemplate PROVE TypeOK' /\ Inv'
<1>1. /\ stage = "results" /\ intent' = intent /\ social' = social /\ attempts' = attempts
      /\ offered' = offered /\ plan' = plan /\ results' = results /\ answer = NULL
  BY DEF MatchTemplate, Inv, Unanswered
<1>2. CASE Respond("template", {})
  <2>1. TypeOK'
    BY <1>1, <1>2, RespondType DEF TypeOK, Answers, Links
  <2>2. Inv'
    BY <1>1, <1>2, HintRan, RespondInv, NullAssumption DEF Answers, FakeBooking
  <2> QED
    BY <2>1, <2>2
<1>3. CASE stage' = "render" /\ links' = links /\ answer' = answer
  <2>1. TypeOK'
    BY <1>1, <1>3 DEF TypeOK, Stages
  <2>2. Fresh' /\ Unanswered' /\ Routing' /\ Asking' /\ Complete'
    BY <1>1, <1>3 DEF Inv, Fresh, Unanswered, Routing, Asking, Complete
  <2>3. Obeyed' /\ Matching' /\ Clean'
    BY <1>1, <1>3 DEF Inv, Obeyed, Matching, Clean, Required, Hint, NothingSuspiciousRendered
  <2>4. RendererIsBlind' /\ RequiredToolRan' /\ NoFakeBookingAnswer'
    BY <1>1, <1>3, NullAssumption DEF RendererIsBlind, RequiredToolRan, NoFakeBookingAnswer, Answers
  <2> QED
    BY <2>1, <2>2, <2>3, <2>4 DEF Inv
<1> QED
  BY <1>2, <1>3 DEF MatchTemplate

LEMMA RenderInv == ASSUME TypeOK, Inv, Render PROVE TypeOK' /\ Inv'
<1>1. /\ stage = "render" /\ intent' = intent /\ social' = social /\ attempts' = attempts
      /\ plan' = plan /\ results' = results /\ offered' = Attach(results)
  BY DEF Render
<1>2. PICK target \in Links : Deliver("rendered", target)
  BY DEF Render
<1>3. results # <<>> /\ offered' = {}
  BY <1>1, HintRan DEF Attach
<1>4. offered' \subseteq Enabled(Registered)
  BY <1>3
<1>5. CASE FakeBooking(target)
  <2>1. stage' = "failed" /\ links' = links /\ answer' = answer
    BY <1>2, <1>5 DEF Deliver
  <2>2. answer = NULL
    BY <1>1 DEF Inv, Unanswered
  <2>3. TypeOK'
    BY <1>1, <1>4, <2>1 DEF TypeOK, Stages
  <2> QED
    BY <1>1, <2>1, <2>2, <2>3, FailedInv
<1>6. CASE ~FakeBooking(target)
  <2>1. Respond("rendered", target)
    BY <1>2, <1>6 DEF Deliver
  <2>2. TypeOK'
    BY <1>1, <1>4, <2>1, RespondType DEF TypeOK, Answers
  <2>3. Hint # NULL => \E i \in DOMAIN results : results[i].tool = Hint
    BY <1>1, HintRan
  <2>4. Inv'
    BY <1>1, <1>3, <1>6, <2>1, <2>3, RespondInv, NullAssumption DEF Answers
  <2> QED
    BY <2>2, <2>4
<1> QED
  BY <1>5, <1>6

LEMMA StutterInv == ASSUME TypeOK, Inv, UNCHANGED vars PROVE TypeOK' /\ Inv'
<1>1. TypeOK'
  BY DEF vars, TypeOK
<1>2. Fresh' /\ Unanswered' /\ Routing' /\ Asking' /\ Complete'
  BY DEF vars, Inv, Fresh, Unanswered, Routing, Asking, Complete, Attach
<1>3. Obeyed' /\ Matching' /\ Clean'
  BY DEF vars, Inv, Obeyed, Matching, Clean, Required, Hint, NothingSuspiciousRendered
<1>4. RendererIsBlind' /\ RequiredToolRan' /\ NoFakeBookingAnswer'
  BY DEF vars, Inv, RendererIsBlind, RequiredToolRan, NoFakeBookingAnswer, Hint
<1> QED
  BY <1>1, <1>2, <1>3, <1>4 DEF Inv

LEMMA NextInv == ASSUME TypeOK, Inv, [Next]_vars PROVE TypeOK' /\ Inv'
  BY DetectInv, CacheInv, PlanToolsInv, PlanTextInv, PlanRejectedInv, CallInv, SanitizeInv,
     TemplateInv, RenderInv, StutterInv DEF Next, Step

LEMMA Invariant == Spec => [](TypeOK /\ Inv)
<1>1. Init => TypeOK /\ Inv
  BY InitInv
<1>2. TypeOK /\ Inv /\ [Next]_vars => (TypeOK /\ Inv)'
  BY NextInv
<1> QED
  BY <1>1, <1>2, PTL DEF Spec

-----------------------------------------------------------------------------
(***************************************************************************)
(* Theorems                                                                *)
(***************************************************************************)

\* The request keeps its types: the planner is called at most three times, is offered
\* registered tools only, and its calls never outrun the plan.
THEOREM TypeCorrect == Spec => []TypeOK
  BY Invariant, PTL

\* The renderer gets one result for each call of the plan, in order, whatever the tools do.
THEOREM ResultsMatchPlan == Spec => []OneResultPerCall
<1>1. TypeOK /\ Inv => OneResultPerCall
  <2> SUFFICES ASSUME TypeOK, Inv, stage \in {"results", "render"}
               PROVE  /\ Len(results) = Len(plan)
                      /\ \A i \in DOMAIN plan : results[i].call = i /\ results[i].tool = plan[i]
    BY DEF OneResultPerCall
  <2>1. DOMAIN results = 1..Len(results) /\ DOMAIN plan = 1..Len(plan)
    BY DEF TypeOK
  <2> QED
    BY <2>1 DEF Inv, Complete, Matching
<1> QED
  BY <1>1, Invariant, PTL

\* The model call that carries results carries no tools.
THEOREM BlindRenderer == Spec => []RendererIsBlind
<1>1. Inv => RendererIsBlind
  BY DEF Inv
<1> QED
  BY <1>1, Invariant, PTL

\* An intent that requires a tool is answered from a run of it, or with the apology.
THEOREM AnswersAreGrounded == Spec => []RequiredToolRan
<1>1. Inv => RequiredToolRan
  BY DEF Inv
<1> QED
  BY <1>1, Invariant, PTL

\* The two layers together leave no pattern that matches, and no forbidden key or
\* role prefix at the top level of an output.
THEOREM FirewallHolds == Spec => []NothingSuspiciousRendered
<1>1. Inv => NothingSuspiciousRendered
  BY DEF Inv, Clean
<1> QED
  BY <1>1, Invariant, PTL

\* On both paths to a booking answer, one that links to foreign sites and to no event
\* is never given: the safety net raises on it, and the request fails.
THEOREM FakeBookingFails == Spec => []NoFakeBookingAnswer
<1>1. Inv => NoFakeBookingAnswer
  BY DEF Inv
<1> QED
  BY <1>1, Invariant, PTL

-----------------------------------------------------------------------------
(***************************************************************************)
(* A request is over after a bounded number of steps                       *)
(***************************************************************************)

\* Steps a request has left at most: planner calls, then one per tool call.
Measure ==
  CASE stage = "idle"     -> MaxCalls + 11
    [] stage = "lookup"   -> MaxCalls + 10
    [] stage = "dispatch" -> MaxCalls + 9
    [] stage = "plan"     -> MaxCalls + 8 - attempts
    [] stage = "execute"  -> Len(plan) - Len(results) + 4
    [] stage = "results"  -> 3
    [] stage = "render"   -> 2
    [] stage = "store"    -> 1
    [] OTHER              -> 0

\* What the measure is counted from.
Counts ==
  /\ attempts \in 0..3 /\ MaxCalls \in Nat /\ Len(plan) \in Nat /\ Len(results) \in Nat
  /\ Len(plan) <= MaxCalls /\ Len(results) <= Len(plan)
  /\ stage = "plan" => attempts <= 2

LEMMA CountsHold == ASSUME TypeOK, Inv PROVE Counts
<1>1. plan \in Seq(Names) /\ results \in Seq(Result)
  BY DEF TypeOK
<1>2. Len(plan) \in Nat /\ Len(results) \in Nat
  BY <1>1
<1> QED
  BY <1>2, BoundsAssumption DEF TypeOK, Inv, Asking, Counts

LEMMA MeasureBounded == ASSUME Counts PROVE Measure \in 0..(MaxCalls + 11)
  BY DEF Counts, Measure

\* An answer leaves at most the write to the semantic cache.
LEMMA RespondMeasure ==
  ASSUME NEW kind, NEW target, Respond(kind, target) PROVE Measure' <= 1
  BY DEF Respond, Measure

LEMMA MeasureStep == ASSUME TypeOK, Inv, Next PROVE Measure' < Measure
<1>1. Counts /\ Counts'
  <2>1. TypeOK' /\ Inv'
    BY NextInv
  <2>2. Counts'
    <3>1. plan' \in Seq(Names) /\ results' \in Seq(Result)
      BY <2>1 DEF TypeOK
    <3>2. Len(plan') \in Nat /\ Len(results') \in Nat
      BY <3>1
    <3> QED
      BY <2>1, <3>2, BoundsAssumption DEF TypeOK, Inv, Asking, Counts
  <2> QED
    BY <2>2, CountsHold
<1>2. CASE DetectByRule \/ DetectByModel
  <2>1. stage = "idle" /\ stage' \in {"lookup", "dispatch"}
    BY <1>2 DEF DetectByRule, DetectByModel, Routed
  <2> QED
    BY <1>1, <2>1 DEF Counts, Measure
<1>3. CASE CacheHit \/ Dispatch \/ PlanText \/ Render
  <2>1. stage \in {"lookup", "dispatch", "plan", "render"}
    BY <1>3 DEF CacheHit, Dispatch, PlanText, AskPlanner, Render
  <2>2. Measure >= 2
    BY <1>1, <2>1 DEF Counts, Measure
  <2>3. \/ \E kind, target : Respond(kind, target)
        \/ stage = "dispatch" /\ stage' = "plan"
        \/ stage' = "failed"
    BY <1>3 DEF CacheHit, Dispatch, PlanText, Render, Deliver
  <2>4. ASSUME stage = "dispatch", stage' = "plan" PROVE Measure' < Measure
    <3>1. Measure = MaxCalls + 9 /\ Measure' = MaxCalls + 8 - attempts'
      BY <2>4 DEF Measure
    <3>2. MaxCalls \in Nat /\ attempts' \in Nat
      BY <1>1 DEF Counts
    <3>3. \A m, n \in Nat : m + 8 - n < m + 9
      OBVIOUS
    <3> QED
      BY <3>1, <3>2, <3>3
  <2>5. ASSUME NEW kind, NEW target, Respond(kind, target) PROVE Measure' < Measure
    <3>1. Measure' <= 1 /\ Measure' \in Int /\ Measure \in Int
      BY <1>1, <2>5, RespondMeasure, MeasureBounded DEF Respond, Measure
    <3> QED
      BY <2>2, <3>1
  <2>6. ASSUME stage' = "failed" PROVE Measure' < Measure
    <3>1. Measure' = 0 /\ Measure \in Int
      BY <1>1, <2>6, MeasureBounded DEF Measure
    <3> QED
      BY <2>2, <3>1
  <2> QED
    BY <2>3, <2>4, <2>5, <2>6
<1>4. CASE CacheMiss \/ Store \/ Interrupt
  <2>1. \/ stage = "lookup" /\ stage' = "dispatch"
        \/ stage = "store" /\ stage' = "done"
        \/ stage \notin {"done", "failed"} /\ stage' = "failed"
    BY <1>4 DEF CacheMiss, Store, Interrupt
  <2>2. stage \notin {"done", "failed"} => Measure > 0
    BY <1>1 DEF Counts, Measure, TypeOK, Stages
  <2> QED
    BY <1>1, <2>1, <2>2 DEF Counts, Measure
<1>5. CASE PlanTools
  <2>1. stage = "plan" /\ stage' = "execute" /\ results' = results /\ results = <<>>
    BY <1>5 DEF PlanTools, AskPlanner, Inv, Fresh
  <2>2. Len(results') = 0
    BY <2>1
  <2>3. Measure = MaxCalls + 8 - attempts /\ Measure' = Len(plan') - 0 + 4
    BY <2>1, <2>2 DEF Measure
  <2> QED
    BY <1>1, <2>1, <2>3 DEF Counts
<1>6. CASE PlanRejected
  <2>1. stage = "plan" /\ attempts' = attempts + 1
    BY <1>6 DEF PlanRejected, AskPlanner
  <2>2. stage' = "plan" \/ Respond("apology", {})
    BY <1>6, <2>1 DEF PlanRejected
  <2>3. CASE stage' = "plan"
    BY <1>1, <2>1, <2>3 DEF Counts, Measure
  <2>4. CASE Respond("apology", {})
    <3>1. stage' \in {"store", "done"}
      BY <2>4 DEF Respond
    <3> QED
      BY <1>1, <2>1, <3>1 DEF Counts, Measure
  <2> QED
    BY <2>2, <2>3, <2>4
<1>7. CASE CallTool \/ CallUnknown
  <2>1. /\ stage = "execute" /\ stage' = "execute" /\ plan' = plan
        /\ \E r : results' = Append(results, r)
    BY <1>7 DEF CallTool, CallUnknown
  <2>2. Len(results') = Len(results) + 1
    BY <2>1 DEF TypeOK
  <2>3. Measure = Len(plan) - Len(results) + 4 /\ Measure' = Len(plan) - (Len(results) + 1) + 4
    BY <2>1, <2>2 DEF Measure
  <2> QED
    BY <1>1, <2>3 DEF Counts
<1>8. CASE Sanitize \/ MatchTemplate
  <2>1. \/ stage = "execute" /\ stage' = "results"
        \/ stage = "results" /\ stage' \in {"render", "store", "done"}
    BY <1>8 DEF Sanitize, MatchTemplate, Respond
  <2> QED
    BY <1>1, <2>1 DEF Counts, Measure
<1> QED
  BY <1>2, <1>3, <1>4, <1>5, <1>6, <1>7, <1>8 DEF Next, Step

\* Every step of a request takes it nearer to its end, whatever the model answers and
\* the tools do: a request takes at most MaxCalls + 11 steps, one per tool call of
\* its plan and three planner calls among them.
StepsRunOut == Measure \in 0..(MaxCalls + 11) /\ Measure' < Measure

THEOREM StepsRunOutAlways == Spec => [][StepsRunOut]_vars
<1>1. TypeOK /\ Inv /\ [Next]_vars => [StepsRunOut]_vars
  BY MeasureStep, CountsHold, MeasureBounded DEF StepsRunOut
<1> QED
  BY <1>1, Invariant, PTL DEF Spec
=============================================================================
