----------------------------- MODULE TurnEngine -----------------------------
(***************************************************************************)
(* One turn of the assistant: engine/workflow.py runs the nodes of         *)
(* engine/nodes.py over an AgentState until the turn ends or waits for a   *)
(* human.                                                                  *)
(*                                                                         *)
(* The planner, the retriever, the composer and the tool gateway are ports *)
(* of the engine: each answers with anything its contract allows.  A call  *)
(* (a tool name with its arguments) is an element of Calls.  Texts are     *)
(* left out: `reply' says which kind of text the turn delivers.            *)
(*                                                                         *)
(* A definition with no use (NothingRepeats, say) is a likely mistake in   *)
(* the definition after it, which one of the properties would catch.       *)
(***************************************************************************)
EXTENDS Transitions, Naturals

CONSTANTS
    Calls,              \* the tool calls a planner can name
    Writes,             \* those that change ERP data
    Escalated,          \* reads the registry puts in front of a human
    NoCall,             \* tool_name = None
    SearchCall,         \* the retrieval tool, which the gateway never runs
    MaxSteps,           \* WorkflowRuntime.max_steps
    RetryBudget,        \* WorkflowRuntime.tool_retry_budget
    HonoursToolChoice   \* the planner obeys tool_choice and withhold

ASSUME CallsAssumption ==
    /\ Writes \subseteq Calls
    /\ Escalated \subseteq Calls \ Writes
    /\ NoCall \notin Calls
    /\ SearchCall \notin Calls
    /\ SearchCall # NoCall

ASSUME BudgetAssumption ==
    /\ MaxSteps \in Nat
    /\ RetryBudget \in Nat
    /\ HonoursToolChoice \in BOOLEAN

VARIABLES
    route, approval, call, mutating,      \* what the turn is doing
    contract, redirected, draft, evidence, \* what the reply owes and rests on
    succeeded,      \* the calls with an "ok" observation
    reply, failure, \* how the turn ends
    stepCount, retryCount,
    broken,         \* an exception left the engine: "no" or its name
    asked,          \* history: planner calls made by the latest think
    granted,        \* history: how often a human approved each call
    ran             \* history: how often the handler of each call was started

controlVars == <<route, approval, call, mutating>>
basisVars   == <<contract, redirected, draft, evidence>>
endVars     == <<reply, failure>>
countVars   == <<stepCount, retryCount>>
historyVars == <<asked, granted, ran>>
vars == <<controlVars, basisVars, succeeded, endVars, countVars, broken,
          historyVars>>

Needs == {"erp_field", "document_passage"}

FailureModes == {"none", "provider_failure", "insufficient_evidence",
                 "tool_failure", "max_steps_exceeded", "planner_loop",
                 "incomplete_reply"}

Replies == {"none", "answer", "draft", "composed", "clarify", "refuse",
            "no_evidence", "denied"}

\* approval_required of the registry: every write, and the escalated reads.
Gated == Writes \cup Escalated

-----------------------------------------------------------------------------
(***************************************************************************)
(* The planner: reasoning/planner.py.  A decision is a route and, for the  *)
(* two tool routes, a call; "raise" stands for an exception.               *)
(***************************************************************************)
Decision(r, c) == [route |-> r, call |-> c]

ToolDecisions ==
    {Decision(IF c \in Writes THEN "request_approval" ELSE "call_tool", c) :
        c \in Calls}

Plain(rs) == {Decision(r, NoCall) : r \in rs}

AnyDecision ==
    ToolDecisions \cup Plain({"retrieve", "answer", "clarify", "refuse", "fail", "raise"})

\* What plan() returns under each tool_choice.  "required" is only ever asked
\* with the retrieval tool withheld.
Plan(toolChoice) ==
    CASE ~HonoursToolChoice     -> AnyDecision
      [] toolChoice = "auto"     -> AnyDecision
      [] toolChoice = "none"     -> Plain({"answer", "fail", "raise"})
      [] toolChoice = "required" ->
            ToolDecisions \cup Plain({"clarify", "refuse", "fail", "raise"})

(***************************************************************************)
(* The gateway: tools/gateway.py, as the engine sees it.  `started' says   *)
(* whether the handler was entered.                                        *)
(***************************************************************************)
Outcome(s, started) == [status |-> s, started |-> started]

Refusals == {Outcome(s, FALSE) : s \in {"failed", "invalid_arguments",
                                        "denied", "rate_limited"}}

ApprovalGate(c, a) == c \in Gated /\ a # "approved"

Execute(c, a) ==
    Refusals \cup
    IF ApprovalGate(c, a)
    THEN {Outcome(IF a = "denied" THEN "denied" ELSE "approval_required", FALSE)}
    ELSE {Outcome(s, TRUE) : s \in {"ok", "transient_failure", "failed"}}

\* The checks of execute() alone; "raises" is its ValueError.
Preflight(c, a) ==
    Refusals \cup
    IF ApprovalGate(c, a)
    THEN {Outcome(IF a = "denied" THEN "denied" ELSE "approval_required", FALSE)}
    ELSE {Outcome("raises", FALSE)}

(***************************************************************************)
(* The reply contract: reasoning/completeness.py.                          *)
(***************************************************************************)
Satisfied(ev) ==
    contract \cap ({n \in {"document_passage"} : ev} \cup
                   {n \in {"erp_field"} : succeeded # {}})

Missing(ev) == contract \ Satisfied(ev)

\* The first missing need, fields before passages, not redirected before.
NextRedirect(missing) ==
    LET open == missing \ redirected
    IN  IF "erp_field" \in open THEN "erp_field"
        ELSE IF "document_passage" \in open THEN "document_passage"
        ELSE "none"

-----------------------------------------------------------------------------
IsPaused == route = "request_approval" /\ approval = "pending"

IsTerminal == route \in TerminalRoutes

\* run() goes round its loop again.
Running == broken = "no" /\ ~IsTerminal /\ ~IsPaused

\* The routes with a node behind them: GraphNodes.table.
NodeTable == {Unrouted, "think", "retrieve", "call_tool"}

\* advance(): a move the table forbids raises IllegalTransition and the turn
\* is lost, whatever else the step had prepared.
AdvanceUnder(recorded, target, declared) ==
    IF LegalMove(route, target, declared, recorded)
    THEN route' = target /\ UNCHANGED broken
    ELSE broken' = "IllegalTransition" /\ UNCHANGED route

Advance(target, declared) == AdvanceUnder(approval, target, declared)

\* One more node execution inside the budget.
Enter(routes) ==
    /\ Running
    /\ stepCount < MaxSteps
    /\ route \in routes
    /\ stepCount' = stepCount + 1

EndWith(text, why) == reply' = text /\ failure' = why

Init ==
    /\ route = Unrouted /\ approval = "not_required"
    /\ call = NoCall /\ mutating = FALSE
    /\ contract \in SUBSET Needs
    /\ redirected = {} /\ draft = FALSE /\ evidence = FALSE
    /\ succeeded = {}
    /\ reply = "none" /\ failure = "none"
    /\ stepCount = 0 /\ retryCount = 0
    /\ broken = "no"
    /\ asked = 0
    /\ granted = [c \in Calls |-> 0]
    /\ ran = [c \in Calls |-> 0]

-----------------------------------------------------------------------------
(***************************************************************************)
(* think.  A think first obtains its decision: the planner's own, or, when *)
(* that one repeats a call that already succeeded, the one it makes with   *)
(* the tools withheld (forced).                                            *)
(***************************************************************************)
NothingRepeats(d) == FALSE

RepeatsASuccess(d) == d.call \in succeeded

Unforced ==
    {[decision |-> d, forced |-> FALSE, plans |-> 1] :
        d \in {x \in Plan("auto") : ~RepeatsASuccess(x)}}

Forced ==
    {[decision |-> d, forced |-> TRUE, plans |-> 2] :
        d \in {x \in Plan("none") : \E y \in Plan("auto") : RepeatsASuccess(y)}}

FailTurn(why) ==
    /\ Advance("fail", "undeclared")
    /\ EndWith("none", why)
    /\ UNCHANGED <<approval, call, mutating, draft>>

(***************************************************************************)
(* The last part of think: act on a decision.  `missing' is what the gate  *)
(* found missing before any redirect, {} on the routes it does not check.  *)
(***************************************************************************)
ActRetrieve(d) ==
    /\ d.route = "retrieve"
    /\ Advance("retrieve", "undeclared")
    /\ call' = SearchCall /\ mutating' = FALSE
    /\ UNCHANGED <<approval, draft, endVars>>

\* A write is put to a human only after the gateway agrees it could run.
WaitForHuman ==
    /\ Advance("request_approval", "undeclared")
    /\ approval' = "pending"
    /\ UNCHANGED endVars

\* preflight refused the call, or raised because nothing gates it.
PreflightStops(outcome) ==
    /\ IF outcome.status = "raises"
       THEN broken' = "ValueError" /\ UNCHANGED route
       ELSE Advance("fail", "undeclared")
    /\ EndWith("none", "tool_failure")
    /\ UNCHANGED approval

ApprovedOnceForAll(d) ==
    /\ d.route = "request_approval"
    /\ IF approval = "approved"
       THEN Advance("call_tool", "writes") /\ UNCHANGED <<approval, endVars>>
       ELSE WaitForHuman
    /\ call' = d.call /\ mutating' = (d.call \in Writes)
    /\ UNCHANGED draft

ActRequestApproval(d) ==
    /\ d.route = "request_approval"
    /\ \E o \in Preflight(d.call, "not_required") :
         IF o.status = "approval_required" THEN WaitForHuman ELSE PreflightStops(o)
    /\ call' = d.call /\ mutating' = (d.call \in Writes)
    /\ UNCHANGED draft

ActCallTool(d) ==
    /\ d.route = "call_tool"
    /\ Advance("call_tool", DeclaredAs(d.call \in Writes))
    /\ call' = d.call /\ mutating' = (d.call \in Writes)
    /\ UNCHANGED <<approval, draft, endVars>>

ActAnswerUnassessed(d, missing) ==
    /\ d.route = "answer"
    /\ Advance("answer", "undeclared")
    /\ EndWith("answer", "none")
    /\ UNCHANGED <<approval, call, mutating, draft>>

ActAnswer(d, missing) ==
    /\ d.route = "answer"
    /\ Advance("answer", "undeclared")
    /\ EndWith("answer", IF missing # {} THEN "incomplete_reply" ELSE "none")
    /\ UNCHANGED <<approval, call, mutating, draft>>

ActSay(d) ==
    /\ d.route \in {"clarify", "refuse"}
    /\ Advance(d.route, "undeclared")
    /\ EndWith(d.route, "none")
    /\ UNCHANGED <<approval, call, mutating, draft>>

ActFail(d, forced) ==
    /\ d.route = "fail"
    /\ FailTurn(IF forced THEN "planner_loop" ELSE "provider_failure")

Act(d, forced, missing) ==
    \/ ActRetrieve(d)
    \/ ActRequestApproval(d)
    \/ ActCallTool(d)
    \/ ActAnswer(d, missing)
    \/ ActSay(d)
    \/ ActFail(d, forced)

-----------------------------------------------------------------------------
GateAnswersOnly(d) ==
    IF d.route \in {"answer", "retrieve"} THEN Missing(evidence) ELSE {}

\* What the completeness gate of think reads: only the routes that claim
\* something about what could be found are held to the contract.
GateMissing(d) ==
    IF d.route \in {"answer", "retrieve", "refuse"} THEN Missing(evidence) ELSE {}

PlannerRaises(c) ==
    /\ c.decision.route = "raise"
    /\ FailTurn("provider_failure")
    /\ asked' = c.plans
    /\ UNCHANGED redirected

\* The tools were withheld and the planner named one anyway.
ForcedCallNamed(c) ==
    /\ c.forced /\ c.decision.route \notin {"answer", "fail", "raise"}
    /\ FailTurn("planner_loop")
    /\ asked' = c.plans
    /\ UNCHANGED redirected

\* The decision is one the gate looks at.
Accepted(c) ==
    /\ c.decision.route # "raise"
    /\ c.forced => c.decision.route \in {"answer", "fail"}

\* A field is missing: the planner is asked again, a call required and search
\* withheld.  Its second decision is acted on as it is, with the first gap.
RedirectToField(c) ==
    /\ Accepted(c)
    /\ NextRedirect(GateMissing(c.decision)) = "erp_field"
    /\ redirected' = redirected \cup {"erp_field"}
    /\ asked' = c.plans + 1
    /\ \E d \in Plan("required") :
         IF d.route = "raise" THEN FailTurn("provider_failure")
         ELSE Act(d, c.forced, GateMissing(c.decision))

\* A passage is missing: an answer or a refusal is withheld and the contract's
\* query searched.  Only a withheld answer is kept as the draft.
RedirectToPassage(c) ==
    /\ Accepted(c)
    /\ NextRedirect(GateMissing(c.decision)) = "document_passage"
    /\ c.decision.route \in {"answer", "refuse"}
    /\ Advance("retrieve", "undeclared")
    /\ call' = SearchCall /\ mutating' = FALSE
    /\ draft' = (c.decision.route = "answer")
    /\ redirected' = redirected \cup {"document_passage"}
    /\ asked' = c.plans
    /\ UNCHANGED <<approval, endVars>>

ActOnDecision(c) ==
    /\ Accepted(c)
    /\ \/ NextRedirect(GateMissing(c.decision)) = "none"
       \/ /\ NextRedirect(GateMissing(c.decision)) = "document_passage"
          /\ c.decision.route = "retrieve"
    /\ Act(c.decision, c.forced, GateMissing(c.decision))
    /\ asked' = c.plans
    /\ UNCHANGED redirected

Think ==
    /\ Enter({Unrouted, "think"})
    /\ \E c \in Unforced \cup Forced :
         \/ PlannerRaises(c)
         \/ ForcedCallNamed(c)
         \/ RedirectToField(c)
         \/ RedirectToPassage(c)
         \/ ActOnDecision(c)
    /\ UNCHANGED <<contract, evidence, succeeded, retryCount, granted, ran>>

-----------------------------------------------------------------------------
(***************************************************************************)
(* retrieve_and_answer.  Every branch ends the turn.                       *)
(***************************************************************************)
Redirected == "document_passage" \in redirected /\ draft

DeliverDraft == Advance("answer", "undeclared") /\ EndWith("draft", "incomplete_reply")

RefuseWithoutEvidence ==
    /\ Advance("refuse", "undeclared")
    /\ EndWith("no_evidence", "insufficient_evidence")

ProviderFails == Advance("fail", "undeclared") /\ EndWith("none", "provider_failure")

RetrieverRaises == ProviderFails /\ UNCHANGED evidence

NothingFound ==
    /\ IF Redirected THEN DeliverDraft ELSE RefuseWithoutEvidence
    /\ evidence' = FALSE

\* The composer's reply did not validate, or it raised something else.
ComposerRaises(isValidationError) ==
    /\ IF Redirected /\ isValidationError THEN DeliverDraft ELSE ProviderFails
    /\ evidence' = TRUE

\* The composer refused, cited nothing, or cited what was never retrieved.
Ungrounded ==
    /\ IF Redirected THEN DeliverDraft ELSE RefuseWithoutEvidence
    /\ evidence' = TRUE

ComposedAnswer ==
    /\ Advance("answer", "undeclared")
    /\ EndWith("composed", IF Missing(TRUE) # {} THEN "incomplete_reply" ELSE "none")
    /\ evidence' = TRUE

Retrieve ==
    /\ Enter({"retrieve"})
    /\ \/ RetrieverRaises
       \/ NothingFound
       \/ \E isValidationError \in BOOLEAN : ComposerRaises(isValidationError)
       \/ Ungrounded
       \/ ComposedAnswer
    /\ UNCHANGED <<approval, call, mutating, contract, redirected, draft,
                   succeeded, retryCount, historyVars>>

-----------------------------------------------------------------------------
(***************************************************************************)
(* execute_tool: hand the call and the recorded approval to the gateway    *)
(* and route on the status that comes back.                                *)
(***************************************************************************)
Succeeds(o) ==
    /\ o.status = "ok"
    /\ Advance("think", DeclaredAs(mutating))
    /\ succeeded' = succeeded \cup {call}
    /\ UNCHANGED <<approval, endVars, retryCount>>

ThrottledOffByOne(o) ==
    /\ o.status = "rate_limited"
    /\ IF retryCount > RetryBudget
       THEN Advance("fail", DeclaredAs(mutating)) /\ UNCHANGED <<endVars, retryCount>>
       ELSE retryCount' = retryCount + 1 /\ UNCHANGED <<route, broken, endVars>>
    /\ UNCHANGED <<approval, succeeded>>

Throttled(o) ==
    /\ o.status = "rate_limited"
    /\ IF retryCount >= RetryBudget
       THEN /\ Advance("fail", DeclaredAs(mutating))
            /\ EndWith("none", "tool_failure")
            /\ UNCHANGED retryCount
       ELSE retryCount' = retryCount + 1 /\ UNCHANGED <<route, broken, endVars>>
    /\ UNCHANGED <<approval, succeeded>>

EscalatedUndeclared(o) ==
    /\ o.status = "approval_required"
    /\ Advance("request_approval", "undeclared")
    /\ approval' = "pending"
    /\ UNCHANGED <<succeeded, endVars, retryCount>>

EscalatedByPolicy(o) ==
    /\ o.status = "approval_required"
    /\ Advance("request_approval", DeclaredAs(mutating))
    /\ approval' = "pending"
    /\ UNCHANGED <<succeeded, endVars, retryCount>>

ToolFails(o) ==
    /\ o.status \notin {"ok", "rate_limited", "approval_required"}
    /\ Advance("fail", DeclaredAs(mutating))
    /\ EndWith("none", "tool_failure")
    /\ UNCHANGED <<approval, succeeded, retryCount>>

ExecuteTool ==
    /\ Enter({"call_tool"})
    /\ \E o \in Execute(call, approval) :
         /\ Succeeds(o) \/ Throttled(o) \/ EscalatedByPolicy(o) \/ ToolFails(o)
         /\ ran' = IF o.started THEN [ran EXCEPT ![call] = @ + 1] ELSE ran
    /\ UNCHANGED <<call, mutating, basisVars, asked, granted>>

OutOfBudgetTooLate ==
    /\ Running
    /\ stepCount > MaxSteps
    /\ Advance("fail", "undeclared")
    /\ UNCHANGED <<approval, call, mutating, basisVars, succeeded, endVars,
                   countVars, historyVars>>

\* The budget is spent before the next node would be entered.
OutOfBudget ==
    /\ Running
    /\ stepCount >= MaxSteps
    /\ Advance("fail", IF route = "call_tool" THEN DeclaredAs(mutating) ELSE "undeclared")
    /\ EndWith("none", "max_steps_exceeded")
    /\ UNCHANGED <<approval, call, mutating, basisVars, succeeded, countVars,
                   historyVars>>

-----------------------------------------------------------------------------
(***************************************************************************)
(* resume_approval: the only way a paused turn moves.                      *)
(***************************************************************************)
Approve ==
    /\ broken = "no" /\ IsPaused
    /\ approval' = "approved"
    /\ AdvanceUnder("approved", "call_tool", DeclaredAs(mutating))
    /\ granted' = [granted EXCEPT ![call] = @ + 1]
    /\ UNCHANGED <<call, mutating, basisVars, succeeded, endVars, countVars,
                   asked, ran>>

Deny ==
    /\ broken = "no" /\ IsPaused
    /\ approval' = "denied"
    /\ AdvanceUnder("denied", "refuse", "undeclared")
    /\ EndWith("denied", "none")
    /\ UNCHANGED <<call, mutating, basisVars, succeeded, countVars, historyVars>>

Engine == Think \/ Retrieve \/ ExecuteTool \/ OutOfBudget

Human == Approve \/ Deny

Next == Engine \/ Human

Spec == Init /\ [][Next]_vars

\* run() is a loop over ports that all answer; the human may never do.
FairSpec == Spec /\ WF_vars(Engine)

-----------------------------------------------------------------------------
\* Every field of the turn and every history variable keeps its type.
TypeOK ==
    /\ route \in Routes /\ approval \in Approvals
    /\ call \in Calls \cup {NoCall, SearchCall} /\ mutating \in BOOLEAN
    /\ contract \in SUBSET Needs /\ redirected \in SUBSET Needs
    /\ draft \in BOOLEAN /\ evidence \in BOOLEAN
    /\ succeeded \in SUBSET Calls
    /\ reply \in Replies /\ failure \in FailureModes
    /\ stepCount \in 0..MaxSteps /\ retryCount \in 0..RetryBudget
    /\ broken \in {"no", "IllegalTransition", "ValueError"}
    /\ asked \in 0..3
    /\ granted \in [Calls -> Nat] /\ ran \in [Calls -> Nat]

\* No exception leaves the engine: every move a node makes is declared in the
\* transition table with the tool's effect stated, preflight is asked only
\* about calls something stops, and a running turn is on a route that has a
\* node (UnroutableState).
NothingEscapes ==
    /\ broken = "no"
    /\ Running => route \in NodeTable

\* The handler of a write is started at most once per approval of that call,
\* though the recorded approval stays on the state after the call has run.
WritesAreGranted == \A c \in Writes : ran[c] <= granted[c]

\* A call that has succeeded is never started again in the same turn, whether
\* the planner repeats it, a redirect requires a call or a wait is retried.
SuccessIsNotRepeated ==
    [][\A c \in succeeded : ran'[c] = ran[c]]_vars

\* An answer delivered without a mark rests on everything the reply contract
\* named, whichever node delivered it and after whatever redirect.
UnmarkedAnswersAreComplete ==
    (IsTerminal /\ route = "answer" /\ failure = "none") => Missing(evidence) = {}

\* A refusal the planner chose never ends the turn before one of the missing
\* needs has been redirected.
RefusalSpentARedirect ==
    (reply = "refuse" /\ Missing(evidence) # {}) => redirected \cap contract # {}

\* One think asks the planner at most twice: the repeat guard and the field
\* redirect exclude each other, because a success is also a field.
PlannerAskedAtMostTwice == asked <= 2

\* The engine always comes to rest: in the end the turn is over, or waits for
\* a human who never answers.
TurnSettles == <>[]~Running

(***************************************************************************)
(* The engine implements the approval gate.                                *)
(***************************************************************************)
phase ==
    IF IsTerminal \/ broken # "no" THEN "over"
    ELSE IF IsPaused THEN "waiting" ELSE "running"

Gate == INSTANCE HumanGate

\* Seen through its phase, its approvals and its handler starts, every turn
\* behaves as HumanGate allows.
ImplementsGate == Gate!Spec

(***************************************************************************)
(* The inductive invariant.  The approval on the state outlives the call   *)
(* it was given for, so WritesAreGranted needs to know that a write on its *)
(* way to the gateway has an approval no start has used, and that a pause  *)
(* is the only place approval is pending.                                  *)
(***************************************************************************)
\* A pause is the only place where the approval is pending.
PauseInv == approval = "pending" <=> route = "request_approval"

\* The turn's note of what its call does agrees with the registry.
EffectInv == mutating <=> call \in Writes

\* A turn about to run or to ask for a call names one that has not succeeded.
CallInv ==
    route \in {"call_tool", "request_approval"} =>
        call \in Calls /\ call \notin succeeded

\* A write on its way to the gateway has an approval no start has used.
GrantInv ==
    (route = "call_tool" /\ call \in Writes) =>
        approval = "approved" /\ ran[call] < granted[call]

\* A turn that carries the planner's refusal is over.
ReplyInv ==
    /\ UnmarkedAnswersAreComplete
    /\ RefusalSpentARedirect
    /\ reply = "refuse" => IsTerminal

\* Every step of the engine and of the human preserves this conjunction.
EngineInv ==
    /\ TypeOK
    /\ broken = "no"
    /\ PauseInv
    /\ EffectInv
    /\ CallInv
    /\ GrantInv
    /\ WritesAreGranted
    /\ ReplyInv
    /\ PlannerAskedAtMostTwice

(***************************************************************************)
(* What the repository's own comments say and the code does not do.        *)
(***************************************************************************)
\* engine/workflow.py: "An approved call runs".  A human is asked only while
\* the step budget leaves a step to run the call in.
ApprovedCallCanRun == IsPaused => stepCount < MaxSteps

\* engine/nodes.py: a refusal "is untested until the need the contract itself
\* declared has actually been looked for".  A refusal the planner chose stands
\* only once every need of the contract is met or has been redirected.
RefusalWasTested ==
    reply = "refuse" => contract \subseteq Satisfied(evidence) \cup redirected

=============================================================================
