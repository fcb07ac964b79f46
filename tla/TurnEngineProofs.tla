-------------------------- MODULE TurnEngineProofs --------------------------
(***************************************************************************)
(* What TurnEngine guarantees for every set of calls and every budget.     *)
(***************************************************************************)
EXTENDS TurnEngine, TLAPS

(***************************************************************************)
(* Facts about the operators the engine is built from.                     *)
(***************************************************************************)
DecisionOK(d) ==
    /\ d.route \in DecisionRoutes \cup {"raise"} /\ d.route # "think"
    /\ d.call \in Calls \cup {NoCall}
    /\ d.route = "request_approval" => d.call \in Writes
    /\ d.route = "call_tool" => d.call \in Calls \ Writes
    /\ d.route \notin {"request_approval", "call_tool"} => d.call = NoCall

\* Whatever tool_choice is, a decision names a write on request_approval, a
\* read on call_tool and no call elsewhere.
LEMMA PlanFacts ==
    ASSUME NEW tc \in {"auto", "none", "required"}, NEW d \in Plan(tc)
    PROVE  DecisionOK(d)
<1>1. d \in AnyDecision
  BY DEF Plan, AnyDecision, Plain, ToolDecisions
<1>2. CASE d \in ToolDecisions
  BY <1>2, CallsAssumption DEF ToolDecisions, Decision, DecisionOK, DecisionRoutes, TerminalRoutes
<1>3. CASE d \in Plain({"retrieve", "answer", "clarify", "refuse", "fail", "raise"})
  BY <1>3 DEF Plain, Decision, DecisionOK, DecisionRoutes, TerminalRoutes
<1>4. QED
  BY <1>1, <1>2, <1>3 DEF AnyDecision

\* The decision a think acts on is the planner's own and new, or was forced
\* after a success.
LEMMA ChoiceFacts ==
    ASSUME NEW c \in Unforced \cup Forced
    PROVE  /\ DecisionOK(c.decision)
           /\ c.forced \in BOOLEAN
           /\ c.forced => c.plans = 2 /\ succeeded # {}
           /\ ~c.forced => c.plans = 1 /\ c.decision.call \notin succeeded
<1>1. CASE c \in Unforced
  <2>1. PICK d \in Plan("auto") :
          /\ d.call \notin succeeded
          /\ c = [decision |-> d, forced |-> FALSE, plans |-> 1]
    BY <1>1 DEF Unforced, RepeatsASuccess
  <2>2. DecisionOK(d)
    BY PlanFacts
  <2>3. QED
    BY <2>1, <2>2
<1>2. CASE c \in Forced
  <2>1. PICK d \in Plan("none"), y \in Plan("auto") :
          /\ y.call \in succeeded
          /\ c = [decision |-> d, forced |-> TRUE, plans |-> 2]
    BY <1>2 DEF Forced, RepeatsASuccess
  <2>2. DecisionOK(d)
    BY PlanFacts
  <2>3. QED
    BY <2>1, <2>2
<1>3. QED
  BY <1>1, <1>2

\* The moves a thinking turn makes are all declared; only the move to a tool
\* call has to state the tool's effect.
LEMMA MovesFromThink ==
    ASSUME NEW o \in {Unrouted, "think"}, NEW t \in DecisionRoutes \ {"think"},
           NEW a \in Approvals
    PROVE  /\ t # "call_tool" => LegalMove(o, t, "undeclared", a)
           /\ LegalMove(o, t, DeclaredAs(FALSE), a)
BY DEF LegalMove, Allowed, Routes, DecisionRoutes, TerminalRoutes, Unrouted,
       DeclaredAs, Approvals

-----------------------------------------------------------------------------
(***************************************************************************)
(* EngineInv holds at first.                                               *)
(***************************************************************************)
LEMMA InitEstablishes == Init => EngineInv
<1> SUFFICES ASSUME Init PROVE EngineInv
  OBVIOUS
<1>1. TypeOK
  <2>1. stepCount \in 0..MaxSteps /\ retryCount \in 0..RetryBudget /\ asked \in 0..3
    BY BudgetAssumption DEF Init
  <2>2. granted \in [Calls -> Nat] /\ ran \in [Calls -> Nat]
    BY DEF Init
  <2>3. QED
    BY <2>1, <2>2
       DEF Init, TypeOK, Routes, Unrouted, Approvals, Replies, FailureModes
<1>2. EffectInv
  BY CallsAssumption DEF Init, EffectInv
<1>3. WritesAreGranted
  BY CallsAssumption DEF Init, WritesAreGranted
<1>4. broken = "no" /\ PauseInv /\ CallInv /\ GrantInv /\ PlannerAskedAtMostTwice
  BY DEF Init, PauseInv, CallInv, GrantInv, PlannerAskedAtMostTwice, Unrouted
<1>5. ReplyInv
  BY DEF Init, ReplyInv, UnmarkedAnswersAreComplete, RefusalSpentARedirect,
         IsTerminal, TerminalRoutes, Unrouted
<1>6. QED
  BY <1>1, <1>2, <1>3, <1>4, <1>5 DEF EngineInv

-----------------------------------------------------------------------------
(***************************************************************************)
(* think.                                                                  *)
(***************************************************************************)
\* What acting on decision d may do to the turn.
ActResult(d, missing) ==
    /\ broken' = "no"
    /\ draft' = draft
    /\ \/ /\ route' = "retrieve" /\ call' = SearchCall /\ mutating' = FALSE
          /\ UNCHANGED <<approval, reply, failure>>
       \/ /\ route' = "request_approval" /\ approval' = "pending"
          /\ call' = d.call /\ d.call \in Writes /\ mutating' = TRUE
          /\ d.route = "request_approval"
          /\ UNCHANGED <<reply, failure>>
       \/ /\ route' = "call_tool"
          /\ call' = d.call /\ d.call \in Calls \ Writes /\ mutating' = FALSE
          /\ d.route = "call_tool"
          /\ UNCHANGED <<approval, reply, failure>>
       \/ /\ route' = "answer" /\ reply' = "answer" /\ d.route = "answer"
          /\ failure' \in {"none", "incomplete_reply"}
          /\ failure' = "none" => missing = {}
          /\ UNCHANGED <<approval, call, mutating>>
       \/ /\ route' \in {"clarify", "refuse"} /\ reply' = d.route /\ route' = d.route
          /\ failure' = "none"
          /\ UNCHANGED <<approval, call, mutating>>
       \/ /\ route' = "fail" /\ reply' = "none" /\ failure' \in FailureModes
          /\ UNCHANGED approval
          /\ \/ UNCHANGED <<call, mutating>>
             \/ call' = d.call /\ d.call \in Writes /\ mutating' = TRUE

LEMMA ActFacts ==
    ASSUME TypeOK, broken = "no", route \in {Unrouted, "think"},
           NEW d, DecisionOK(d), NEW forced \in BOOLEAN, NEW missing,
           Act(d, forced, missing)
    PROVE  ActResult(d, missing)
<1>0. approval \in Approvals
  BY DEF TypeOK
<1>1. CASE ActRetrieve(d)
  BY <1>0, <1>1, MovesFromThink DEF ActRetrieve, Advance, AdvanceUnder, ActResult,
     endVars, DecisionRoutes
<1>2. CASE ActRequestApproval(d)
  <2>1. d.call \in Writes /\ d.route = "request_approval"
    BY <1>2 DEF ActRequestApproval, DecisionOK
  <2>2. PICK o \in Preflight(d.call, "not_required") :
          IF o.status = "approval_required" THEN WaitForHuman ELSE PreflightStops(o)
    BY <1>2 DEF ActRequestApproval
  <2>3. o.status # "raises"
    BY <2>1 DEF Preflight, ApprovalGate, Gated, Refusals, Outcome
  <2>4. call' = d.call /\ mutating' = TRUE /\ draft' = draft
    BY <1>2, <2>1 DEF ActRequestApproval
  <2>5. CASE o.status = "approval_required"
    BY <1>0, <2>1, <2>2, <2>4, <2>5, MovesFromThink
       DEF WaitForHuman, Advance, AdvanceUnder, ActResult, endVars, DecisionRoutes
  <2>6. CASE o.status # "approval_required"
    BY <1>0, <2>1, <2>2, <2>3, <2>4, <2>6, MovesFromThink
       DEF PreflightStops, Advance, AdvanceUnder, ActResult, EndWith,
           FailureModes, DecisionRoutes, TerminalRoutes
  <2>7. QED
    BY <2>5, <2>6
<1>3. CASE ActCallTool(d)
  <2>1. d.call \in Calls \ Writes
    BY <1>3 DEF ActCallTool, DecisionOK
  <2>2. mutating' = FALSE
    <3>1. mutating' = (d.call \in Writes)
      BY <1>3 DEF ActCallTool
    <3>2. (d.call \in Writes) = FALSE
      BY <2>1
    <3>3. QED
      BY <3>1, <3>2
  <2>3. LegalMove(route, "call_tool", DeclaredAs(d.call \in Writes), approval)
    <3>1. DeclaredAs(d.call \in Writes) = "reads"
      BY <2>1 DEF DeclaredAs
    <3>2. LegalMove(route, "call_tool", "reads", approval)
      BY <1>0, MovesFromThink DEF DeclaredAs, DecisionRoutes
    <3>3. QED
      BY <3>1, <3>2
  <2>4. route' = "call_tool" /\ broken' = "no"
    BY <1>3, <2>3 DEF ActCallTool, Advance, AdvanceUnder
  <2>5. QED
    BY <1>3, <2>1, <2>2, <2>4 DEF ActCallTool, ActResult, endVars
<1>4. CASE ActAnswer(d, missing)
  BY <1>0, <1>4, MovesFromThink DEF ActAnswer, Advance, AdvanceUnder, ActResult,
     EndWith, DecisionRoutes, TerminalRoutes
<1>5. CASE ActSay(d)
  BY <1>0, <1>5, MovesFromThink DEF ActSay, Advance, AdvanceUnder, ActResult,
     EndWith, DecisionRoutes, TerminalRoutes
<1>6. CASE ActFail(d, forced)
  BY <1>0, <1>6, MovesFromThink DEF ActFail, FailTurn, Advance, AdvanceUnder,
     ActResult, EndWith, DecisionRoutes, TerminalRoutes, FailureModes
<1>7. QED
  BY <1>1, <1>2, <1>3, <1>4, <1>5, <1>6 DEF Act

\* What a think may do to the turn, whichever way it took its decision.
ThinkResult ==
    /\ broken' = "no"
    /\ draft' \in BOOLEAN /\ redirected' \in SUBSET Needs /\ asked' \in {1, 2}
    /\ route' \in DecisionRoutes \ {"think"}
    /\ call' \in Calls \cup {NoCall, SearchCall}
    /\ mutating' \in BOOLEAN /\ (mutating' <=> call' \in Writes)
    /\ approval' = IF route' = "request_approval" THEN "pending" ELSE approval
    /\ route' \in {"call_tool", "request_approval"} =>
          call' \in Calls /\ call' \notin succeeded
    /\ route' = "call_tool" => call' \notin Writes
    /\ reply' \in Replies /\ failure' \in FailureModes
    /\ (route' = "answer" /\ failure' = "none") => Missing(evidence) = {}
    /\ reply' = "refuse" =>
          /\ route' = "refuse"
          /\ Missing(evidence) # {} => redirected' \cap contract # {}

LEMMA ActGivesResult ==
    ASSUME EngineInv, route \in {Unrouted, "think"},
           NEW d, DecisionOK(d), d.call \notin succeeded, NEW missing,
           ActResult(d, missing),
           redirected' \in SUBSET Needs, asked' \in {1, 2},
           (d.route = "answer" /\ missing = {}) => Missing(evidence) = {},
           (d.route = "refuse" /\ Missing(evidence) # {}) =>
                redirected' \cap contract # {}
    PROVE  ThinkResult
<1>1. TypeOK /\ EffectInv /\ PauseInv /\ ReplyInv
  BY DEF EngineInv
<1>2. reply # "refuse"
  BY <1>1 DEF ReplyInv, IsTerminal, TerminalRoutes, Unrouted
<1>3. approval # "pending"
  BY <1>1 DEF PauseInv, Unrouted
<1>4. draft' \in BOOLEAN
  BY <1>1 DEF TypeOK, ActResult
<1>5. broken' = "no"
  BY DEF ActResult
<1>6. CASE /\ route' = "retrieve" /\ call' = SearchCall /\ mutating' = FALSE
           /\ UNCHANGED <<approval, reply, failure>>
  BY <1>1, <1>2, <1>4, <1>5, <1>6, CallsAssumption DEF ThinkResult, TypeOK, DecisionRoutes
<1>7. CASE /\ route' = "request_approval" /\ approval' = "pending"
           /\ call' = d.call /\ d.call \in Writes /\ mutating' = TRUE
           /\ UNCHANGED <<reply, failure>>
  BY <1>1, <1>2, <1>4, <1>5, <1>7, CallsAssumption DEF ThinkResult, TypeOK, DecisionRoutes
<1>8. CASE /\ route' = "call_tool"
           /\ call' = d.call /\ d.call \in Calls \ Writes /\ mutating' = FALSE
           /\ UNCHANGED <<approval, reply, failure>>
  BY <1>1, <1>2, <1>4, <1>5, <1>8 DEF ThinkResult, TypeOK, DecisionRoutes
<1>9. CASE /\ route' = "answer" /\ reply' = "answer" /\ d.route = "answer"
           /\ failure' \in {"none", "incomplete_reply"}
           /\ failure' = "none" => missing = {}
           /\ UNCHANGED <<approval, call, mutating>>
  BY <1>1, <1>4, <1>5, <1>9
     DEF ThinkResult, TypeOK, EffectInv, DecisionRoutes, TerminalRoutes, Replies, FailureModes
<1>10. CASE /\ route' \in {"clarify", "refuse"} /\ reply' = d.route /\ route' = d.route
            /\ failure' = "none"
            /\ UNCHANGED <<approval, call, mutating>>
  BY <1>1, <1>4, <1>5, <1>10
     DEF ThinkResult, TypeOK, EffectInv, DecisionRoutes, TerminalRoutes, Replies, FailureModes
<1>11. CASE /\ route' = "fail" /\ reply' = "none" /\ failure' \in FailureModes
            /\ UNCHANGED approval
            /\ \/ UNCHANGED <<call, mutating>>
               \/ call' = d.call /\ d.call \in Writes /\ mutating' = TRUE
  <2>1. CASE UNCHANGED <<call, mutating>>
    BY <1>1, <1>4, <1>5, <1>11, <2>1
       DEF ThinkResult, TypeOK, EffectInv, DecisionRoutes, TerminalRoutes, Replies
  <2>2. CASE call' = d.call /\ d.call \in Writes /\ mutating' = TRUE
    BY <1>4, <1>5, <1>11, <2>2, CallsAssumption
       DEF ThinkResult, DecisionRoutes, TerminalRoutes, Replies
  <2>3. QED
    BY <1>11, <2>1, <2>2
<1>12. QED
  BY <1>6, <1>7, <1>8, <1>9, <1>10, <1>11 DEF ActResult

LEMMA FailGivesResult ==
    ASSUME EngineInv, route \in {Unrouted, "think"},
           NEW why \in FailureModes, FailTurn(why),
           redirected' \in SUBSET Needs, asked' \in {1, 2}
    PROVE  ThinkResult
<1>1. TypeOK /\ EffectInv /\ broken = "no"
  BY DEF EngineInv
<1>2. approval \in Approvals
  BY <1>1 DEF TypeOK
<1>3. LegalMove(route, "fail", "undeclared", approval)
  BY <1>2, MovesFromThink DEF DecisionRoutes, TerminalRoutes
<1>4. route' = "fail" /\ broken' = "no"
  BY <1>1, <1>3 DEF FailTurn, Advance, AdvanceUnder
<1>5. QED
  BY <1>1, <1>4
     DEF FailTurn, EndWith, ThinkResult, TypeOK, EffectInv, DecisionRoutes,
         TerminalRoutes, Replies

\* A refused or answered turn has no need left to redirect, or is redirected.
LEMMA RedirectFacts ==
    ASSUME TypeOK, NEW missing, missing \subseteq Missing(evidence)
    PROVE  /\ NextRedirect(missing) = "erp_field" =>
                 /\ "erp_field" \in contract /\ "erp_field" \in missing
                 /\ succeeded = {}
           /\ (NextRedirect(missing) = "none" /\ missing # {}) =>
                 redirected \cap contract # {}
BY DEF NextRedirect, Missing, Satisfied, TypeOK, Needs

LEMMA GateFacts ==
    ASSUME NEW d
    PROVE  /\ GateMissing(d) \subseteq Missing(evidence)
           /\ d.route \in {"answer", "retrieve", "refuse"} =>
                 GateMissing(d) = Missing(evidence)
BY DEF GateMissing

LEMMA ThinkGivesResult ==
    ASSUME EngineInv, Think
    PROVE  ThinkResult
<1>1. TypeOK /\ broken = "no"
  BY DEF EngineInv
<1>2. route \in {Unrouted, "think"}
  BY DEF Think, Enter
<1>3. PICK c \in Unforced \cup Forced :
        \/ PlannerRaises(c) \/ ForcedCallNamed(c) \/ RedirectToField(c)
        \/ RedirectToPassage(c) \/ ActOnDecision(c)
  BY DEF Think
<1>4. /\ DecisionOK(c.decision)
      /\ c.forced \in BOOLEAN
      /\ c.forced => c.plans = 2 /\ succeeded # {}
      /\ ~c.forced => c.plans = 1 /\ c.decision.call \notin succeeded
  BY ChoiceFacts
<1>5. NoCall \notin succeeded
  BY <1>1, CallsAssumption DEF TypeOK
<1>6. GateMissing(c.decision) \subseteq Missing(evidence)
  BY GateFacts
<1>7. CASE PlannerRaises(c)
  <2>1. redirected' \in SUBSET Needs /\ asked' \in {1, 2}
    BY <1>1, <1>4, <1>7 DEF PlannerRaises, TypeOK
  <2>2. "provider_failure" \in FailureModes
    BY DEF FailureModes
  <2>3. QED
    BY <1>2, <1>7, <2>1, <2>2, FailGivesResult DEF PlannerRaises
<1>8. CASE ForcedCallNamed(c)
  <2>1. redirected' \in SUBSET Needs /\ asked' \in {1, 2}
    BY <1>1, <1>4, <1>8 DEF ForcedCallNamed, TypeOK
  <2>2. "planner_loop" \in FailureModes
    BY DEF FailureModes
  <2>3. QED
    BY <1>2, <1>8, <2>1, <2>2, FailGivesResult DEF ForcedCallNamed
<1>9. CASE RedirectToField(c)
  <2>1. /\ "erp_field" \in contract /\ "erp_field" \in GateMissing(c.decision)
        /\ succeeded = {}
    BY <1>1, <1>6, <1>9, RedirectFacts DEF RedirectToField
  <2>2. c.plans = 1
    BY <1>4, <2>1
  <2>3. redirected' \in SUBSET Needs /\ asked' \in {1, 2} /\ "erp_field" \in redirected'
    BY <1>1, <1>9, <2>2 DEF RedirectToField, TypeOK, Needs
  <2>4. PICK d \in Plan("required") :
          IF d.route = "raise" THEN FailTurn("provider_failure")
          ELSE Act(d, c.forced, GateMissing(c.decision))
    BY <1>9 DEF RedirectToField
  <2>5. DecisionOK(d) /\ d.call \notin succeeded
    BY <2>1, PlanFacts
  <2>6. CASE d.route = "raise"
    <3>1. "provider_failure" \in FailureModes
      BY DEF FailureModes
    <3>2. QED
      BY <1>2, <2>3, <2>4, <2>6, <3>1, FailGivesResult
  <2>7. CASE d.route # "raise"
    <3>1. ActResult(d, GateMissing(c.decision))
      BY <1>1, <1>2, <1>4, <2>4, <2>5, <2>7, ActFacts
    <3>2. GateMissing(c.decision) # {} /\ redirected' \cap contract # {}
      BY <2>1, <2>3
    <3>3. QED
      BY <1>2, <2>3, <2>5, <3>1, <3>2, ActGivesResult
  <2>8. QED
    BY <2>6, <2>7
<1>10. CASE RedirectToPassage(c)
  <2>1. LegalMove(route, "retrieve", "undeclared", approval)
    BY <1>1, <1>2, MovesFromThink DEF TypeOK, DecisionRoutes
  <2>2. route' = "retrieve" /\ broken' = "no"
    BY <1>1, <1>10, <2>1 DEF RedirectToPassage, Advance, AdvanceUnder
  <2>3. reply # "refuse"
    BY <1>2 DEF EngineInv, ReplyInv, IsTerminal, TerminalRoutes, Unrouted
  <2>4. draft' \in BOOLEAN
    BY <1>10 DEF RedirectToPassage
  <2>5. asked' \in {1, 2} /\ redirected' \in SUBSET Needs
    BY <1>1, <1>4, <1>10 DEF RedirectToPassage, TypeOK, Needs
  <2>6. /\ call' = SearchCall /\ mutating' = FALSE
        /\ UNCHANGED <<approval, reply, failure>>
    BY <1>10 DEF RedirectToPassage, endVars
  <2>7. QED
    BY <1>1, <2>2, <2>3, <2>4, <2>5, <2>6, CallsAssumption
       DEF ThinkResult, TypeOK, DecisionRoutes
<1>11. CASE ActOnDecision(c)
  <2>1. Act(c.decision, c.forced, GateMissing(c.decision)) /\ c.decision.route # "raise"
    BY <1>11 DEF ActOnDecision, Accepted
  <2>2. c.decision.call \notin succeeded
    BY <1>4, <1>5, <1>11 DEF ActOnDecision, Accepted, DecisionOK
  <2>3. redirected' = redirected /\ asked' = c.plans
    BY <1>11 DEF ActOnDecision
  <2>4. redirected' \in SUBSET Needs /\ asked' \in {1, 2}
    BY <1>1, <1>4, <2>3 DEF TypeOK
  <2>5. ActResult(c.decision, GateMissing(c.decision))
    BY <1>1, <1>2, <1>4, <2>1, ActFacts
  <2>6. c.decision.route \in {"answer", "refuse"} =>
          GateMissing(c.decision) = Missing(evidence)
    BY GateFacts
  <2>7. (c.decision.route = "refuse" /\ Missing(evidence) # {}) =>
          redirected' \cap contract # {}
    BY <1>1, <1>11, <2>3, <2>6, RedirectFacts DEF ActOnDecision
  <2>8. QED
    BY <1>2, <1>4, <2>2, <2>4, <2>5, <2>6, <2>7, ActGivesResult
<1>12. QED
  BY <1>3, <1>7, <1>8, <1>9, <1>10, <1>11

LEMMA ThinkStep ==
    ASSUME EngineInv, Think
    PROVE  EngineInv'
<1>1. TypeOK /\ WritesAreGranted
  BY DEF EngineInv
<1>2. ThinkResult
  BY ThinkGivesResult
<1>3. UNCHANGED <<contract, evidence, succeeded, retryCount, granted, ran>>
  BY DEF Think
<1>4. stepCount' \in 0..MaxSteps
  BY <1>1, BudgetAssumption DEF Think, Enter, TypeOK
<1>5. Missing(evidence)' = Missing(evidence)
  BY <1>3 DEF Missing, Satisfied
<1>6. TypeOK'
  BY <1>1, <1>2, <1>3, <1>4
     DEF TypeOK, ThinkResult, Routes, DecisionRoutes, Approvals
<1>7. broken' = "no" /\ PlannerAskedAtMostTwice'
  BY <1>2 DEF ThinkResult, PlannerAskedAtMostTwice
<1>8. PauseInv'
  <2>1. approval # "pending"
    BY DEF EngineInv, PauseInv, Think, Enter, Unrouted
  <2>2. QED
    BY <1>2, <2>1 DEF ThinkResult, PauseInv
<1>9. CallInv' /\ GrantInv'
  BY <1>2, <1>3 DEF ThinkResult, CallInv, GrantInv
<1>10. WritesAreGranted'
  BY <1>1, <1>3 DEF WritesAreGranted
<1>11. ReplyInv'
  <2>1. UnmarkedAnswersAreComplete'
    BY <1>2, <1>5 DEF ThinkResult, UnmarkedAnswersAreComplete
  <2>2. RefusalSpentARedirect'
    BY <1>2, <1>3, <1>5 DEF ThinkResult, RefusalSpentARedirect
  <2>3. (reply = "refuse" => IsTerminal)'
    BY <1>2 DEF ThinkResult, IsTerminal, TerminalRoutes
  <2>4. QED
    BY <2>1, <2>2, <2>3 DEF ReplyInv
<1>12. EffectInv'
  BY <1>2, Zenon DEF ThinkResult, EffectInv
<1>13. QED
  BY <1>6, <1>7, <1>8, <1>9, <1>10, <1>11, <1>12 DEF EngineInv

-----------------------------------------------------------------------------
(***************************************************************************)
(* The other nodes, the step budget and the human.                         *)
(***************************************************************************)
LEMMA RetrieveStep ==
    ASSUME EngineInv, Retrieve
    PROVE  EngineInv'
<1>1. TypeOK /\ broken = "no" /\ route = "retrieve"
  BY DEF EngineInv, Retrieve, Enter
<1>2. \A t \in TerminalRoutes : LegalMove(route, t, "undeclared", approval)
  BY <1>1 DEF LegalMove, Allowed, Routes, DecisionRoutes, TerminalRoutes, Unrouted
<1>3. UNCHANGED <<approval, call, mutating, contract, redirected, draft,
                  succeeded, retryCount, asked, granted, ran>>
  BY DEF Retrieve, historyVars
<1>4. /\ broken' = "no" /\ evidence' \in BOOLEAN
      /\ route' \in {"answer", "refuse", "fail"}
      /\ reply' \in {"none", "draft", "composed", "no_evidence"}
      /\ failure' \in FailureModes
      /\ (route' = "answer" /\ failure' = "none") =>
            evidence' = TRUE /\ Missing(TRUE) = {}
  <2>1. CASE RetrieverRaises
    BY <1>1, <1>2, <2>1
       DEF RetrieverRaises, ProviderFails, Advance, AdvanceUnder, EndWith,
           TypeOK, FailureModes, TerminalRoutes
  <2>2. CASE NothingFound
    BY <1>1, <1>2, <2>2
       DEF NothingFound, DeliverDraft, RefuseWithoutEvidence, Advance,
           AdvanceUnder, EndWith, FailureModes, TerminalRoutes
  <2>3. CASE \E isValidationError \in BOOLEAN : ComposerRaises(isValidationError)
    BY <1>1, <1>2, <2>3
       DEF ComposerRaises, DeliverDraft, ProviderFails, Advance,
           AdvanceUnder, EndWith, FailureModes, TerminalRoutes
  <2>4. CASE Ungrounded
    BY <1>1, <1>2, <2>4
       DEF Ungrounded, DeliverDraft, RefuseWithoutEvidence, Advance,
           AdvanceUnder, EndWith, FailureModes, TerminalRoutes
  <2>5. CASE ComposedAnswer
    BY <1>1, <1>2, <2>5
       DEF ComposedAnswer, Advance, AdvanceUnder, EndWith, FailureModes,
           TerminalRoutes
  <2>6. QED
    BY <2>1, <2>2, <2>3, <2>4, <2>5 DEF Retrieve
<1>5. stepCount' \in 0..MaxSteps
  BY <1>1, BudgetAssumption DEF Retrieve, Enter, TypeOK
<1>6. TypeOK'
  BY <1>1, <1>3, <1>4, <1>5
     DEF TypeOK, Routes, DecisionRoutes, TerminalRoutes, Replies
<1>7. EffectInv' /\ PauseInv' /\ CallInv' /\ GrantInv' /\ PlannerAskedAtMostTwice'
  BY <1>1, <1>3, <1>4
     DEF EngineInv, EffectInv, PauseInv, CallInv, GrantInv, PlannerAskedAtMostTwice
<1>8. WritesAreGranted'
  BY <1>3 DEF EngineInv, WritesAreGranted
<1>9. ReplyInv'
  <2>1. (evidence' = TRUE) => Missing(evidence)' = Missing(TRUE)
    BY <1>3 DEF Missing, Satisfied
  <2>2. QED
    BY <1>4, <2>1
       DEF ReplyInv, UnmarkedAnswersAreComplete, RefusalSpentARedirect
<1>10. QED
  BY <1>4, <1>6, <1>7, <1>8, <1>9 DEF EngineInv

LEMMA ExecuteStep ==
    ASSUME EngineInv, ExecuteTool
    PROVE  EngineInv'
<1>1. /\ TypeOK /\ broken = "no" /\ route = "call_tool"
      /\ PauseInv /\ EffectInv /\ CallInv /\ GrantInv /\ WritesAreGranted
      /\ PlannerAskedAtMostTwice
  BY DEF EngineInv, ExecuteTool, Enter
<1>2. call \in Calls /\ call \notin succeeded
  BY <1>1 DEF CallInv
<1>3. call \in Writes => approval = "approved" /\ ran[call] < granted[call]
  BY <1>1 DEF GrantInv
<1>4. mutating \in BOOLEAN /\ (mutating => approval = "approved") /\ approval # "pending"
  BY <1>1, <1>3 DEF TypeOK, EffectInv, PauseInv
<1>5. \A t \in {"think", "request_approval", "fail"} :
        LegalMove("call_tool", t, DeclaredAs(mutating), approval)
  BY <1>4 DEF LegalMove, Allowed, Routes, DecisionRoutes, TerminalRoutes,
              Unrouted, DeclaredAs
<1>6. PICK o \in Execute(call, approval) :
        /\ Succeeds(o) \/ Throttled(o) \/ EscalatedByPolicy(o) \/ ToolFails(o)
        /\ ran' = IF o.started THEN [ran EXCEPT ![call] = @ + 1] ELSE ran
  BY DEF ExecuteTool
<1>7. o.status = "approval_required" => ~o.started /\ call \notin Writes
  BY <1>3, <1>6 DEF Execute, Refusals, Outcome, ApprovalGate, Gated
<1>8. UNCHANGED <<call, mutating, contract, redirected, draft, evidence, asked, granted>>
  BY DEF ExecuteTool, basisVars
<1>9. stepCount' \in 0..MaxSteps
  BY <1>1, BudgetAssumption DEF ExecuteTool, Enter, TypeOK
<1>10. ran' \in [Calls -> Nat]
  BY <1>1, <1>2, <1>6 DEF TypeOK
<1>11. /\ broken' = "no"
       /\ route' \in {"think", "request_approval", "fail", "call_tool"}
       /\ approval' = IF route' = "request_approval" THEN "pending" ELSE approval
       /\ (route' = "request_approval") => o.status = "approval_required"
       /\ (route' = "call_tool") => ~o.started
       /\ succeeded' = IF route' = "think" THEN succeeded \cup {call} ELSE succeeded
       /\ retryCount' \in 0..RetryBudget
       /\ reply' \in {reply, "none"}
       /\ failure' \in FailureModes
  <2>1. CASE Succeeds(o)
    BY <1>1, <1>5, <2>1 DEF Succeeds, Advance, AdvanceUnder, TypeOK, endVars
  <2>2. CASE Throttled(o)
    <3>1. o.status = "rate_limited" => ~o.started
      BY <1>6 DEF Execute, Refusals, Outcome
    <3>2. CASE retryCount >= RetryBudget
      BY <1>1, <1>5, <2>2, <3>2
         DEF Throttled, Advance, AdvanceUnder, EndWith, TypeOK, FailureModes
    <3>3. CASE ~(retryCount >= RetryBudget)
      <4>1. retryCount' \in 0..RetryBudget
        BY <1>1, <2>2, <3>3, BudgetAssumption DEF Throttled, TypeOK
      <4>2. QED
        BY <1>1, <2>2, <3>1, <3>3, <4>1 DEF Throttled, TypeOK, endVars
    <3>4. QED
      BY <3>2, <3>3
  <2>3. CASE EscalatedByPolicy(o)
    BY <1>1, <1>5, <2>3 DEF EscalatedByPolicy, Advance, AdvanceUnder, TypeOK, endVars
  <2>4. CASE ToolFails(o)
    BY <1>1, <1>5, <2>4
       DEF ToolFails, Advance, AdvanceUnder, EndWith, TypeOK, FailureModes
  <2>5. QED
    BY <1>6, <2>1, <2>2, <2>3, <2>4
<1>12. TypeOK'
  BY <1>1, <1>2, <1>8, <1>9, <1>10, <1>11
     DEF TypeOK, Routes, DecisionRoutes, TerminalRoutes, Approvals, Replies
<1>13. PauseInv'
  BY <1>4, <1>11 DEF PauseInv
<1>14. EffectInv'
  BY <1>1, <1>8 DEF EffectInv
<1>15. CallInv'
  BY <1>2, <1>8, <1>11 DEF CallInv
<1>16. GrantInv'
  BY <1>3, <1>6, <1>8, <1>11 DEF GrantInv
<1>17. WritesAreGranted'
  <2>1. CASE o.started /\ call \in Writes
    BY <1>1, <1>2, <1>3, <1>6, <1>8, <2>1, CallsAssumption DEF WritesAreGranted, TypeOK
  <2>2. CASE ~(o.started /\ call \in Writes)
    <3>1. \A w \in Writes : ran'[w] = ran[w]
      BY <1>1, <1>6, <2>2, CallsAssumption DEF TypeOK
    <3>2. QED
      BY <1>1, <1>8, <3>1 DEF WritesAreGranted
  <2>3. QED
    BY <2>1, <2>2
<1>18. ReplyInv'
  <2>1. reply # "refuse"
    BY <1>1 DEF EngineInv, ReplyInv, IsTerminal, TerminalRoutes
  <2>2. reply' # "refuse"
    BY <1>11, <2>1
  <2>3. QED
    BY <1>11, <2>2
       DEF ReplyInv, UnmarkedAnswersAreComplete, RefusalSpentARedirect
<1>19. PlannerAskedAtMostTwice'
  BY <1>1, <1>8 DEF PlannerAskedAtMostTwice
<1>20. QED
  BY <1>11, <1>12, <1>13, <1>14, <1>15, <1>16, <1>17, <1>18, <1>19 DEF EngineInv

LEMMA BudgetStep ==
    ASSUME EngineInv, OutOfBudget
    PROVE  EngineInv'
<1>1. /\ TypeOK /\ broken = "no" /\ route \in {Unrouted, "think", "retrieve", "call_tool"}
      /\ PauseInv /\ EffectInv /\ CallInv /\ GrantInv /\ WritesAreGranted
      /\ PlannerAskedAtMostTwice
  BY DEF EngineInv, OutOfBudget, Running, IsTerminal, IsPaused, TypeOK, Routes,
         DecisionRoutes, TerminalRoutes, PauseInv
<1>2. mutating \in BOOLEAN /\ (route = "call_tool" /\ mutating => approval = "approved")
  BY <1>1 DEF TypeOK, EffectInv, GrantInv
<1>3. LegalMove(route, "fail",
                IF route = "call_tool" THEN DeclaredAs(mutating) ELSE "undeclared",
                approval)
  BY <1>1, <1>2 DEF LegalMove, Allowed, Routes, DecisionRoutes, TerminalRoutes,
              Unrouted, DeclaredAs
<1>4. /\ broken' = "no" /\ route' = "fail"
      /\ reply' = "none" /\ failure' = "max_steps_exceeded"
  BY <1>1, <1>3 DEF OutOfBudget, Advance, AdvanceUnder, EndWith
<1>5. UNCHANGED <<approval, call, mutating, contract, redirected, draft, evidence,
                  succeeded, stepCount, retryCount, asked, granted, ran>>
  BY DEF OutOfBudget, basisVars, countVars, historyVars
<1>6. TypeOK'
  BY <1>1, <1>4, <1>5
     DEF TypeOK, Routes, DecisionRoutes, TerminalRoutes, Replies, FailureModes
<1>7. PauseInv' /\ CallInv' /\ GrantInv'
  BY <1>1, <1>4, <1>5 DEF PauseInv, CallInv, GrantInv, Unrouted
<1>8. EffectInv' /\ WritesAreGranted' /\ PlannerAskedAtMostTwice'
  BY <1>1, <1>5 DEF EffectInv, WritesAreGranted, PlannerAskedAtMostTwice
<1>9. ReplyInv'
  BY <1>4 DEF ReplyInv, UnmarkedAnswersAreComplete, RefusalSpentARedirect
<1>10. QED
  BY <1>4, <1>6, <1>7, <1>8, <1>9 DEF EngineInv

LEMMA ApproveStep ==
    ASSUME EngineInv, Approve
    PROVE  EngineInv'
<1>1. /\ TypeOK /\ broken = "no" /\ route = "request_approval"
      /\ PauseInv /\ EffectInv /\ CallInv /\ WritesAreGranted
      /\ PlannerAskedAtMostTwice
  BY DEF EngineInv, Approve, IsPaused
<1>2. call \in Calls /\ call \notin succeeded
  BY <1>1 DEF CallInv
<1>3. LegalMove("request_approval", "call_tool", DeclaredAs(mutating), "approved")
  BY DEF LegalMove, Allowed, Routes, DecisionRoutes, TerminalRoutes, Unrouted, DeclaredAs
<1>4. broken' = "no" /\ route' = "call_tool" /\ approval' = "approved"
  BY <1>1, <1>3 DEF Approve, AdvanceUnder
<1>5. UNCHANGED <<call, mutating, contract, redirected, draft, evidence, succeeded,
                  reply, failure, stepCount, retryCount, asked, ran>>
  BY DEF Approve, basisVars, countVars, endVars
<1>6. /\ granted' \in [Calls -> Nat]
      /\ granted'[call] = granted[call] + 1
      /\ \A c \in Calls : granted'[c] >= granted[c]
  BY <1>1, <1>2 DEF Approve, TypeOK
<1>7. TypeOK'
  BY <1>1, <1>4, <1>5, <1>6
     DEF TypeOK, Routes, DecisionRoutes, TerminalRoutes, Approvals
<1>8. PauseInv'
  BY <1>4 DEF PauseInv
<1>9. EffectInv' /\ CallInv' /\ PlannerAskedAtMostTwice'
  BY <1>1, <1>2, <1>5 DEF EffectInv, CallInv, PlannerAskedAtMostTwice
<1>10. WritesAreGranted'
  BY <1>1, <1>5, <1>6, CallsAssumption DEF WritesAreGranted, TypeOK
<1>11. GrantInv'
  BY <1>1, <1>2, <1>4, <1>5, <1>6 DEF GrantInv, WritesAreGranted, TypeOK
<1>12. ReplyInv'
  <2>1. reply # "refuse"
    BY <1>1 DEF EngineInv, ReplyInv, IsTerminal, TerminalRoutes
  <2>2. QED
    BY <1>4, <1>5, <2>1 DEF ReplyInv, UnmarkedAnswersAreComplete, RefusalSpentARedirect
<1>13. QED
  BY <1>4, <1>7, <1>8, <1>9, <1>10, <1>11, <1>12 DEF EngineInv

LEMMA DenyStep ==
    ASSUME EngineInv, Deny
    PROVE  EngineInv'
<1>1. /\ TypeOK /\ broken = "no" /\ route = "request_approval"
      /\ EffectInv /\ WritesAreGranted /\ PlannerAskedAtMostTwice
  BY DEF EngineInv, Deny, IsPaused
<1>2. LegalMove("request_approval", "refuse", "undeclared", "denied")
  BY DEF LegalMove, Allowed, Routes, DecisionRoutes, TerminalRoutes, Unrouted
<1>3. /\ broken' = "no" /\ route' = "refuse" /\ approval' = "denied"
      /\ reply' = "denied" /\ failure' = "none"
  BY <1>1, <1>2 DEF Deny, AdvanceUnder, EndWith
<1>4. UNCHANGED <<call, mutating, contract, redirected, draft, evidence, succeeded,
                  stepCount, retryCount, asked, granted, ran>>
  BY DEF Deny, basisVars, countVars, historyVars
<1>5. TypeOK'
  BY <1>1, <1>3, <1>4
     DEF TypeOK, Routes, DecisionRoutes, TerminalRoutes, Approvals, Replies, FailureModes
<1>6. PauseInv' /\ CallInv' /\ GrantInv'
  BY <1>3 DEF PauseInv, CallInv, GrantInv
<1>7. EffectInv' /\ WritesAreGranted' /\ PlannerAskedAtMostTwice'
  BY <1>1, <1>4 DEF EffectInv, WritesAreGranted, PlannerAskedAtMostTwice
<1>8. ReplyInv'
  BY <1>3 DEF ReplyInv, UnmarkedAnswersAreComplete, RefusalSpentARedirect
<1>9. QED
  BY <1>3, <1>5, <1>6, <1>7, <1>8 DEF EngineInv

LEMMA StutterStep ==
    ASSUME EngineInv, UNCHANGED vars
    PROVE  EngineInv'
<1> USE DEF vars, controlVars, basisVars, endVars, countVars, historyVars
<1>1. TypeOK' /\ broken' = "no"
  BY DEF EngineInv, TypeOK
<1>2. PauseInv' /\ EffectInv' /\ CallInv' /\ GrantInv'
  BY DEF EngineInv, PauseInv, EffectInv, CallInv, GrantInv
<1>3. WritesAreGranted' /\ PlannerAskedAtMostTwice'
  BY DEF EngineInv, WritesAreGranted, PlannerAskedAtMostTwice
<1>4. Missing(evidence)' = Missing(evidence)
  BY DEF Missing, Satisfied
<1>5. ReplyInv'
  BY <1>4 DEF EngineInv, ReplyInv, UnmarkedAnswersAreComplete,
              RefusalSpentARedirect, IsTerminal
<1>6. QED
  BY <1>1, <1>2, <1>3, <1>5 DEF EngineInv

-----------------------------------------------------------------------------
(***************************************************************************)
(* The theorems.                                                           *)
(***************************************************************************)
\* Every reachable state of a turn, for every set of calls, step budget and
\* retry budget, and for a planner that obeys tool_choice or does not,
\* satisfies the inductive invariant.
THEOREM EngineInvariant == Spec => []EngineInv
<1>1. Init => EngineInv
  BY InitEstablishes
<1>2. EngineInv /\ [Next]_vars => EngineInv'
  <2> SUFFICES ASSUME EngineInv, [Next]_vars PROVE EngineInv'
    OBVIOUS
  <2>1. CASE Think
    BY <2>1, ThinkStep
  <2>2. CASE Retrieve
    BY <2>2, RetrieveStep
  <2>3. CASE ExecuteTool
    BY <2>3, ExecuteStep
  <2>4. CASE OutOfBudget
    BY <2>4, BudgetStep
  <2>5. CASE Approve
    BY <2>5, ApproveStep
  <2>6. CASE Deny
    BY <2>6, DenyStep
  <2>7. CASE UNCHANGED vars
    BY <2>7, StutterStep
  <2>8. QED
    BY <2>1, <2>2, <2>3, <2>4, <2>5, <2>6, <2>7 DEF Next, Engine, Human
<1>3. QED
  BY <1>1, <1>2, PTL DEF Spec

\* Every field of the turn keeps its type.
THEOREM TypeCorrect == Spec => []TypeOK
<1>1. EngineInv => TypeOK
  BY DEF EngineInv
<1>2. QED
  BY <1>1, EngineInvariant, PTL

\* No node ever asks for a move the transition table forbids, preflight is
\* never asked about a call nothing stops, and a running turn is on a route
\* that has a node: run() raises none of the engine's own exceptions.
THEOREM EngineNeverRaises == Spec => []NothingEscapes
<1>1. EngineInv => NothingEscapes
  BY DEF EngineInv, NothingEscapes, Running, IsTerminal, IsPaused, NodeTable,
         TypeOK, Routes, DecisionRoutes, TerminalRoutes, PauseInv
<1>2. QED
  BY <1>1, EngineInvariant, PTL

\* The handler of a write is started at most once per approval of that call.
THEOREM WritesGranted == Spec => []WritesAreGranted
<1>1. EngineInv => WritesAreGranted
  BY DEF EngineInv
<1>2. QED
  BY <1>1, EngineInvariant, PTL

\* An answer delivered without a mark rests on everything the contract named.
THEOREM RepliesHonourTheContract == Spec => []UnmarkedAnswersAreComplete
<1>1. EngineInv => UnmarkedAnswersAreComplete
  BY DEF EngineInv, ReplyInv
<1>2. QED
  BY <1>1, EngineInvariant, PTL

\* A refusal never ends a turn that had a need to look for and looked for none.
THEOREM RefusalsAreEarned == Spec => []RefusalSpentARedirect
<1>1. EngineInv => RefusalSpentARedirect
  BY DEF EngineInv, ReplyInv
<1>2. QED
  BY <1>1, EngineInvariant, PTL

\* One think never asks the planner more than twice.
THEOREM PlannerBounded == Spec => []PlannerAskedAtMostTwice
<1>1. EngineInv => PlannerAskedAtMostTwice
  BY DEF EngineInv
<1>2. QED
  BY <1>1, EngineInvariant, PTL

\* A call that has succeeded is never started again in the same turn.
THEOREM SuccessesAreNotRepeated == Spec => SuccessIsNotRepeated
<1>1. EngineInv /\ [Next]_vars => [\A c \in succeeded : ran'[c] = ran[c]]_vars
  <2> SUFFICES ASSUME EngineInv, Next
               PROVE  \A c \in succeeded : ran'[c] = ran[c]
    OBVIOUS
  <2>1. CASE ExecuteTool
    <3>1. call \notin succeeded /\ TypeOK
      BY <2>1 DEF EngineInv, CallInv, ExecuteTool, Enter
    <3>2. ran' = ran \/ ran' = [ran EXCEPT ![call] = @ + 1]
      BY <2>1 DEF ExecuteTool
    <3>3. QED
      BY <3>1, <3>2 DEF TypeOK
  <2>2. CASE Think \/ Retrieve \/ OutOfBudget \/ Approve \/ Deny
    BY <2>2 DEF Think, Retrieve, OutOfBudget, Approve, Deny, historyVars
  <2>3. QED
    BY <2>1, <2>2 DEF Next, Engine, Human
<1>2. QED
  BY <1>1, EngineInvariant, PTL DEF Spec, SuccessIsNotRepeated

\* Every turn, seen through its phase, its approvals and its handler starts,
\* is a behaviour of the approval gate.
THEOREM EngineImplementsGate == Spec => ImplementsGate
<1> USE DEF phase
<1>1. Init => Gate!Init
  BY DEF Init, Gate!Init, IsTerminal, IsPaused, TerminalRoutes, Unrouted
<1>2. EngineInv /\ EngineInv' /\ [Next]_vars => [Gate!Next]_Gate!gateVars
  <2> SUFFICES ASSUME EngineInv, EngineInv', [Next]_vars
               PROVE  [Gate!Next]_Gate!gateVars
    OBVIOUS
  <2>1. /\ broken = "no" /\ broken' = "no"
        /\ IsPaused <=> route = "request_approval"
        /\ (IsPaused <=> route = "request_approval")'
        /\ IsTerminal => route # "request_approval"
    BY DEF EngineInv, IsPaused, PauseInv, IsTerminal, TerminalRoutes
  <2>2. phase' \in {"running", "waiting", "over"}
    OBVIOUS
  <2>3. CASE Think \/ Retrieve \/ OutOfBudget
    <3>1. phase = "running" /\ UNCHANGED <<granted, ran>>
      BY <2>1, <2>3
         DEF Think, Retrieve, OutOfBudget, Enter, Running, historyVars
    <3>2. QED
      BY <2>2, <3>1 DEF Gate!Next, Gate!Ask, Gate!Finish, Gate!gateVars
  <2>4. CASE ExecuteTool
    <3>1. phase = "running" /\ UNCHANGED granted
      BY <2>1, <2>4 DEF ExecuteTool, Enter, Running
    <3>2. call \in Calls /\ (call \in Writes => ran[call] < granted[call])
      BY <2>4 DEF EngineInv, CallInv, GrantInv, ExecuteTool, Enter
    <3>3. PICK o \in Execute(call, approval) :
            /\ Succeeds(o) \/ Throttled(o) \/ EscalatedByPolicy(o) \/ ToolFails(o)
            /\ ran' = IF o.started THEN [ran EXCEPT ![call] = @ + 1] ELSE ran
      BY <2>4 DEF ExecuteTool
    <3>4. CASE ~o.started
      BY <2>2, <3>1, <3>3, <3>4 DEF Gate!Next, Gate!Ask, Gate!Finish, Gate!gateVars
    <3>5. CASE o.started
      <4>1. o.status # "approval_required"
        BY <3>3, <3>5 DEF Execute, Refusals, Outcome
      <4>2. phase' \in {"running", "over"}
        <5>1. route' # "request_approval"
          BY <2>1, <2>4, <3>3, <4>1
             DEF Succeeds, Throttled, EscalatedByPolicy, ToolFails, Advance,
                 AdvanceUnder, ExecuteTool, Enter
        <5>2. QED
          BY <2>1, <5>1
      <4>3. Gate!Start(call)
        BY <3>1, <3>2, <3>3, <3>5, <4>2 DEF Gate!Start
      <4>4. QED
        BY <3>2, <4>3 DEF Gate!Next
    <3>6. QED
      BY <3>4, <3>5
  <2>5. CASE Approve
    <3>1. phase = "waiting" /\ call \in Calls
      BY <2>1, <2>5 DEF Approve, EngineInv, CallInv, IsPaused
    <3>2. route' = "call_tool"
      BY <2>1, <2>5 DEF Approve, AdvanceUnder
    <3>3. phase' = "running"
      BY <2>1, <3>2 DEF IsTerminal, TerminalRoutes
    <3>4. Gate!Approve(call)
      BY <2>5, <3>1, <3>3 DEF Approve, Gate!Approve
    <3>5. QED
      BY <3>1, <3>4 DEF Gate!Next
  <2>6. CASE Deny
    <3>1. phase = "waiting"
      BY <2>1, <2>6 DEF Deny
    <3>2. route' = "refuse"
      BY <2>1, <2>6 DEF Deny, AdvanceUnder
    <3>3. phase' = "over" /\ UNCHANGED <<granted, ran>>
      BY <2>6, <3>2 DEF IsTerminal, TerminalRoutes, Deny, historyVars
    <3>4. QED
      BY <3>1, <3>3 DEF Gate!Next, Gate!Deny
  <2>7. CASE UNCHANGED vars
    BY <2>7 DEF vars, controlVars, historyVars, Gate!gateVars, IsTerminal, IsPaused
  <2>8. QED
    BY <2>3, <2>4, <2>5, <2>6, <2>7 DEF Next, Engine, Human
<1>3. QED
  BY <1>1, <1>2, EngineInvariant, PTL DEF Spec, ImplementsGate, Gate!Spec

=============================================================================
