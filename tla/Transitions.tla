----------------------------- MODULE Transitions -----------------------------
(***************************************************************************)
(* The transition table of a turn: engine/transitions.py.                  *)
(*                                                                         *)
(* A turn is always on one route.  ALLOWED says which routes may follow    *)
(* which; assert_transition adds the rules about tool calls and approvals  *)
(* that a plain table cannot state.                                        *)
(***************************************************************************)

\* The route of a turn nothing has been decided for yet (None in the code).
Unrouted == "unrouted"

TerminalRoutes == {"answer", "clarify", "refuse", "fail"}

DecisionRoutes ==
    TerminalRoutes \cup {"think", "retrieve", "call_tool", "request_approval"}

Routes == DecisionRoutes \cup {Unrouted}

\* Allowed[r] is the set of routes that may follow r.
Allowed ==
    [r \in Routes |->
        CASE r = Unrouted           -> DecisionRoutes
          [] r = "think"            -> DecisionRoutes \ {"think"}
          [] r = "retrieve"         -> TerminalRoutes \cup {"think"}
          [] r = "call_tool"        -> {"think", "request_approval", "answer", "fail"}
          [] r = "request_approval" -> {"call_tool", "refuse", "fail"}
          [] r \in TerminalRoutes   -> {}]

Approvals == {"not_required", "pending", "approved", "denied"}

\* What the caller of advance says of the tool it runs or has just run.
Declarations == {"undeclared", "reads", "writes"}

DeclaredAs(isWrite) == IF isWrite THEN "writes" ELSE "reads"

(***************************************************************************)
(* assert_transition, as a predicate: TRUE when the move raises nothing.   *)
(***************************************************************************)
LegalMove(origin, target, declared, approval) ==
    /\ target \in Allowed[origin]
    /\ "call_tool" \in {origin, target} =>
         /\ declared # "undeclared"
         /\ declared = "writes" => approval = "approved"
    /\ (origin = "request_approval" /\ target = "call_tool") =>
         approval = "approved"

=============================================================================
