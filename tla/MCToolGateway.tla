---------------------------- MODULE MCToolGateway ----------------------------
(***************************************************************************)
(* Instances of ToolGateway for TLC.  Calls are interchangeable.           *)
(***************************************************************************)
EXTENDS ToolGateway, TLC

CONSTANTS c1, c2, c3, c4

TwoCalls == {c1, c2}
FourCalls == {c1, c2, c3, c4}

\* Reads: a turn executes what nothing gates.
Execute == {[op |-> "execute", approval |-> "not_required"]}

\* Writes: the preflight, and the call under each state of the human's decision.
GatedRequests ==
    {[op |-> "preflight", approval |-> "not_required"],
     [op |-> "execute", approval |-> "not_required"],
     [op |-> "execute", approval |-> "approved"],
     [op |-> "execute", approval |-> "denied"]}

\* A handler that always works at once, and one that ends in every way.
Works == {"ok"}
EndsAnyhow == {"ok", "transient", "tool_error", "other_error"}

CallSymmetry == Permutations(Calls)

=============================================================================
