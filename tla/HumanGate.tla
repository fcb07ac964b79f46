------------------------------ MODULE HumanGate ------------------------------
(***************************************************************************)
(* What a turn promises about writes, and nothing else: a call that        *)
(* changes ERP data is started only against an approval of that very call, *)
(* one approval allows one start, and nothing starts while a human is      *)
(* being asked or after the turn is over.                                  *)
(*                                                                         *)
(* This is the promise of the approval gate spread over                    *)
(* engine/transitions.py, engine/workflow.py and tools/gateway.py.         *)
(***************************************************************************)
EXTENDS Naturals

CONSTANTS Calls, Writes

VARIABLES
    phase,      \* "running", "waiting" for a human, or "over"
    granted,    \* granted[c]: how often a human approved c
    ran         \* ran[c]: how often the handler of c was started

gateVars == <<phase, granted, ran>>

Init ==
    /\ phase = "running"
    /\ granted = [c \in Calls |-> 0]
    /\ ran = [c \in Calls |-> 0]

Ask ==
    /\ phase = "running"
    /\ phase' = "waiting"
    /\ UNCHANGED <<granted, ran>>

Approve(c) ==
    /\ phase = "waiting"
    /\ phase' = "running"
    /\ granted' = [granted EXCEPT ![c] = @ + 1]
    /\ UNCHANGED ran

\* A denial ends the turn.
Deny ==
    /\ phase = "waiting"
    /\ phase' = "over"
    /\ UNCHANGED <<granted, ran>>

Start(c) ==
    /\ phase = "running"
    /\ c \in Writes => ran[c] < granted[c]
    /\ ran' = [ran EXCEPT ![c] = @ + 1]
    /\ phase' \in {"running", "over"}
    /\ UNCHANGED granted

Finish ==
    /\ phase = "running"
    /\ phase' = "over"
    /\ UNCHANGED <<granted, ran>>

Next ==
    \/ Ask \/ Deny \/ Finish
    \/ \E c \in Calls : Approve(c) \/ Start(c)

Spec == Init /\ [][Next]_gateVars

=============================================================================
