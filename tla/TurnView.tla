------------------------------ MODULE TurnView ------------------------------
(***************************************************************************)
(* What the browser makes of a turn: ui/src/turnReducer.ts builds a view   *)
(* from the events of a stream, ui/src/lib/executionTree.ts groups the     *)
(* rows of a view into node executions, and ui/src/hydrate.ts rebuilds     *)
(* those from a filed run.                                                 *)
(*                                                                         *)
(* A row is [node, kind].  An event is a record with a type; what a screen *)
(* only prints is left out.                                                *)
(***************************************************************************)
EXTENDS Enumeration, SequencesExt

InitialTurn == [status |-> "starting", streamed |-> <<>>, timeline |-> <<>>,
                context |-> <<>>]

\* The preview, cut to the call it heard last: no property relates two calls.
\* A piece is <<segment, call, attempt>>.
SameCall(p, q) == p[1] = q[1] /\ p[2] = q[2]

Preview(streamed, piece) ==
    IF \E i \in DOMAIN streamed : SameCall(streamed[i], piece)
    THEN Append(streamed, piece) ELSE <<piece>>

\* The status a view takes from an event; after any other it keeps its own.
Status == [started |-> "running", approval |-> "paused", answer |-> "done", error |-> "error"]

\* Only a fresh start begins a clean view.
Before(view, event) ==
    IF event.type = "started" /\ ~event.resumed THEN InitialTurn ELSE view

Reduced(view, event) ==
    LET kept == Before(view, event) IN
    [status   |-> IF event.type \in DOMAIN Status THEN Status[event.type] ELSE kept.status,
     streamed |-> IF event.type = "token" THEN Preview(kept.streamed, event.piece)
                  ELSE IF event.type = "reset" THEN <<>> ELSE kept.streamed,
     timeline |-> IF event.type \in {"row", "live", "step"} THEN Append(kept.timeline, event)
                  ELSE kept.timeline,
     context  |-> IF event.type = "context" THEN event.calls ELSE kept.context]

IsRow(event) == event.type = "row"

IsStep(event) == event.type = "step"

\* The rows of a timeline at these places, in the order they came.
RowsAt(timeline, places) ==
    LET shown == Picked(timeline, places) IN [i \in DOMAIN shown |-> shown[i].row]

EngineRows(view) == RowsAt(view.timeline, {p \in DOMAIN view.timeline : IsRow(view.timeline[p])})

PreludeKinds == {"history_recalled", "contract_declared"}

\* One entry for each step that closes a node: its rows are those that came
\* since the step before it, and those the gateway stamped with its number.
EntryAt(timeline, p) ==
    LET Since(k) == k < p /\ ~\E q \in DOMAIN timeline : k < q /\ q < p /\ IsStep(timeline[q])
    IN  [name |-> timeline[p].node,
         rows |-> RowsAt(timeline, {k \in DOMAIN timeline :
                                      /\ IsRow(timeline[k]) /\ Since(k)
                                      /\ timeline[k].row.kind \notin PreludeKinds})]

ClosesNode(event) == IsStep(event) /\ event.node # "none"

NodeEntries(view) ==
    LET closing == Ascending({p \in DOMAIN view.timeline : ClosesNode(view.timeline[p])})
    IN  [i \in DOMAIN closing |-> EntryAt(view.timeline, closing[i])]

\* hydrate.ts: a span runs from a node's entry to its exit.
SpanAt(events, p) ==
    LET Exit == Min({q \in DOMAIN events : q > p /\ events[q].kind = "node_exited"})
    IN  [name |-> events[p].node, rows |-> SubSeq(events, p, Exit)]

NodeSpans(events) ==
    LET entered == Ascending({p \in DOMAIN events : events[p].kind = "node_entered"})
    IN  [i \in DOMAIN entered |-> SpanAt(events, entered[i])]
=============================================================================
