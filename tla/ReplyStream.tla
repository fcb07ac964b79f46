---------------------------- MODULE ReplyStream ----------------------------
(***************************************************************************)
(* A turn as somebody watches it: web/service.py runs it on a thread of    *)
(* its own, the engine, the model gateway and the tool gateway report what *)
(* they do to a TurnStream (web/stream.py), the event loop drains the      *)
(* stream into a response (web/app.py), and the browser reduces it to a    *)
(* view (TurnView).                                                        *)
(*                                                                         *)
(* Segment 1 is the request itself, a later one the decision of an         *)
(* approver on a pause of the same run.  Each has a thread, a queue and a  *)
(* reader; its events go to a message on a screen: the requester's (1), or *)
(* a new one when the decision is taken from the approvals list.           *)
(*                                                                         *)
(* TurnEngine says which node follows which; here a node may lead wherever *)
(* the routes allow.  A definition with no use (RetryInPlace, say) is a    *)
(* likely mistake in the definition after it.                              *)
(***************************************************************************)
EXTENDS TurnView

CONSTANTS
    Segments,       \* 1..n
    HasHistory,     \* whether the session has turns before this one
    MaxSteps,       \* WorkflowRuntime.max_steps
    MaxAttempts,    \* LLMGateway.max_attempts
    MaxQueries,     \* searches of one retrieve
    MaxLag          \* the bound on events a live reader is behind

ASSUME StreamAssumption ==
    /\ Segments \subseteq Nat \ {0} /\ 1 \in Segments /\ HasHistory \in BOOLEAN
    /\ MaxSteps \in Nat /\ MaxAttempts \in Nat \ {0}
    /\ MaxQueries \in Nat \ {0} /\ MaxLag \in Nat

VARIABLES
    worker,     \* the thread of each segment, with the AgentState it holds
    stream,     \* the TurnStream of each segment
    queue,      \* its events not yet written to the response
    reader,     \* the response: "none", "reading", "ended", "stopped" (the user hung
                \*  up) or "replaced" (by the stream of a decision on its message)
    message,    \* the message on a screen each segment's events go to
    view,       \* the view of each message
    pause,      \* the state an approver can claim, NoPause for none
    filed       \* the run as it was last saved

vars == <<worker, stream, queue, reader, message, view, pause, filed>>

NoPause == [route |-> "none"]

Fresh == [route |-> "start", steps |-> 0, redirected |-> FALSE, events |-> <<>>]

NoCall == [purpose |-> "none", attempt |-> 0, number |-> 0]

NewWorker == [at |-> "idle", state |-> Fresh, call |-> NoCall, spoke |-> FALSE, searches |-> 0]

NewStream == [emitted |-> 0, last |-> 0, calls |-> <<>>, search |-> 0]

Init ==
    /\ worker = [s \in Segments |-> NewWorker]
    /\ stream = [s \in Segments |-> NewStream]
    /\ queue = [s \in Segments |-> <<>>]
    /\ reader = [s \in Segments |-> "none"]
    /\ message = [s \in Segments |-> s]
    /\ view = [s \in Segments |-> InitialTurn]
    /\ pause = NoPause
    /\ filed = [outcome |-> "none", events |-> <<>>]

Row(node, kind) == [node |-> node, kind |-> kind]

State(s) == worker[s].state

At(s, places) == worker[s].at \in places

\* A response nobody reads keeps no bound on its queue, and none of it shows.
Room(s) == reader[s] = "reading" => Len(queue[s]) < MaxLag

Put(s, events) ==
    /\ Room(s)
    /\ queue' = IF reader[s] = "reading" THEN [queue EXCEPT ![s] = @ \o events] ELSE queue

Quietly == UNCHANGED <<stream, queue>>

Elsewhere == UNCHANGED <<reader, message, view>>

Filing == UNCHANGED <<pause, filed>>

Goes(s, to) == worker' = [worker EXCEPT ![s].at = to]

EndOfStream == [type |-> "end"]

-----------------------------------------------------------------------------
(***************************************************************************)
(* TurnStream.                                                             *)
(***************************************************************************)
\* The trace rows of a state this stream has not sent yet.
NewRows(s, events) ==
    [i \in 1..(Len(events) - stream[s].emitted) |->
        [type |-> "row", seq |-> stream[s].emitted + i - 1,
         row |-> events[stream[s].emitted + i]]]

\* A call is shown by what it was: here, the step it was made in.
ModelCallOut(s) == State(s).steps

StepEvent(s, node, state) ==
    [type |-> "step", node |-> node, ordinal |-> state.steps,
     calls |-> stream[s].calls, search |-> stream[s].search]

KeptCalls(s, state, rows) ==
    [emitted |-> stream[s].emitted + Len(rows), last |-> state.steps,
     calls |-> stream[s].calls, search |-> 0]

\* What a step or the context has taken, the next one does not show again.
Drained(s, state, rows) ==
    [emitted |-> stream[s].emitted + Len(rows), last |-> state.steps,
     calls |-> <<>>, search |-> 0]

\* step(): the rows since the last one, then what the node did.
ShowStep(s, node, state) ==
    LET rows == NewRows(s, state.events)
    IN  /\ Put(s, Append(rows, StepEvent(s, node, state)))
        /\ stream' = [stream EXCEPT ![s] = Drained(s, state, rows)]

\* A resumed stream starts behind the rows its client has seen.
FromTheStart(state) == 0

AlreadySeen(state) == Len(state.events)

\* trace_event(): the node at work is the one after the last that was closed.
\* `during' says which one it really is.
LiveRow(s) == [type |-> "live", step |-> stream[s].last + 1, during |-> State(s).steps]

-----------------------------------------------------------------------------
(***************************************************************************)
(* The request, up to the engine.                                          *)
(***************************************************************************)
Ask ==
    /\ worker[1].at = "idle"
    /\ Goes(1, "setup")
    /\ reader' = [reader EXCEPT ![1] = "reading"]
    /\ UNCHANGED <<stream, queue, message, view>> /\ Filing

EndFirst(why) == <<EndOfStream, [type |-> why]>>

NoSentinel(why) == <<[type |-> why]>>

\* The last thing any stream carries, whatever became of its turn.
Closing(why) == <<[type |-> why], EndOfStream>>

\* Whatever leaves the orchestrator is reported, and the stream still closes.
Breaks(s) ==
    /\ At(s, {"setup", "call_tool", "filing", "tail"})
    /\ Goes(s, "closed")
    /\ Put(s, Closing("error"))
    /\ UNCHANGED stream /\ Elsewhere /\ Filing

Started(resumed) == [type |-> "started", resumed |-> resumed]

CallModel(s, purpose, state) ==
    worker' = [worker EXCEPT ![s].at = "calling", ![s].state = state, ![s].spoke = FALSE,
                             ![s].call = [purpose |-> purpose, attempt |-> 1,
                                          number |-> @.number + 1]]

With(state, row) == [state EXCEPT !.events = Append(@, row)]

\* The window has turns to recall or none; the declaration is a model call.
Begin(s) ==
    /\ s = 1 /\ At(s, {"setup"})
    /\ Put(s, <<Started(FALSE)>>)
    /\ CallModel(s, "declare",
                 IF HasHistory THEN With(Fresh, Row("history", "history_recalled")) ELSE Fresh)
    /\ UNCHANGED stream /\ Elsewhere /\ Filing

ContextEvent(s) == [type |-> "context", calls |-> stream[s].calls]

\* on_start, before the engine sees the state.
ShowContext(s, state, seen, before) ==
    /\ Put(s, Append(before, ContextEvent(s)))
    /\ stream' = [stream EXCEPT ![s] = [emitted |-> seen, last |-> state.steps,
                                        calls |-> <<>>, search |-> 0]]

Introduce(s) ==
    /\ At(s, {"introducing"})
    /\ ShowContext(s, State(s), stream[s].emitted, <<>>)
    /\ worker' = [worker EXCEPT ![s].at = "loop"]
    /\ Elsewhere /\ Filing

-----------------------------------------------------------------------------
(***************************************************************************)
(* A model call: llm/gateway.py over llm/retry.py and llm/adapters.        *)
(***************************************************************************)
Call(s) == worker[s].call

\* Of a structured reply only the text of its answer is passed on.
TokenEvent(s) == [type |-> "token", piece |-> <<s, Call(s).number, Call(s).attempt>>]

\* A fragment of the reply reaches the sink as it arrives, also from a call that
\* may name no tool (tool_choice none); one forced to name one (required) has
\* none.
Speak(s) ==
    /\ At(s, {"calling"}) /\ Call(s).purpose \in {"decide", "forced", "compose"} /\ ~worker[s].spoke
    /\ Put(s, <<TokenEvent(s)>>)
    /\ worker' = [worker EXCEPT ![s].spoke = TRUE]
    /\ UNCHANGED stream /\ Elsewhere /\ Filing

Again(s) ==
    worker' = [worker EXCEPT ![s].call.attempt = @ + 1, ![s].spoke = FALSE]

RetryInPlace(s) == Again(s) /\ Room(s) /\ UNCHANGED queue

\* A transient failure with an attempt left: what the last one said is void.
RetryAfterReset(s) == Again(s) /\ Put(s, <<[type |-> "reset"]>>)

Retry(s) ==
    /\ At(s, {"calling"}) /\ Call(s).attempt < MaxAttempts
    /\ RetryAfterReset(s)
    /\ UNCHANGED stream /\ Elsewhere /\ Filing

\* Every call leaves one record, and the inspector holds it for the next step.
Inspected(s) == [stream EXCEPT ![s].calls = Append(@, ModelCallOut(s))]

Answered(s, at, state) ==
    worker' = [worker EXCEPT ![s].at = at, ![s].state = state, ![s].spoke = FALSE,
                             ![s].call = [NoCall EXCEPT !.number = Call(s).number]]

\* A contract, also for an answer nobody can read; none when the call failed.
DeclarationEnds(s) ==
    /\ At(s, {"calling"}) /\ Call(s).purpose = "declare"
    /\ stream' = Inspected(s)
    /\ \E known \in {State(s), With(State(s), Row("contract", "contract_declared"))} :
          Answered(s, "introducing", known)
    /\ UNCHANGED queue /\ Elsewhere /\ Filing

\* A node keeps its name until it is left, whatever route it chooses.
NodeAtWork(state) ==
    LET entered == {i \in DOMAIN state.events : state.events[i].kind = "node_entered"}
    IN  state.events[Max(entered)].node

\* A decision that repeats a call already answered is asked for again, with no
\* tool to name: never the first of a turn, and of the others any.
DecisionArrives(s) ==
    /\ At(s, {"calling"}) /\ Call(s).purpose \in {"decide", "forced", "redirect"}
    /\ stream' = Inspected(s)
    /\ \/ Answered(s, "deciding", State(s))
       \/ /\ Call(s).purpose = "decide" /\ NodeAtWork(State(s)) # "start"
          /\ CallModel(s, "forced", State(s))
    /\ UNCHANGED queue /\ Elsewhere /\ Filing

\* A composed answer, or one that fails its schema, ends the turn; so does a
\* call refused for its size, or out of attempts.
CallSettlesTurn(s) ==
    /\ At(s, {"calling"}) /\ Call(s).purpose # "declare"
    /\ stream' = Inspected(s)
    /\ Answered(s, "leaving", [State(s) EXCEPT !.route = "over"])
    /\ UNCHANGED queue /\ Elsewhere /\ Filing

-----------------------------------------------------------------------------
(***************************************************************************)
(* The engine's loop and its nodes.                                        *)
(***************************************************************************)
NodeOf(state) == state.route

Enters(state) ==
    [With(state, Row(NodeOf(state), "node_entered")) EXCEPT !.steps = @ + 1]

EnterNode(s) ==
    /\ At(s, {"loop"})
    /\ State(s).route \in {"start", "think", "call_tool", "retrieve"}
    /\ State(s).steps < MaxSteps
    /\ LET state == Enters(State(s)) IN
          IF State(s).route \in {"start", "think"} THEN CallModel(s, "decide", state)
          ELSE worker' = [worker EXCEPT ![s].at = State(s).route, ![s].state = state]
    /\ Quietly /\ Elsewhere /\ Filing

OutOfBudget(s) ==
    /\ At(s, {"loop"})
    /\ State(s).route \notin {"over", "paused"} /\ State(s).steps >= MaxSteps
    /\ LET state == [With(State(s), Row("engine", "run_failed")) EXCEPT !.route = "over"] IN
          /\ ShowStep(s, "none", state)
          /\ worker' = [worker EXCEPT ![s].at = "consolidating", ![s].state = state]
    /\ Elsewhere /\ Filing

EngineStops(s) ==
    /\ At(s, {"loop"}) /\ State(s).route \in {"over", "paused"}
    /\ Goes(s, "consolidating")
    /\ Quietly /\ Elsewhere /\ Filing

Leads(s, route) ==
    worker' = [worker EXCEPT ![s].at = "leaving", ![s].state.route = route]

\* A decision is taken, or, once a turn, asked for again with the search withheld
\* and a tool required.  TurnEngine says which route a decision may choose.
Decide(s) ==
    /\ At(s, {"deciding"})
    /\ \/ \E route \in {"think", "call_tool", "retrieve", "over"} : Leads(s, route)
       \/ ~State(s).redirected
          /\ CallModel(s, "redirect", [State(s) EXCEPT !.redirected = TRUE])
    /\ Quietly /\ Elsewhere /\ Filing

\* A write is put to the gateway's checks before it is put to a human.
Preflight(s) ==
    /\ At(s, {"deciding"})
    /\ Put(s, <<LiveRow(s)>>)
    /\ Leads(s, "think") \/ Leads(s, "over") \/ Leads(s, "paused")
    /\ UNCHANGED stream /\ Elsewhere /\ Filing

RunTool(s) ==
    /\ At(s, {"call_tool"})
    /\ Put(s, <<LiveRow(s)>>)
    /\ \E route \in {"think", "call_tool", "over", "paused"} : Leads(s, route)
    /\ UNCHANGED stream /\ Elsewhere /\ Filing

Searched(s) == [stream EXCEPT ![s].search = State(s).steps]

\* Each query overwrites the stream's one pending search.
SearchOnce(s) ==
    /\ At(s, {"retrieve"}) /\ worker[s].searches < MaxQueries
    /\ worker' = [worker EXCEPT ![s].searches = @ + 1]
    /\ stream' = Searched(s)
    /\ UNCHANGED queue /\ Elsewhere /\ Filing

Retrieved(s) ==
    /\ At(s, {"retrieve"})
    /\ CallModel(s, "compose", State(s)) \/ Leads(s, "over")
    /\ Quietly /\ Elsewhere /\ Filing

LeaveNode(s) ==
    /\ At(s, {"leaving"})
    /\ LET node == NodeAtWork(State(s))
           state == With(State(s), Row(node, "node_exited"))
       IN /\ ShowStep(s, node, state)
          /\ worker' = [worker EXCEPT ![s].at = "loop", ![s].state = state, ![s].searches = 0]
    /\ Elsewhere /\ Filing

-----------------------------------------------------------------------------
(***************************************************************************)
(* After the engine: the orchestrator files the run and the service says   *)
(* how it ended.  RunApproval splits the filing into its two saves.        *)
(***************************************************************************)
Paused(state) == state.route = "paused"

Outcome(state) == IF Paused(state) THEN "paused" ELSE "terminal"

\* Nothing is learned from a turn that waits.
Consolidate(s) ==
    /\ At(s, {"consolidating"})
    /\ \/ Goes(s, "filing")
       \/ ~Paused(State(s)) /\
             worker' = [worker EXCEPT ![s].at = "filing",
                            ![s].state = With(@, Row("memory", "memory_written"))]
    /\ Quietly /\ Elsewhere /\ Filing

File(s) ==
    /\ At(s, {"filing"})
    /\ filed' = [outcome |-> Outcome(State(s)), events |-> State(s).events]
    /\ pause' = IF Paused(State(s)) THEN State(s) ELSE pause
    /\ Goes(s, "filed")
    /\ Quietly /\ Elsewhere

Verdict(state) == [type |-> IF Paused(state) THEN "approval" ELSE "answer"]

\* flush_events, then the reply or the request for approval.
Flush(s) ==
    /\ At(s, {"filed"})
    /\ LET rows == NewRows(s, State(s).events) IN
          /\ Put(s, Append(rows, Verdict(State(s))))
          /\ stream' = [stream EXCEPT ![s].emitted = @ + Len(rows)]
    /\ Goes(s, "tail")
    /\ Elsewhere /\ Filing

Finish(s) ==
    /\ At(s, {"tail"})
    /\ Put(s, Closing("finished"))
    /\ Goes(s, "closed")
    /\ UNCHANGED stream /\ Elsewhere /\ Filing

-----------------------------------------------------------------------------
(***************************************************************************)
(* A decision: precheck_approval, and the resumed turn on a stream of its  *)
(* own.                                                                    *)
(***************************************************************************)
\* App.tsx keeps a message's buttons off while a decision taken on it streams
\* (decidingId, ApprovalActions).
BeingDecided(m) == \E r \in Segments : r > 1 /\ message[r] = m /\ reader[r] = "reading"

\* On the requester's own message, once it asks for the approval, the new
\* stream replaces the old one; from the approvals list it gets a message.
DecideFrom(s) ==
    IF view[1].status = "paused" /\ ~BeingDecided(1) THEN {1, s} ELSE {s}

OpenDecision(s) ==
    /\ s > 1 /\ At(s, {"idle"}) /\ \A r \in Segments : r < s => ~At(r, {"idle"})
    /\ Paused(pause)
    /\ \E m \in DecideFrom(s) :
          /\ message' = [message EXCEPT ![s] = m]
          /\ reader' = [r \in Segments |->
                          IF r = s THEN "reading"
                          ELSE IF m = 1 /\ message[r] = 1 /\ reader[r] = "reading"
                               THEN "replaced" ELSE reader[r]]
    /\ stream' = [stream EXCEPT ![s].emitted = AlreadySeen(pause)]
    /\ queue' = [r \in Segments |-> IF reader'[r] = "replaced" THEN <<>> ELSE queue[r]]
    /\ Goes(s, "setup")
    /\ UNCHANGED view /\ Filing

Claim(s) ==
    /\ s > 1 /\ At(s, {"setup"}) /\ Paused(pause)
    /\ worker' = [worker EXCEPT ![s].at = "recording", ![s].state = pause]
    /\ ShowContext(s, pause, stream[s].emitted, <<Started(TRUE)>>)
    /\ pause' = NoPause
    /\ Elsewhere /\ UNCHANGED filed

\* Another approver was first, here or on another screen: RunApproval has
\* the race, and this stream says no more than that it is over.
LoseClaim(s) ==
    /\ s > 1 /\ At(s, {"setup"})
    /\ Put(s, <<Started(TRUE)>> \o Closing("error"))
    /\ pause' = NoPause
    /\ Goes(s, "closed")
    /\ UNCHANGED <<stream, filed>> /\ Elsewhere

RecordDecision(s) ==
    /\ At(s, {"recording"})
    /\ \E verdict \in {"call_tool", "denying"} :
          LET state == [With(State(s), Row("approval", "approval_recorded"))
                            EXCEPT !.route = verdict]
          IN  /\ ShowStep(s, "none", state)
              /\ worker' = [worker EXCEPT ![s].at = IF verdict = "denying" THEN "denying"
                                                    ELSE "loop",
                                          ![s].state = state]
    /\ Elsewhere /\ Filing

\* The refusal closes a step with no row of its own.
Deny(s) ==
    /\ At(s, {"denying"})
    /\ LET state == [State(s) EXCEPT !.route = "over"] IN
          /\ ShowStep(s, "none", state)
          /\ worker' = [worker EXCEPT ![s].at = "consolidating", ![s].state = state]
    /\ Elsewhere /\ Filing

-----------------------------------------------------------------------------
(***************************************************************************)
(* The response and the browser.                                           *)
(***************************************************************************)
Show(s) ==
    /\ reader[s] = "reading" /\ queue[s] # <<>>
    /\ queue' = [queue EXCEPT ![s] = Tail(@)]
    /\ LET event == Head(queue[s]) IN
          IF event.type = "end"
          THEN reader' = [reader EXCEPT ![s] = "ended"] /\ UNCHANGED view
          ELSE view' = [view EXCEPT ![message[s]] = Reduced(@, event)] /\ UNCHANGED reader
    /\ UNCHANGED <<worker, stream, message>> /\ Filing

\* The user leaves, and the page with what it showed; the turn goes on.
HangUp(s) ==
    /\ reader[s] = "reading"
    /\ reader' = [reader EXCEPT ![s] = "stopped"]
    /\ queue' = [queue EXCEPT ![s] = <<>>]
    /\ view' = [view EXCEPT ![message[s]] = InitialTurn]
    /\ UNCHANGED <<worker, stream, message>> /\ Filing

\* What a reload is served: the run as it is filed.
Report == filed

Turn(s) ==
    \/ Breaks(s) \/ Begin(s) \/ Introduce(s)
    \/ Speak(s) \/ Retry(s)
    \/ DeclarationEnds(s) \/ DecisionArrives(s) \/ CallSettlesTurn(s)
    \/ EnterNode(s) \/ OutOfBudget(s) \/ EngineStops(s) \/ Decide(s) \/ Preflight(s)
    \/ RunTool(s) \/ SearchOnce(s) \/ Retrieved(s) \/ LeaveNode(s)
    \/ Consolidate(s) \/ File(s) \/ Flush(s) \/ Finish(s)
    \/ Claim(s) \/ LoseClaim(s) \/ RecordDecision(s) \/ Deny(s)

Next ==
    \/ Ask
    \/ \E s \in Segments : Turn(s) \/ OpenDecision(s) \/ Show(s) \/ HangUp(s)

Spec == Init /\ [][Next]_vars

\* A thread runs on, and a response that is being read is written to.
FairSpec == Spec /\ \A s \in Segments : WF_vars(Turn(s)) /\ WF_vars(Show(s))

-----------------------------------------------------------------------------
Steps == 0..MaxSteps

Nodes == {"start", "think", "call_tool", "retrieve"}

Rows == [node : Nodes, kind : {"node_entered", "node_exited"}]
        \cup [node : {"history", "contract", "approval", "engine", "memory"},
              kind : {"history_recalled", "contract_declared", "approval_recorded",
                      "run_failed", "memory_written"}]

States == [route : Nodes \cup {"over", "paused", "denying"}, steps : Steps,
           redirected : BOOLEAN, events : Seq(Rows)]

\* Where a thread has the run in its hands.
Running == {"calling", "introducing", "loop", "deciding", "call_tool", "retrieve", "leaving",
            "recording", "denying", "consolidating", "filing"}

Places == Running \cup {"idle", "setup", "filed", "tail", "closed"}

Calls == [purpose : {"none", "declare", "decide", "forced", "redirect", "compose"},
          attempt : 0..MaxAttempts, number : Nat]

Workers == [at : Places, state : States, call : Calls, spoke : BOOLEAN,
            searches : 0..MaxQueries]

Streams == [emitted : Nat, last : Steps, calls : Seq(Steps), search : Steps]

Pieces == Segments \X Nat \X (1..MaxAttempts)

Timed ==
    [type : {"row"}, seq : Nat, row : Rows]
    \cup [type : {"live"}, step : 1..(MaxSteps + 1), during : Steps]
    \cup [type : {"step"}, node : Nodes \cup {"none"}, ordinal : Steps, calls : Seq(Steps),
          search : Steps]

Events ==
    Timed
    \cup [type : {"started"}, resumed : BOOLEAN]
    \cup [type : {"context"}, calls : Seq(Steps)]
    \cup [type : {"token"}, piece : Pieces]
    \cup [type : {"reset", "approval", "answer", "finished", "error", "end"}]

Views == [status : {"starting", "running", "paused", "done", "error"}, streamed : Seq(Pieces),
          timeline : Seq(Timed), context : Seq(Steps)]

Waiting == {state \in States : Paused(state)}

\* A queue holds well-formed events, the sentinel only as the last of them,
\* and only while somebody reads it (web/stream.py: close, events).
QueueOK(s) ==
    /\ \A i \in DOMAIN queue[s] :
          queue[s][i].type = "end" => i = Len(queue[s]) /\ At(s, {"closed"})
    /\ reader[s] # "reading" => queue[s] = <<>>
    /\ At(s, {"idle"}) <=> reader[s] = "none"

\* Every variable has its type, every queue is in order, and a stream has
\* sent no row its state does not hold (web/stream.py: step, flush_events).
TypeOK ==
    /\ worker \in [Segments -> Workers]
    /\ stream \in [Segments -> Streams]
    /\ queue \in [Segments -> Seq(Events)]
    /\ reader \in [Segments -> {"none", "reading", "ended", "stopped", "replaced"}]
    /\ message \in [Segments -> Segments]
    /\ view \in [Segments -> Views]
    /\ pause \in {NoPause} \cup Waiting
    /\ filed \in [outcome : {"none", "paused", "terminal"}, events : Seq(Rows)]
    /\ \A s \in Segments :
          /\ QueueOK(s)
          /\ At(s, {"setup", "closed"}) \/ stream[s].emitted <= Len(State(s).events)

\* The preview never runs two attempts of one model call together: what a
\* failed attempt had streamed is gone before the next one is read, however
\* far the browser is behind (llm/gateway.py: answer, call_tools).
PreviewHoldsNoDeadAttempt ==
    \A m \in Segments : \A i, j \in DOMAIN view[m].streamed :
        LET x == view[m].streamed[i]
            y == view[m].streamed[j]
        IN  x[1] = y[1] /\ x[2] = y[2] => x[3] = y[3]

\* A call, a search or a row under an event belongs to its node.
ShownWhereMade(e) ==
    /\ e.type = "live" => e.step = e.during
    /\ e.type = "step" =>
          /\ \A c \in DOMAIN e.calls : e.calls[c] = e.ordinal
          /\ e.search \in {0, e.ordinal}
          /\ e.node = "none" => e.calls = <<>> /\ e.search = 0

\* What a developer opens under a node happened in that node: its model
\* calls, its search and the gateway's rows, in a first segment as in a
\* resumed one (web/stream.py: step, context, trace_event).
CallsShownWhereMade ==
    \A m \in Segments : \A i \in DOMAIN view[m].timeline : ShownWhereMade(view[m].timeline[i])

Opened == {s \in Segments : reader[s] # "none"}

\* The requester's message has carried the whole run and is at rest.
SawItAll ==
    /\ view[1].status \in {"paused", "done"}
    /\ \A s \in Opened : /\ message[s] = 1 /\ At(s, {"closed"})
                          /\ reader[s] \in {"ended", "replaced"}

\* A message shows rows of the run once and in order, each the row that was
\* filed in that place (web/stream.py: step, flush_events).
RowsAreTheRecord ==
    \A m \in Segments : LET timeline == view[m].timeline IN
        \A i \in DOMAIN timeline : timeline[i].type = "row" =>
            /\ timeline[i].seq < Len(Report.events) =>
                  timeline[i].row = Report.events[timeline[i].seq + 1]
            /\ \A j \in DOMAIN timeline : j > i /\ timeline[j].type = "row" =>
                  timeline[i].seq < timeline[j].seq

\* And when a message has carried the whole run, its rows, its node executions
\* and its status are those a reload would rebuild from the filed run
\* (web/stream.py: step, flush_events; web/service.py).
TheScreenIsTheRecord ==
    /\ RowsAreTheRecord
    /\ SawItAll =>
          /\ EngineRows(view[1]) = Report.events
          /\ NodeEntries(view[1]) = NodeSpans(Report.events)
          /\ view[1].status = "paused" <=> Report.outcome = "paused"

-----------------------------------------------------------------------------
(***************************************************************************)
(* The inductive invariant behind them, in parts.                          *)
(***************************************************************************)
Log(s) == State(s).events

Unsent(s) == At(s, {"idle", "setup"})

\* One thread at a time has the run, none while it waits for an approver.
HandoverInv ==
    /\ \A r, s \in Segments : At(r, Running) /\ At(s, Running) => r = s
    /\ Paused(pause) => \A s \in Segments : ~At(s, Running)
    /\ Unsent(1) => /\ ~Paused(pause) /\ filed.events = <<>> /\ stream[1].emitted = 0
                    /\ \A s \in Segments \ {1} : At(s, {"idle"})
    /\ \A s \in Segments : /\ Unsent(s) => Log(s) = <<>> /\ Call(s).number = 0
                           /\ At(s, {"idle"}) => stream[s].emitted = 0

\* At work in a node, the stream holds what that node did and no more.
InNode(s) ==
    At(s, {"deciding", "call_tool", "retrieve", "leaving"})
    \/ (At(s, {"calling"}) /\ Call(s).purpose # "declare")

NodeInv(s) ==
    /\ InNode(s) =>
          /\ stream[s].last + 1 = State(s).steps
          /\ stream[s].search \in {0, State(s).steps}
          /\ \A c \in DOMAIN stream[s].calls : stream[s].calls[c] = State(s).steps
          /\ \E i \in DOMAIN Log(s) : Log(s)[i].kind = "node_entered"
    /\ At(s, {"loop", "recording", "denying"}) =>
          /\ stream[s].last = State(s).steps
          /\ stream[s].calls = <<>> /\ stream[s].search = 0
    /\ At(s, {"calling"}) =>
          Call(s).number > 0 /\ Call(s).attempt > 0 /\ Call(s).purpose # "none"

\* Whoever has held the run agrees on its rows, and whoever holds it has
\* them all.
Agree(a, b) == \A i \in DOMAIN a \cap DOMAIN b : a[i] = b[i]

Covers(log) ==
    /\ Len(filed.events) <= Len(log)
    /\ \A r \in Segments : /\ Len(Log(r)) <= Len(log)
                           /\ At(r, {"setup"}) => stream[r].emitted <= Len(log)

LogInv ==
    /\ \A r, s \in Segments : Agree(Log(r), Log(s))
    /\ \A s \in Segments : Agree(Log(s), filed.events)
    /\ \A s \in Segments : At(s, Running) => Covers(Log(s))
    /\ Paused(pause) => pause.events = filed.events /\ Covers(pause.events)

\* A row in flight is the row of its place, and comes after those shown.
RowsInv(s) ==
    LET q == queue[s]
        shown == view[message[s]].timeline
    IN  /\ \A i \in DOMAIN q : IsRow(q[i]) =>
              /\ q[i].seq < stream[s].emitted /\ q[i].seq < Len(Log(s))
              /\ q[i].row = Log(s)[q[i].seq + 1]
              /\ \A j \in DOMAIN q : j > i /\ IsRow(q[j]) => q[i].seq < q[j].seq
        /\ reader[s] = "reading" =>
              \A k \in DOMAIN shown : IsRow(shown[k]) =>
                  /\ shown[k].seq < stream[s].emitted
                  /\ \A i \in DOMAIN q : IsRow(q[i]) => shown[k].seq < q[i].seq

ScreenInv(m) ==
    LET shown == view[m].timeline IN
    \A k \in DOMAIN shown : IsRow(shown[k]) =>
        /\ \E s \in Segments : /\ shown[k].seq < Len(Log(s))
                               /\ shown[k].row = Log(s)[shown[k].seq + 1]
        /\ \A l \in DOMAIN shown : l > k /\ IsRow(shown[l]) => shown[k].seq < shown[l].seq

\* A message is its segment's own or the requester's, and one stream feeds it.
FeedInv ==
    \A s \in Segments :
        /\ message[s] \in {1, s}
        /\ \A r \in Segments : /\ reader[r] = "reading" /\ reader[s] = "reading"
                               /\ message[r] = message[s]
                               => r = s

\* A piece of a dead attempt is gone, or a reset is on its way to it.
ResetIn(s, from, to) == \E k \in from..to : queue[s][k].type = "reset"

AtStake(s, piece) == At(s, {"calling"}) /\ piece[2] = Call(s).number

PiecesInv(s) ==
    LET q == queue[s] IN
    /\ \A i \in DOMAIN q : q[i].type = "token" =>
          /\ q[i].piece[1] = s /\ q[i].piece[2] \in 1..Call(s).number
          /\ AtStake(s, q[i].piece) => q[i].piece[3] = Call(s).attempt \/ ResetIn(s, i, Len(q))
          /\ \A j \in DOMAIN q :
                j > i /\ q[j].type = "token" /\ SameCall(q[i].piece, q[j].piece) =>
                   q[i].piece[3] = q[j].piece[3] \/ ResetIn(s, i, j)
    /\ \A m \in Segments : \A k \in DOMAIN view[m].streamed :
          LET x == view[m].streamed[k] IN
          x[1] = s =>
             /\ x[2] \in 1..Call(s).number
             /\ m = message[s] /\ reader[s] = "reading" =>
                   /\ AtStake(s, x) => x[3] = Call(s).attempt \/ ResetIn(s, 1, Len(q))
                   /\ \A i \in DOMAIN q :
                         q[i].type = "token" /\ SameCall(x, q[i].piece) =>
                            x[3] = q[i].piece[3] \/ ResetIn(s, 1, i)

OneCall(m) ==
    \A i, j \in DOMAIN view[m].streamed : SameCall(view[m].streamed[i], view[m].streamed[j])

StreamInv ==
    /\ TypeOK /\ HandoverInv /\ LogInv /\ FeedInv
    /\ \A s \in Segments :
          /\ NodeInv(s) /\ RowsInv(s) /\ ScreenInv(s) /\ PiecesInv(s) /\ OneCall(s)
          /\ \A i \in DOMAIN queue[s] : ShownWhereMade(queue[s][i])
    /\ PreviewHoldsNoDeadAttempt /\ CallsShownWhereMade

\* Whatever becomes of the turns and of whoever watches them, every thread
\* that started ends, and no response stays open (web/service.py: run_turn,
\* resume_turn).
StreamEnds ==
    <>[](\A s \in Segments : At(s, {"idle", "closed"}) /\ reader[s] # "reading")
=============================================================================
