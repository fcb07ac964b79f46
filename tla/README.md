# Agentic ERP assistant: TLA+ models, checks and proofs

This directory models the parts of `src/agentic_erp_assistant` whose correctness
depends on order: what a turn of the assistant may do, what the tool gateway
does under concurrent calls, how a run that waits for a human moves between
processes, what its turns leave in the session's memory, what an ingest leaves
in the document index, and what somebody who watches a turn is shown. Paths below are relative to `src/src/agentic_erp_assistant/`.

    tlasany M.tla                          parse
    tlc -config X.cfg MCModule             check (runs are listed in PROJECT.json)
    tlapm XProofs.tla                      prove

## 1. Inventory

| Component | State it keeps | Operations | Hard part | What makes it correct |
|---|---|---|---|---|
| Turn engine (`engine/workflow.py`, `nodes.py`, `transitions.py`) | one `AgentState` per turn: route, approval, current call, reply contract, redirects spent, observations, counters | `think`, `retrieve_and_answer`, `execute_tool`, `run`, `resume_approval` | a planner that may answer anything; loops of redirects and retries; an approval that stays on the state; exceptions from a forbidden move | writes only against their own approval; no success repeated; replies marked when incomplete; no exception; it stops |
| Planner and completeness (`reasoning/`) | none | `plan`, `declare`, `assess`, `next_redirect` | `tool_choice` and `withhold` are wishes a port may ignore | the engine is right even then |
| Tool gateway (`tools/gateway.py`, `limits.py`, `llm/retry.py`) | timestamps per actor and tool, shared by all turns; one thread per attempt; audit rows | `execute`, `preflight`, limiter `check` and `record` | check and record are separate critical sections; late clock readings; threads that cannot be cancelled; retries | bounded overspending, honest waits, no effect after the outcome, no work off the record |
| Orchestration and approvals (`engine/orchestrator.py`, `persistence/postgres_pause.py`, `postgres_trace.py`, `web/service.py`) | rows of `runs`, `pauses`, `session_turns` | `handle`, `resume`, `save_run`, `save`/`pending`/`claim`, `precheck_approval` | every statement commits by itself; processes die in between; two approvers; a run that pauses again | a pause is settled once, the record is never stale, what waits is in the queue |
| Conversation window (`memory/conversation.py`) | the turns of a session, promoted or not | `append`, `recent`, `evicted`, `mark_promoted` | a turn is written twice, by two processes; pending turns occupy the window | a turn the window no longer shows is promoted |
| Memory (`memory/service.py`, `policy.py`, stores and index) | live and superseded memories, summaries, open intents, index entries | `recall`, `consolidate`, intents | several writes without a transaction; concurrent turns of a session; an index that may fail | one live memory per key; nothing known is forgotten; nothing promoted is lost |
| ERP store (`erp/mock.py`) | risks, the data file | `create_risk`, reads | concurrent numbering; a failing flush | the file and the memory agree |
| Event stream (`web/stream.py`, `ui/src/turnReducer.ts`) | a queue, a row counter and two buffers per turn; a view per message | `step`, `context`, `delta`, `reset`, `trace_event`, `flush_events`, `close`; the reducer | producer and consumer threads; partial text withdrawn by `reset`; a resumed run on a second stream | the screen is the filed run; calls appear under their node; it closes |
| LLM gateway (`llm/gateway.py`, `adapters/`) | usage records | calls with retries, streaming | a stream that breaks off in the middle | every call recorded; no text of a failed attempt kept |
| Prompt context (`context/`) | none | compaction and budget | token arithmetic | inside the budget |
| Retrieval (`rag/`) | chunks in Qdrant, a lexical index per server | ingest, search, access filter | an ingest that dies half way or meets another; a lexical index older than the store | the index catches up; nothing outside the actor's access; ranked as both searches agree |
| Web, composition, settings, evaluation, UI layout | none of their own | construction, reads | | |

How they interact: a request reaches `ChatService.run_turn`, which builds the
ports of one turn and calls `RunOrchestrator.handle`. That prepares the state
(history, memory, declared contract), lets `WorkflowRuntime.run` drive the
nodes, consolidates memory, files the run record, files a pause if the turn
waits, and records the turn in the session's window. The nodes call the planner,
the retriever, the composer and the gateway. The gateway of each turn is its
own; the limiter behind it is one per process. An approver lists the pauses and
posts a decision; `precheck_approval` and then `claim` settle the pause, and
`RunOrchestrator.resume` continues the turn in the approver's process.

The hazards of the code, each at its line and with the properties that cover it,
are listed in `PROJECT.json`.

## 2. Modules

| Module | Models |
|---|---|
| `Transitions` | the transition table and `assert_transition` as a predicate `LegalMove` |
| `TurnEngine` (EXTENDS `Transitions`) | one turn: the nodes, the redirects, the budgets, pause and resumption |
| `HumanGate` | the abstract promise about writes: asked, approved, started |
| `MemoryPolicy` | what may be remembered and what it replaces (`decide`), as operators |
| `ConversationWindow` | what a window shows and what it evicts, as operators |
| `SessionSummary` (EXTENDS `Enumeration`) | what a summary says, how it is written as a line and read back, as operators |
| `SessionMemory` (EXTENDS these three) | the turns of a project consolidating into its stores |
| `Retrieval` (EXTENDS `Enumeration`) | access, the two rankings, their fusion and the search, as operators |
| `DocumentIndex` (EXTENDS `Retrieval`) | the corpus, the ingest and the servers that search |
| `TurnView` | the browser's reducer, the grouping of rows into nodes, a view rebuilt from a filed run |
| `ReplyStream` (EXTENDS `TurnView`) | a turn and its resumption reporting to streams that are read |
| `ToolGateway` | concurrent calls of one actor to one tool |
| `RunApproval` | one run over many processes: segments, rows, approvers, crashes |
| `Enumeration` | sets of numbers in order, and parts of sequences, as functions that can be proved about |
| `TurnEngineProofs`, `ToolGatewayProofs`, `RunApprovalProofs`, `SessionMemoryProofs`, `DocumentIndexProofs`, `ReplyStreamProofs` | theorems about the module each extends |
| `EnumerationProofs` | what ordering and picking return, for any finite set and any strict total order |
| `ReplyScreenProofs` (EXTENDS `ReplyStreamProofs`, `EnumerationProofs`) | that a screen which carried the whole run shows the run |
| `MCTurnEngine`, `MCToolGateway`, `MCRunApproval`, `MCSessionMemory`, `MCDocumentIndex`, `MCReplyStream` | constants for TLC |

`TurnEngine` and `RunApproval` both implement `HumanGate`, the first inside one
process with calls as its calls, the second across processes with the k-th pause
of the run as its k-th call.

### TurnEngine

A call stands for a tool name with its arguments. A step is one pass of the loop
in `WorkflowRuntime.run`: `Think`, `Retrieve`, `ExecuteTool` are the nodes of
`GraphNodes.table`, `OutOfBudget` is `_out_of_budget`, `Approve` and `Deny` are
`resume_approval`. `Advance` is `advance()`: a move the table forbids sets
`broken`, which stands for the exception the code raises. `succeeded` abstracts
the observations to what the guards read, `evidence` to whether anything was
found, `reply` to the kind of text delivered. `asked`, `granted`, `ran` are
history variables.

The planner may answer with any route, for any call, whenever it is asked. What is
not free is the route of a call: `request_approval` for a write and `call_tool` for
anything else, as `Planner._tool_call` reads it off the declaration
(`ToolDecisions`). `ReasoningDecision` would also allow a write under `call_tool`, or
a read that a planner puts to a human itself; no planner of the repository makes
such a decision, and nothing is claimed of one that does. With `HonoursToolChoice`
the planner obeys `tool_choice` and `withhold`, as the provider behind `Planner`
does; without, it ignores both. The passing run uses the second, whose behaviours include
those of the first; the violation runs use the first, so that no finding rests
on a planner the product does not have. The gateway answers with any status its
contract allows for the call and the approval handed to it; an exception that
escapes from `execute` (section 6) is not among them.

### ToolGateway

`Begin` is the part of `_checks` before the limiter; `BudgetSpent` and
`BudgetLeft` are `limiter.check`, under the lock, and what follows; `ReadClock`
and `Count` are the clock reading and `limiter.record`; `StartHandler`,
`HandlerEnds`, `GiveUp`, `Retry`, `Return`, `Escape` are an attempt, its thread
and the ways out of `_run`. `stamp` is a clock reading taken before the lock, so
`log` is in the order of recording, not of time. `MaxConcurrent` is the number of
turns in progress. A name that is not registered, and the calls of other actors
or tools, touch other keys of the limiter and are left out. Back-off takes no
time. A row is the row handed to the audit sink: `PostgresAuditLog` logs and
swallows a failure of its own. A handler that ends in anything but the two tool
errors has had no effect (`HandlerEnds`): `create_risk` takes its row out again when
the flush fails, and whatever else raises there raises before it.

### RunApproval

Segment 1 is `handle`, segment k+1 the `resume` that claimed pause k. A stage is
the last thing a segment did: `running` the engine, `ran`, `filed` its run
record, `queued` its pause if it has one, `done` with the window row. `Crash` is
a killed process or a store that raises, at any of these points. `ListApprovals`,
`CheckStatus`, `LoadPending`, `ClaimPause`/`AlreadySettled` are the statements of
an approver's requests, each its own transaction because connections are in
autocommit. `RunEngine` is the whole engine: what it may do is the interface that
`TurnEngine` details. Which approvers may decide at all is not modelled.

### SessionMemory

A process is a segment of a turn, `<<t, 1>>` its `handle` and `<<t, 2>>` its
`resume`; `job[p].at` is the statement it is about to make. `ReadEvicted` to
`MarkPromoted` are `SessionMemory.consolidate` as the orchestrator calls it, one
action per statement on a store, because each commits by itself: reading what
exists, judging one candidate and writing it (`Judge`, over `MemoryPolicy.Decide`),
folding the evicted turns into a summary, writing it, retiring what was replaced,
the two calls on the vector index, and the promotion mark. `Raise` is a store that
raises in the middle (the orchestrator goes on and records the turn), `Die` a
killed process. A memory is its id: kind, key, statement and owner, which is what
`memory_id` hashes. `MemoryPolicy` orders the checks and finds conflicts as
`decide` does; what makes a statement sensitive, or two statements one topic, is
data (`flaws`, `Topic`). `Recalls` are the memories `recall` may gather: the pinned
ones up to `RecallLimit` and the points of a search up to `SemanticCandidates` (both
8 in the code, `memory/service.py:289-291` and `335-339`), any of them where there
are more; the budget of `select_memories` behind it is not modelled.
`ConversationWindow` are the queries of the window over a table of turns numbered by
`started_at`. Nothing in the repository opens or closes an intent, so intents are
left out.

### SessionSummary

What a summary says, as operators over sayings. A saying is the request of a turn,
named by the turn, or a note, which stands for anything else a proposer may name and
for what is left of a saying that was cut or split. Its statement is one line, and
the next fold knows the summary before it by that line only, so the module has the
three steps of a fold:

* what to say (`memory/promotion.py`): the goal is the proposer's, else the carried
  one, else the oldest request (`Goal`), and none of the three is filtered yet; the
  questions are the batch's own, then the proposer's, then the carried ones, each
  once (`Merged`), cut to the cap (`Capped`);
* how it is written (`_render`): what reads as an instruction is dropped now, when it
  has displaced something already (`Safe`), and what the 400 characters do not hold
  is left out, or cut when nothing stands before it (`Statements`);
* how it is read back (`parse_summary`): an item falls apart at `; ` and at the
  labels of the sections, and a line that ends in dots loses the last item of its
  first section, also where the dots were the item's own (`Section`, `Endings`,
  `ParseSummary`).

How long a saying is, how it ends and what it is read back as are data (`Long`,
`Dotted`, `Clipped`, `Pieces`). Whether two sections fit one line is open, so
`Statements` has every outcome; a saying in `Long` does not fit a line of its own.
Of the three other sections only two things are followed, whether there are any and
whether the end of the line is theirs; what they say is chosen anew at each fold,
when the proposer or a carried line can supply it. When a text begins with a label
right behind another item, the code leaves a `;` at that other item; here the item is
read back without it. The request of a turn is taken to be a text of its own: two
turns that ask the same are two sayings.

### DocumentIndex

A run of the script is a process whose calls on the store commit one by one:
`LoadDocuments`, `ReadHashes`, `DeleteRemoved`, `Embed`, `DeleteChanged`,
`Upsert`; `Stop` kills it between any two, and a provider that fails is the same.
`Edit` changes a manifest row or a file at any time. `points` is the collection, a
chunk being its id (document, section, part), the passage, and the access fields
stored with it; an id depends on where the text was cut, which is why chunks are
deleted by document. An entry of the corpus is a text, which are the bodies and
locators the content hash covers, a header, which are the title and the headings that
stand above each body in a passage and that the hash leaves out, and who may read it.
An edit may change any of the three; only a changed text makes the document one of
those to be written again (`Changed`). `ReadHashes` takes the hash of any chunk where those of a
document disagree, as the scroll's order is the store's. `StartServer` takes the
lexical snapshot. `Retrieval` is a function of the two indexes and of who asks:
access filter, the two rankings, the floor, and the sum of reciprocal ranks, as
exact fractions. How similar a passage is to the question, and how many of its
words it shares, are given (`Similarity`, `Overlap`), as whole numbers: the code
only compares them with each other and with the floor.

### ReplyStream

Segment 1 is `run_turn`, a later one the `resume_turn` of a decision. `worker` is
the thread with the `AgentState` it holds, down to the rows of its trace; `stream`
is the `TurnStream`: how many rows it has sent, the last step it closed, the model
calls and the search it buffers for the next step; `queue` the events between the
thread and the response; `view` what the reducer has made of them. `ShowStep`,
`ShowContext`, `LiveRow`, `Flush` and `Closing` are the methods of `TurnStream`.
A model call is `CallModel`, any number of `Speak` and `Retry`, and one of
`DeclarationEnds`, `DecisionArrives`, `CallSettlesTurn`. A node that decides may call
twice more: under `tool_choice="none"` when the decision repeats a success
(`engine/nodes.py:238-246`), which may stream text, and under `"required"` when a
field is redirected, which may not. Which decisions repeat a success is `TurnEngine`'s
business; here any decision but a turn's first may. Which node follows which
is left to `TurnEngine`: here a node may lead anywhere, so what is shown here holds
of a superset of its turns. `File` is `save_run` with `pauses.save` in one, which
`RunApproval` splits; `LoseClaim` is any approver who was second. A call forced to
choose a tool streams no text, which is the provider's behaviour (external). A
decision can be taken on the requester's message only while it waits and no other
decision taken on it is still being read (`BeingDecided`: the page keeps the
buttons off). Without that guard a third segment could replace a stream nobody had
read, and the message would lack its rows; two segments cannot show this. The
preview is kept for the latest call only. A reader that hangs up takes its page
with it; a reload is served `Report`.

## 3. Runs

| Run | Shows | Bounds | States |
|---|---|---|---|
| `turn_engine` | `TypeOK`, `NothingEscapes`, `UnmarkedAnswersAreComplete`, `RefusalSpentARedirect`, `SuccessIsNotRepeated`, `ImplementsGate`, `TurnSettles` | a read, an escalated read, two writes; 8 steps, 1 retry | 7.2k |
| `gateway_limits` | `BudgetHolds`, `RetryAfterIsHonest` | four calls, two turns, budget 1 per 2 ticks, clock to 4 | 213k |
| `gateway_attempts` | `TypeOK`, `RefusedCallsCostNothing`, `HandlersAreContained`, `AppliedAsReported`, `WorkIsOnRecord`, `CallsReturn` | two calls, two attempts, timeout 1, clock to 2 | 81k |
| `run_approval` | `TypeOK`, `PendingHasItsRecord`, `PausesAreFiled`, `OneProcessDrivesTheRun`, `RecordsOnlyAdvance`, `ImplementsGate`, `WaitingRunsAreQueued` | two approvers, three segments, crashes | 21k |
| `session_memory` | `TypeOK`, `OneMemoryPerKey`, `RecallFindsWhatIsLive`, `PromotedIsFolded`, `NothingPromotedIsLost`, `CleanTurnsCloseTheGap`, `ReplacedBeforeRetired`, `GoalStands`, `KeysKeepAMemory` | three turns, one paused; two at work at once; one failure | 1.32M |
| `document_index` | `TypeOK`, `IngestCatchesUp`, `EvidenceIsRankedInScope`, `UntouchedStaysFindable` | two documents, two headers, three ingests, two at once; one edit, one failure | 189k |
| `reply_stream` | `TypeOK`, `PreviewHoldsNoDeadAttempt`, `CallsShownWhereMade`, `TheScreenIsTheRecord`, `StreamEnds` | a request and a decision, two steps, two attempts, two queries, a reader two events behind | 561k |
| `turn_budget` | `ApprovedCallCanRun` is violated | three reads, one write, 8 steps | |
| `turn_refusal` | `RefusalWasTested` is violated | as `turn_engine` | |
| `gateway_wait` | `WaitIsBounded` is violated | two calls | |
| `approval_shown` | `ApproversSawTheCall` is violated | as `run_approval`, no crash | |
| `approval_conflict` | `ConflictMeansSettled` is violated | as `run_approval`, no crash | |

Why the bounds are enough. Eight steps is the value of `MAX_STEPS`, and
two writes are what it takes for an old approval to meet a new write; the proofs
remove this bound. In the gateway two turns are needed for a race between check
and record, and four calls for the worst case two turns can reach: one call past
the check when the budget runs out, and one whose late timestamp displaces a
newer one. For more turns the bound of `BudgetHolds` grows with the square of
their number, so three turns take calls and time that TLC no longer covers in
minutes; the theorem removes these bounds. Two attempts and a timeout shorter than the clock make every way out
of `_run` happen. Three segments give a run that pauses, is resumed, pauses again
and is resumed again, which is where the keyed-by-run decisions matter; two
approvers give every race over one pause. `MaxSegments` is the only bound of that
module: the last segment cannot pause.

In `session_memory` three turns with a window of one give an eviction while
another turn is in the window, and a second fold over a first summary; the second
turn may wait, so its `resume` can meet the `handle` of the third. `ItemCap` and
`Batch` are 2, so that a batch and a section can be full. The first turn ends in a
question, the second asks something no summary may quote. Of the notes one is a goal
that does not fit a line, so that it is cut and what is left of it is read back; one
is a goal no summary may quote; one is a question that ends in dots and falls apart at
a label in its middle; and one is what each leaves behind. The limits of recall are
such that both the pinned memories and the points of a search may exceed them and may
not. The lists of candidates name one key twice, return to a statement that was there, keep a preference under
another key of the same topic, and try a statement with two flaws. From the start
there are another actor's preference and another session's fact, and two preferences
of the same actor on one topic under different keys, which a third preference on it
then meets; that takes four statements and three keys.
`MaxFailures` is
one, of any kind at any statement. Batches longer than a section, and sections whose
only place is taken by a question that may not be quoted, are beyond what this run
can hold; the theorem `NothingLost` has them. In `document_index` two documents are one that
changes and one nobody edits; the two texts are cut differently, so their chunks
have other ids, and so is one text under the other header; one of the two scopes hides a passage from one of the two
askers. Three ingests give one that dies, one that overlaps it and one that must
catch up. In `reply_stream` two segments are the least with a resumption; two
steps let a node follow a node, and the budget run out; a lag of two events lets a
reset arrive before the text it voids was read.

Deadlock is checked in `document_index`, where a server may always start, and
nowhere else: turns, calls and runs end.

Fairness of `ReplyStream`: weak fairness of each segment's thread and of each
response that is being read. `StreamEnds` assumes nothing of the user, who may
hang up or never decide.

Fairness. `TurnEngine`: weak fairness of the engine's step, since `run` is a loop
over ports that return; nothing is assumed of the human, so `TurnSettles` says
that the turn ends or waits. `ToolGateway`: weak fairness of each call's own
steps and of its handler; `CallsReturn` therefore assumes that handlers end,
which the gateway does not ensure (`gateway_wait`). No fairness of the clock is
needed. `RunApproval`: weak fairness of each segment, which is a thread that runs
unless it crashes; none of the approvers.

### What the violations show

* `turn_budget`. A pause does not reserve a step of the budget. When the step that
  asks for approval is the last, the approval is recorded and the turn ends with
  `max_steps_exceeded`; the docstring says "An approved call runs".
* `turn_refusal`. Of two missing needs only the field is redirected before a
  second refusal is accepted; the comment says a refusal is untested "until the
  need the contract itself declared has actually been looked for".
* `gateway_wait`. Leaving `with ThreadPoolExecutor` waits for the handler, so the
  timeout changes the outcome and not the wait.
* `approval_shown`. A decision names the run, not the pause, and settles whichever
  pause is pending by then.
* `approval_conflict`. `precheck_approval` reads the status of any one row of the
  run. With a settled row beside the pending one the approver may be told 409.
  A table scan that meets the older row first refuses the second pause of every
  run.

## 4. Proofs

`TurnEngineProofs` proves, for every set of calls, every choice of writes and
escalated reads, every step and retry budget, and both kinds of planner:

| Theorem | Statement |
|---|---|
| `EngineInvariant` | `Spec => []EngineInv` |
| `TypeCorrect`, `EngineNeverRaises`, `WritesGranted`, `RepliesHonourTheContract`, `RefusalsAreEarned`, `PlannerBounded` | its consequences |
| `SuccessesAreNotRepeated` | the action property `SuccessIsNotRepeated` |
| `EngineImplementsGate` | `Spec => Gate!Spec` |

They rest on `CallsAssumption` (writes and escalated reads are disjoint sets of
calls; `NoCall` and `SearchCall` are not calls) and `BudgetAssumption`, which TLC
evaluates in every run.

The argument. `WritesAreGranted` is not inductive: `execute_tool` hands the
recorded approval to the gateway, and that approval outlives the call it was
given for. What makes it safe is that a write reaches `call_tool` only through
`request_approval`, so `GrantInv` says that a write on its way to the gateway has
an approval no start has used. To keep that through `Approve` one must know that
a pause is the only place where approval is pending (`PauseInv`), and that the
effect declared to `advance` is the registry's (`EffectInv`), since
`assert_transition` decides on the declaration and not on the call. `CallInv`
says that the call about to run has not succeeded, which gives
`SuccessIsNotRepeated`; it holds across the field redirect, whose second decision
nothing checks for repetition, because that redirect happens only when no call has
succeeded. The same fact gives `PlannerAskedAtMostTwice`. `broken = "no"` is part
of the invariant: each move of each node is shown to be in the table. The
refinement maps `Think`, `Retrieve`, `OutOfBudget` to `Ask`, `Finish` or a
stutter, `ExecuteTool` to `Start`, to `Ask` or to a stutter, and the human's steps
to `Approve(call)` and `Deny`. There is one lemma per node and one step per
branch.

`RunApprovalProofs` proves, for every number of segments and every set of
approvers, with and without crashes:

| Theorem | Statement |
|---|---|
| `RunInvariant` | `Spec => []RunInv` |
| `TypeCorrect`, `PausesFiled`, `PendingRuns`, `OneProcess` | its consequences |
| `RecordsAdvance` | the action property `RecordsOnlyAdvance` |
| `RunImplementsGate` | `Spec => Gate!Spec` |

They rest on `RunAssumption` only. The argument: the segments of a run form a line,
because a segment is started by the claim that settles the pause before it and
by nothing else (`ChainInv`), and a claim settles a row once. So at most one
segment is unfinished, it is the one after the last row, and while it is
unfinished no row is pending (`ActiveIsLast`, `ActiveMeansNothingPends`). Hence a
pausing segment always finds the partial unique index free (`PausesFiled`), its
record is newer than the one it replaces (`RecordInv`), and its write has not been
started before (`StartInv`). `EndingInv` adds that a denial is never followed by
another pause, which the refinement needs: the gate is over for good. Crashes
keep the line, since nobody takes a lost segment up again; that is also why an
approved write may be lost, and why nothing here claims it runs at least once.
The refinement maps an approval to `Approve`, a filed pause to `Ask`, the engine's
run to `Start` or `Finish`, and a crash of the last unfinished segment to `Finish`.

`ToolGatewayProofs` proves, for every set of calls and every budget, window, timeout
and number of attempts:

| Theorem | Statement |
|---|---|
| `GatewayInvariant` | `Spec => []GatewayInv` |
| `TypeCorrect`, `RefusalsAreFree`, `HandlersContained`, `OutcomesAreTrue`, `WorkIsAudited` | its consequences |
| `UnretriedWorkIsAudited` | with one attempt, a gated call that did something left a row, escape or not |
| `DelaysAreHonest` | `Spec => []RetryAfterIsHonest` |

They rest on `GatewayAssumption`. The argument: what a place in `execute` says of
the attempts made, the handler, the charge and the rows (`UnchargedInv`,
`AttemptInv`, `EffectInv`, `OutcomeInv`). `AppliedAsReported` is not inductive: a
handler that ends late would make it false, and what forbids that is that leaving
the pool waits for the handler, so a handler is at work only inside the wait of
the attempt that started it. `WorkIsOnRecord` speaks of the way out that writes no
row: a call that raised did so from its last attempt, and an attempt that raised had
no effect, so what was done was done by an earlier one, which reported a timeout and
was retried (`AttemptInv`, `EffectInv`). That the log never grows past the budget needs a
fact about sequences, that clearing the aged entries leaves a suffix
(`LiveIsASuffix`). `DelaysAreHonest` has an invariant of its own (`PromisesInv`):
while nobody records, the first entry of a full log is the one the promise was
made of, because clearing leaves the log whole or makes room.

`SessionMemoryProofs` proves, for every set of turns, scopes and proposals, every
window and any number of failures:

| Theorem | Statement |
|---|---|
| `RecordsInvariant` | `Spec => []RecordsInv` |
| `ReplacedFirst` | the action property `ReplacedBeforeRetired` |
| `KeysKept` | the action property `KeysKeepAMemory` |
| `OneRecordPerKey` | `OneMemoryPerKey` |
| `RecallIsComplete` | `RecallFindsWhatIsLive`: nothing but what is live and in scope, for all limits; all of it where a search can return as many points; all that is pinned where as many are shown |

They rest on `MemoryAssumption`, `ProposalAssumption` (candidates have the fields
a proposer's tool call has, and a list of none is no proposal),
`HeldAssumption` (a project that is claimed to be untroubled has been so before) and,
as far as they speak of summaries, on `SummaryAssumption` and `NamingAssumption`.
The argument for `ReplacedFirst` needs nothing of the other processes: `decide`
refuses a statement that is there, so what it supersedes says something else under
the same kind and scope (`VerdictReplaces`), and each record a process holds for
retirement has such a replacement among what it wrote (`HandInv`), which only the
end of the process forgets. `KeysKept` says more, that a key which had a live
memory has one after every step, and needs that nothing overlaps: what a process
is about to retire, what it wrote and what it judged against are then live, and
each memory to be retired has an heir among what was written that is not itself
to be retired (`KeepingInv`), as long as the turn has not returned to a statement
it replaced. The last two are claimed for projects where nothing
overlapped or failed. There at most one process is at work (`AloneInv`), so what
it judges against is all that will be left once it has retired what it replaced
(`JudgingInv`): that remainder has one record per key, although the table itself
has two for a while. The points go after their records are gone, so the index
never loses one that is live.

The second part of `SessionMemoryProofs` proves, for every set of turns, window,
batch and cap:

| Theorem | Statement |
|---|---|
| `SummaryInvariant`, `WindowInvariant`, `TypeInvariant`, `QuestionsInvariant` | `Spec => []SummaryInv`, `Spec => []WindowInv`, `Spec => []TypeInv`, `Spec => []QuestionsInv` |
| `TypeCorrect` | `TypeOK` |
| `NothingLost` | `NothingPromotedIsLost` |
| `PromotedFolded` | `PromotedIsFolded` |
| `GoalKept` | the action property `GoalStands` |
| `GapClosed` | `CleanTurnsCloseTheGap` |

They rest on the same assumptions. The argument for
`PromotedFolded` is local to a process: between the write of a summary and the
mark, either a row it wrote holds its batch, or nothing was written because the goal
the batch came to was dropped by the filter, and then it is the proposer's
(`Misled`), the carried one, which was split when it was read back (`Spoiled`), or
the request of the batch's oldest turn (`BatchInv`); rows are never removed, so no
other process can undo it. `GoalKept` is claimed of a goal that reads back as it was
written and may be written again (`Firm`): one that was cut, split at `; ` or lost
with the dots of its line is not, and neither is one that a proposer replaces. As long
as nothing overlaps, the newest summary a process read is still the newest when it
writes (`GoalInv`), a firm goal it read is then the goal it writes, whatever else is
on the line, because the goal comes first and is cut only when it does not fit
(`FoldGoalIs`), and the rows it retires afterwards are older than the one it wrote, so
the newest is never retired and hands its goal on. `GapClosed` is about counting. In an untroubled
project that never paused the turns come one after the other
(`OneAfterTheOther`), so at every step a process carries, each turn that is not
promoted is in its batch or among those a window one place smaller would show
(`GapInv`). At most one turn is outside that smaller window, because the turn
before left none outside the whole one, so it is the oldest of the batch and every
`Batch >= 1` takes it. Recording the turn moves one row out of the window and one
in. `TypeCorrect` is about data that goes round: the items of a summary are those
of the one before, so that a section holds only what may be quoted or is left of it,
and no more than the cap, follows only for the row that was written from the row about
to be (`TypeInv`), and for that one from what merging, cutting, writing and reading
back return (`MergedHolds`, `StatementIsText`, `ReadItems`, `EnumerationProofs`).
`NothingLost` follows a question from the fold to the mark. A question has given way
(`GaveWay`) when some fold of its session had no room for it, in the section or on the
line, or when some summary says it and does not read back with it; both stay on
record (`GoneStays`). Any other question of the batch, and any other one the newest
summary holds, is among what is merged, within the cap, past the filter and on the
line (`FoldCarries`). While nothing overlaps, the row about to be written therefore
holds what the newest summary held and the batch; once written it is the newest;
retiring takes older ones only; and the mark claims only what is held by then
(`CoverInv`). A batch that yields no summary has an empty section, so each of its
questions has given way, and so has each carried one. The batch is finite although
`Turns` need not be, since what is folded has been recorded (`FoldedInv`) and at every
step finitely many turns have been (`WindowInv`).

`DocumentIndexProofs` proves, for every corpus, every way of splitting a text and
any number of interrupted ingests:

| Theorem | Statement |
|---|---|
| `IndexInvariant` | `Spec => []IndexInv` |
| `TypeCorrect`, `IngestsCatchUp` | `TypeOK`, `IngestCatchesUp` |
| `UntouchedStays` | the action property `UntouchedStaysFindable` |
| `SearchInvariant` | `Spec => []SearchInv` |
| `EvidenceIsRanked` | `EvidenceIsRankedInScope` |

The first four rest on `IndexAssumption`. `IngestCatchesUp` says what the hash allows
and no more: after an undisturbed ingest the index holds, of each listed document, the
whole of one version whose text is the text that was loaded, and the loaded version
itself where the text was not indexed before. Under which headings and title an
unchanged text stands, and for whom, may be old. The argument: without an overlap the
collection holds of each document either nothing or the whole of one version of it
(`Whole`), also after an ingest that died, because the only moment a document is partly
there is inside one upsert request. So the hash of any chunk is the hash of them all, and
what a run has read of a document still stands when it acts on it (`ReadInv`). A
changed document has no chunks when it is written, so no chunk of an older cut
survives beside the new ones. `OrderInv` makes the run the only one at work.

`EvidenceIsRanked` claims nothing of how ingests ran: all it needs of the two
indexes is that each is finite and has one chunk to an id (`SearchInv`), which
overlaps, deaths and edits cannot break. The rest is about the operators. A strict
total order on a finite set places its elements one by one (`Places`); similarity
with ids as tie-break is one, and so is the order of the fused scores, which are
exact fractions compared by cross products (`ExceedsIsAnOrder`). Better ranks in both
lists give a greater sum (`AheadInBothExceeds`). That a passage both lists hold comes
before any that one holds (`BothExceedOne`) is not true for all limits: it needs
`2 / (k + n) > 1 / (k + 1)` for the last rank n, that is n <= k + 1. This is the
second conjunct of `RetrievalAssumption`; the code has `CANDIDATE_LIMIT = 20` and
`RRF_K = 60`, and whoever raises the one or lowers the other past that loses the
property. `ScoreAssumption` says that scores are whole numbers.

The second part of `ToolGatewayProofs` proves, for every number of concurrent turns,
every set of calls and every budget, window and clock:

| Theorem | Statement |
|---|---|
| `PaceInvariant` | `Spec => []PaceInv` |
| `BudgetIsKept` | `Spec => []BudgetHolds` |

They rest on `GatewayAssumption` and on `GatewayInvariant`. `BudgetHolds` bounds
the calls charged inside any window by `MaxCalls + n * (n - 1)` for n turns: exact
for one turn, and never exceeded by more than two calls for two. The argument. A
window t counts the charges younger than `Window` at t. While t is not in the past
clearing drops none of them, so only the trim of a full log can forget one
(`Forgotten`). It does so only when the first entry is one the window counts, and
the log has room again only when an entry the window does not count leaves. Such
entries are the `Chances`: aged ones that stand in the log behind a counted one,
and charges still to come whose clock reading is aged already. Every one of them
belongs to another turn that read the clock and was overtaken before it took the
lock, so there is at most one per other turn, and none is made once something is
forgotten. When a chance is used up the log has room, and the calls past the check
by then refill it with at most one call too many per other turn. Hence the product
(`ForgettingInv`). A window that is over gets only the charges whose clock reading
it holds already (`Committed`).

`ReplyStreamProofs` proves, for every number of segments, every budget of steps and
attempts, every lag of a reader, and any thread that fails or reader that hangs up:

| Theorem | Statement |
|---|---|
| `StreamInvariant` | `Spec => []StreamInv` |
| `TypeCorrect`, `DeadAttemptsGone`, `CallsBelong` | `TypeOK`, `PreviewHoldsNoDeadAttempt`, `CallsShownWhereMade` |
| `RowsFollowTheRecord` | `RowsAreTheRecord`, the first conjunct of `TheScreenIsTheRecord` |

They rest on `StreamAssumption`. The argument. At most one segment holds the run,
and none while a pause waits (`HandoverInv`); all who ever held it agree on its
rows, and the one who holds it now has them all (`LogInv`). So a row in flight is
the row of its place in anybody's trace (`RowsInv`), and a screen that was fed by
one stream and then by the next has rows in increasing places (`ScreenInv`,
`FeedInv`). `CallsShownWhereMade` is not inductive: the stream attaches what it
buffered to the step it closes next, and what makes that the right step is that
inside a node it has closed every step before and holds that node's calls only,
and that between nodes it holds nothing (`NodeInv`). `PreviewHoldsNoDeadAttempt`
speaks of the screen alone; the piece it must not show beside another may still be
in the queue, so the invariant follows each piece from the thread to the screen: it
is of the current attempt of its call, or a reset is behind it (`PiecesInv`).

`ReplyScreenProofs` proves, for the same constants:

| Theorem | Statement |
|---|---|
| `WatchInvariant` | `Spec => [](StreamInv /\ WatchInv)` |
| `ScreenIsTheRecord` | `TheScreenIsTheRecord`, both conjuncts |

The second conjunct says that a screen which saw it all misses nothing, and speaks of
two computations: `executionTree.ts` groups the rows of a timeline by the steps that
close them, `hydrate.ts` cuts a filed run from each entry to its exit. `WatchInv` has
three parts.

* `ShapeInv`, about the logs alone: a node's exit stands right behind its entry, an
  entry is last only while its node is at work, and what is learned from the run
  comes last. So the filed log never ends in an open node.
* `StartInv`: until its turn begins, the requester's message is empty.
* `WholeInv`, about a requester who never hung up and decides on the message itself.
  What the screen shows, continued by the queue, is a chain (`Chained`): entry, exit
  and the step that closes the node are neighbours, and a row of no node has its step
  right behind it. Each row the stream has sent is shown or queued (`Arrives`), and
  what it holds back is the entry of the node at work or a row that belongs to no node
  (`HoldsBack`). A verdict is queued only behind all rows of the filed log
  (`VerdictInv`). So when the screen shows a verdict, either it shows the filed run
  (`Settled`) and nothing but the close is on its way, or a decision was just taken on
  it and its first event has not been shown (`Pending`). The second case is why the
  status alone says nothing: the screen says "paused" while the next segment runs.

At rest nothing is pending, so the timeline holds each row of the filed log, in
increasing places, in whole nodes (`Faithful`). Its rows in order are then the log,
because an increasing map onto 1..n is the identity (`IncreasingOnto`); its closing
steps are the entries of the log one for one, because a set of numbers has one
enumeration (`OneEnumeration`); and since the step before a node's entry lies ahead of
its rows (`StepBefore`), the rows collected for it are the two of its span
(`EntryIsSpan`).

Each of these invariants was checked by TLC on a small instance before it was
proved. Every safety invariant and every action property of a passing run is now the
statement of a theorem. Only model-checked: `TurnSettles`, `CallsReturn`,
`WaitingRunsAreQueued` and `StreamEnds`, since liveness under fairness is beyond the
prover.

## 5. What is not modelled

* The three other sections of a summary, except whether there are any and whether the
  end of the line is theirs (`SessionSummary`). How long a text is and where it falls
  apart are data; so is what a cut text is read back as.
* Texts, prompts, citations, token counts and costs; parsing of a model's answer
  (it is the alternatives "raise" and "fail"); tokenization, BM25 weights and
  embeddings, which are data of `Retrieval`.
* `context/`: functions of texts and a token budget without state. Which memories
  are pinned is in `SessionMemory`; how they are cut to fit is not.
* The ERP store beyond its effect: `create_risk` numbers, appends and flushes under
  one lock and takes the row out again when the flush fails, so it is one action of
  `ToolGateway` (`Applied`). Its reads change
  nothing.
* Intents of the memory: no path of the program opens or closes one.
* Authentication and the scopes of approvers; routes that only read.
* Start-up, settings, schema creation, evaluation, layout of the user interface.

`PROJECT.json` gives the status of every component.

## 6. Observations that are not runs

* `ToolGateway._run` lets an exception other than the two tool errors through
  (`Escape`): an `OSError` of the ERP file leaves a gated call without an audit row
  and a claimed pause without a run record, although `tools/gateway.py:435-438`
  says every path returns an outcome. What survives of that is `WorkIsOnRecord`: no
  work is done off the record, unless an attempt that did it was taken for timed out
  and its retry is what raised.
* With two turns of one actor the trim in `InMemoryRateLimiter.record` does fire,
  and may drop a newer timestamp than the one it keeps; the comment says it only
  fires for a caller that does not check. The bound of `BudgetHolds` is
  quadratic for this reason. Two calls over the budget per other turn look like
  enough and are, for two turns; the proof of that failed, on a schedule TLC
  confirms: three turns, a budget of 4, a window of 2 and eleven calls by time 3
  leave 9 calls in one window.
* An approved escalated read runs again, with other arguments, in the same turn
  without a new approval; the default registry escalates no read.
* `assert pending is not None` in `precheck_approval` fails when another approver
  claims between its two statements (`desk = "assertion"`).
* `handle` records the waiting turn after the pause can be claimed; a resume that
  is faster has its reply overwritten in the window (`RecordTurn`), although
  `persistence/postgres_conversation.py:75-77` says the resumed turn ends up with
  its reply.
* A pause occupies a place of the window and cannot be promoted, and a row that was
  overwritten so stays: then a settled turn may be neither shown nor promoted.
  `CleanTurnsCloseTheGap` is claimed for sessions that never paused.
* Two consolidations of one session that overlap extend the same summary, and the
  newer supersedes the older with what only that one had folded;
  `NothingPromotedIsLost` and `GoalStands` are claimed without an overlap.
* A turn that changes what stands under a key and changes it back retires both
  records (`memory/service.py:454-482`); the history variable `returned` marks it.
* Two live preferences on one topic can come about: an update under the same key
  keeps that key (`memory/policy.py:738`) whatever topic the new text has. A later
  preference on the topic then supersedes both, and only its own key goes on;
  `KeysKeepAMemory` therefore asks for an heir on the topic, not under each key.
* The section of a summary is cut to its cap before the safety filter
  (`memory/summary.py:198-202`), so a line that is then refused has displaced one
  that would have been kept. A batch may hold 12 turns (`PROMOTION_BATCH`,
  `memory/conversation.py:66`) and a section 3 items (`MAX_ITEMS_PER_SECTION`,
  `memory/promotion.py:81`), so three refused questions empty it of the new and of the
  carried ones. `NothingPromotedIsLost` counts a displaced question as one there was
  no room for (`Spilled`).
* A goal the proposer names takes the place of the carried one before the filter sees
  it (`memory/promotion.py:329`); refused, it leaves the session without a goal, and a
  batch with nothing else to say is promoted with no summary. The same happens to a
  batch whose oldest turn may not be quoted. `PromotedIsFolded` names both.
* What a summary says is known to the next fold by its line only. A goal over the
  limit is cut when written and lost when read; one with `; ` in it keeps its first
  part; the open questions are dropped when goal and decisions fill the 400
  characters. The docstring of `parse_summary` (`memory/summary.py:227-232`) accepts
  the first two; `GoalStands` and `NothingPromotedIsLost` claim nothing of such texts.
* It names three deviations, and there is a fourth: a line that is written whole and whose last item ends in
  two dots or more is taken for a cut one, and the last item of its first section is
  lost (`memory/summary.py:237`; `Endings`, `Undotted`). A session whose goal stands
  alone with one question loses the goal when that question ends in dots.
* The memory index retires before it adds: a record that a turn wrote and replaced
  itself stays searchable. The store drops it when the hit is hydrated.
* A summary is audited before it is written (`memory/service.py:414-428`).
* The hash of a document covers its bodies and their locators
  (`rag/manifest.py:169-180`), and a chunk carries more: the title and the headings
  above its body, which are embedded and searched with it, the project and the scope.
  So a renamed heading or title, or an edit of who may read a document, does not reach
  the index before a body changes. `IngestCatchesUp` claims the loaded version only
  where the text is new.
* A server's lexical index is as old as the server, whereas ADR 0010 says that the
  two indexes cannot disagree. The dense half decides whether anything is found.
* Two overlapping ingests may leave chunks of two texts of one document, and if the
  first chunk scrolled carries the current hash no later run repairs it.
* `SearchOnce`: of up to three searches in one node the stream shows the last.
* `llm/gateway.py:807` reads the usage of whichever call of the process ended last.
* A resumed turn's `context` event replaces what the first half had shown there.
* A run rebuilt from its record has no entry for the step a denial closes: that
  step has no row (`Deny`).
* The text a planner writes beside a tool call is shown as a preview and stays
  until the next reset.

## 7. Plan

1. `ReplyStream` with the node order of `TurnEngine`, as a refinement of it.
2. The cut of the context to its token budget, as operators checked against a
   reference definition.
