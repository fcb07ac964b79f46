----------------------------- MODULE ToolGateway -----------------------------
(***************************************************************************)
(* Concurrent calls of one actor to one tool: tools/gateway.py, with the   *)
(* rate limiter of tools/limits.py and the retry loop of llm/retry.py.     *)
(*                                                                         *)
(* Every turn has a gateway of its own, but all of them share one limiter, *)
(* and two turns of one user may run at once.  Each method of the limiter  *)
(* holds its lock; nothing is held between the check and the record, nor   *)
(* between reading the clock and taking the lock.  The handler runs in a   *)
(* thread of its own, which the gateway cannot cancel.                     *)
(*                                                                         *)
(* A definition with no use (LiveAtTheEdge, say) is a likely mistake in    *)
(* the definition after it, which one of the properties would catch.       *)
(***************************************************************************)
EXTENDS Naturals, Sequences, FiniteSetsExt

CONSTANTS
    Calls,          \* the calls that will be made
    MaxConcurrent,  \* turns in progress at once
    MaxCalls,       \* RateLimitPolicy.max_calls
    Window,         \* RateLimitPolicy.per_seconds
    MaxAttempts,    \* RetryPolicy.max_attempts
    Timeout,        \* ToolDefinition.timeout_seconds
    Gated,          \* ToolDefinition.approval_required
    Requests,       \* what the turns ask of the gateway
    HandlerResults, \* how a handler may end
    MaxTime,        \* the bound on the clock
    Never           \* the time of what has not happened

ASSUME GatewayAssumption ==
    /\ MaxConcurrent \in Nat \ {0}
    /\ MaxCalls \in Nat \ {0} /\ Window \in Nat \ {0}
    /\ MaxAttempts \in Nat \ {0} /\ Timeout \in Nat \ {0}
    /\ Gated \in BOOLEAN
    /\ Requests \subseteq [op : {"execute", "preflight"},
                           approval : {"not_required", "approved", "denied"}]
    /\ HandlerResults \subseteq {"ok", "transient", "tool_error", "other_error"}
    /\ MaxTime \in Nat
    /\ Never \notin Nat

VARIABLES
    now,        \* the clock
    log,        \* the limiter's timestamps, in the order they were recorded
    pc,         \* where each call is
    request,    \* ToolRequest: what is asked of the gateway
    stamp,      \* the last clock reading of each call
    attempts,   \* handler attempts made
    began,      \* when the wait for the current attempt began
    timedOut,   \* that wait is past its timeout
    handler,    \* the thread running the handler
    outcome,    \* ToolOutcome.status
    due,        \* stamp + retry_after_seconds of a rate_limited outcome
    quiet,      \* history: nothing was recorded since that refusal
    countedAt,  \* history: the timestamp the call was charged under
    rows,       \* history: audit rows of the call
    effects     \* history: how often the handler did its work

callVars    == <<pc, request, stamp, outcome>>
attemptVars == <<attempts, began, timedOut, handler, effects>>
limitVars   == <<log, due, quiet, countedAt>>
vars == <<now, callVars, attemptVars, limitVars, rows>>

Statuses == {"ok", "invalid_arguments", "approval_required", "denied",
             "rate_limited", "transient_failure", "failed"}

\* The statuses _refused answers with: "nothing ran".
RefusedBeforeExecution == {"invalid_arguments", "approval_required", "denied",
                           "rate_limited"}

Places == {"new", "checking", "cleared", "recording", "attempting", "waiting",
           "over", "raised"}

Ended(c) == pc[c] \in {"over", "raised"}

Active == {c \in Calls : pc[c] # "new" /\ ~Ended(c)}

Init ==
    /\ now = 0
    /\ log = <<>>
    /\ pc = [c \in Calls |-> "new"]
    /\ request \in [Calls -> Requests]
    /\ stamp = [c \in Calls |-> 0]
    /\ attempts = [c \in Calls |-> 0]
    /\ began = [c \in Calls |-> 0]
    /\ timedOut = [c \in Calls |-> FALSE]
    /\ handler = [c \in Calls |-> "none"]
    /\ outcome = [c \in Calls |-> "none"]
    /\ due = [c \in Calls |-> Never]
    /\ quiet = [c \in Calls |-> FALSE]
    /\ countedAt = [c \in Calls |-> Never]
    /\ rows = [c \in Calls |-> 0]
    /\ effects = [c \in Calls |-> 0]

-----------------------------------------------------------------------------
(***************************************************************************)
(* The limiter.                                                            *)
(***************************************************************************)
LiveAtTheEdge(l, t) ==
    LET fresh == {i \in DOMAIN l : t <= l[i] + Window}
    IN  IF fresh = {} THEN <<>> ELSE SubSeq(l, Min(fresh), Len(l))

\* _live: the leading timestamps that have aged out at time t are dropped.
Live(l, t) ==
    LET fresh == {i \in DOMAIN l : t < l[i] + Window}
    IN  IF fresh = {} THEN <<>> ELSE SubSeq(l, Min(fresh), Len(l))

TrimTooFar(l) == IF Len(l) >= MaxCalls THEN SubSeq(l, Len(l) - MaxCalls + 2, Len(l)) ELSE l

\* record keeps the most recent max_calls entries.
Trim(l) == IF Len(l) > MaxCalls THEN SubSeq(l, Len(l) - MaxCalls + 1, Len(l)) ELSE l

Record(l, t) == Trim(Append(Live(l, t), t))

(***************************************************************************)
(* The checks.                                                             *)
(***************************************************************************)
ConcludeAuditingSuccess(c, status) ==
    /\ pc' = [pc EXCEPT ![c] = "over"]
    /\ outcome' = [outcome EXCEPT ![c] = status]
    /\ rows' = IF Gated /\ status = "ok" THEN [rows EXCEPT ![c] = @ + 1] ELSE rows

\* An outcome ends the call; gated calls and spent budgets leave a row.
Conclude(c, status) ==
    /\ pc' = [pc EXCEPT ![c] = "over"]
    /\ outcome' = [outcome EXCEPT ![c] = status]
    /\ rows' = IF Gated \/ status = "rate_limited"
               THEN [rows EXCEPT ![c] = @ + 1] ELSE rows

\* The arguments do not validate, or a scope or the project is not the actor's.
\* (A name the registry does not know is a call to no tool, and not this one.)
RefuseEarly(c) ==
    /\ \E s \in {"invalid_arguments", "denied"} : Conclude(c, s)
    /\ UNCHANGED stamp

\* The clock is read before the limiter's lock is taken.
ReachBudget(c) ==
    /\ pc' = [pc EXCEPT ![c] = "checking"]
    /\ stamp' = [stamp EXCEPT ![c] = now]
    /\ UNCHANGED <<outcome, rows>>

Begin(c) ==
    /\ pc[c] = "new"
    /\ Cardinality(Active) < MaxConcurrent
    /\ RefuseEarly(c) \/ ReachBudget(c)
    /\ UNCHANGED <<now, request, attemptVars, limitVars>>

BudgetSpent(c) ==
    /\ pc[c] = "checking"
    /\ Len(Live(log, stamp[c])) >= MaxCalls
    /\ log' = Live(log, stamp[c])
    /\ due' = [due EXCEPT ![c] = Live(log, stamp[c])[1] + Window]
    /\ quiet' = [quiet EXCEPT ![c] = TRUE]
    /\ Conclude(c, "rate_limited")
    /\ UNCHANGED <<now, request, stamp, attemptVars, countedAt>>

\* Neither gated nor refused: execute goes on, preflight raises ValueError.
PassChecks(c) ==
    /\ pc' = [pc EXCEPT ![c] = IF request[c].op = "execute" THEN "cleared" ELSE "raised"]
    /\ UNCHANGED <<outcome, rows>>

CheckAndConsume(c) ==
    /\ pc[c] = "checking"
    /\ Len(Live(log, stamp[c])) < MaxCalls
    /\ log' = Record(log, stamp[c])
    /\ countedAt' = [countedAt EXCEPT ![c] = stamp[c]]
    /\ IF Gated /\ request[c].approval # "approved"
       THEN Conclude(c, "approval_required")
       ELSE PassChecks(c)
    /\ UNCHANGED <<now, request, stamp, attemptVars, due, quiet>>

BudgetLeft(c) ==
    /\ pc[c] = "checking"
    /\ Len(Live(log, stamp[c])) < MaxCalls
    /\ log' = Live(log, stamp[c])
    /\ IF Gated /\ request[c].approval # "approved"
       THEN Conclude(c, IF request[c].approval = "denied"
                        THEN "denied" ELSE "approval_required")
       ELSE PassChecks(c)
    /\ UNCHANGED <<now, request, stamp, attemptVars, due, quiet, countedAt>>

-----------------------------------------------------------------------------
(***************************************************************************)
(* _run.  The clock is read again, the call is charged, and the attempts   *)
(* begin.                                                                  *)
(***************************************************************************)
ReadClock(c) ==
    /\ pc[c] = "cleared"
    /\ pc' = [pc EXCEPT ![c] = "recording"]
    /\ stamp' = [stamp EXCEPT ![c] = now]
    /\ UNCHANGED <<now, request, outcome, attemptVars, limitVars, rows>>

Count(c) ==
    /\ pc[c] = "recording"
    /\ log' = Record(log, stamp[c])
    /\ countedAt' = [countedAt EXCEPT ![c] = stamp[c]]
    /\ quiet' = [d \in Calls |-> FALSE]
    /\ pc' = [pc EXCEPT ![c] = "attempting"]
    /\ UNCHANGED <<now, request, stamp, outcome, attemptVars, due, rows>>

StartHandler(c) ==
    /\ pc[c] = "attempting"
    /\ pc' = [pc EXCEPT ![c] = "waiting"]
    /\ attempts' = [attempts EXCEPT ![c] = @ + 1]
    /\ began' = [began EXCEPT ![c] = now]
    /\ timedOut' = [timedOut EXCEPT ![c] = FALSE]
    /\ handler' = [handler EXCEPT ![c] = "running"]
    /\ UNCHANGED <<now, request, stamp, outcome, limitVars, rows, effects>>

\* The store files a risk under its lock, in memory and on disk, or not at all.
Applied(c) == [effects EXCEPT ![c] = @ + 1]

\* The handler's own thread: it works, or raises TransientToolError (or the
\* built-in TimeoutError, which the gateway takes for its own), ToolError, or
\* anything else.
HandlerEnds(c) ==
    /\ handler[c] = "running"
    /\ \E r \in HandlerResults :
         /\ handler' = [handler EXCEPT ![c] = r]
         /\ effects' = IF r = "ok" THEN Applied(c) ELSE effects
    /\ UNCHANGED <<now, callVars, attempts, began, timedOut, limitVars, rows>>

Overdue(c) ==
    /\ pc[c] = "waiting" /\ handler[c] = "running" /\ ~timedOut[c]
    /\ now >= began[c] + Timeout

\* future.result gives up.  Leaving the pool's with-block still waits.
GiveUp(c) ==
    /\ Overdue(c)
    /\ timedOut' = [timedOut EXCEPT ![c] = TRUE]
    /\ UNCHANGED <<now, callVars, attempts, began, handler, limitVars, rows, effects>>

\* What an attempt came to, once its handler has ended.
AttemptResult(c) == IF timedOut[c] THEN "transient" ELSE handler[c]

AttemptAbandoned(c) == pc[c] = "waiting" /\ (handler[c] # "running" \/ timedOut[c])

AttemptEnded(c) == pc[c] = "waiting" /\ handler[c] # "running"

RetryOnceTooOften(c) ==
    /\ AttemptEnded(c) /\ AttemptResult(c) = "transient"
    /\ attempts[c] <= MaxAttempts
    /\ pc' = [pc EXCEPT ![c] = "attempting"]
    /\ UNCHANGED <<now, request, stamp, outcome, attemptVars, limitVars, rows>>

Retry(c) ==
    /\ AttemptEnded(c) /\ AttemptResult(c) = "transient"
    /\ attempts[c] < MaxAttempts
    /\ pc' = [pc EXCEPT ![c] = "attempting"]
    /\ UNCHANGED <<now, request, stamp, outcome, attemptVars, limitVars, rows>>

ReturnUnlessExhausted(c) ==
    /\ AttemptEnded(c) /\ AttemptResult(c) \in {"ok", "tool_error"}
    /\ Conclude(c, IF AttemptResult(c) = "ok" THEN "ok" ELSE "failed")
    /\ UNCHANGED <<now, request, stamp, attemptVars, limitVars>>

Return(c) ==
    /\ AttemptEnded(c) /\ AttemptResult(c) # "other_error"
    /\ AttemptResult(c) = "transient" => attempts[c] >= MaxAttempts
    /\ Conclude(c, CASE AttemptResult(c) = "ok"         -> "ok"
                     [] AttemptResult(c) = "transient"  -> "transient_failure"
                     [] AttemptResult(c) = "tool_error" -> "failed")
    /\ UNCHANGED <<now, request, stamp, attemptVars, limitVars>>

\* _run catches the two tool-layer exceptions and nothing else.
Escape(c) ==
    /\ AttemptEnded(c) /\ AttemptResult(c) = "other_error"
    /\ pc' = [pc EXCEPT ![c] = "raised"]
    /\ UNCHANGED <<now, request, stamp, outcome, attemptVars, limitVars, rows>>

\* Time passes, but not past a timeout that has not been noticed.
Tick ==
    /\ now < MaxTime
    /\ \A c \in Calls : ~Overdue(c)
    /\ now' = now + 1
    /\ UNCHANGED <<callVars, attemptVars, limitVars, rows>>

Gateway(c) ==
    \/ BudgetSpent(c) \/ BudgetLeft(c)
    \/ ReadClock(c) \/ Count(c) \/ StartHandler(c)
    \/ GiveUp(c) \/ Retry(c) \/ Return(c) \/ Escape(c)

Next == Tick \/ \E c \in Calls : Begin(c) \/ Gateway(c) \/ HandlerEnds(c)

Spec == Init /\ [][Next]_vars

\* The gateway's own steps are taken, and handlers answer in the end.
FairSpec == Spec /\ \A c \in Calls : WF_vars(Gateway(c)) /\ WF_vars(HandlerEnds(c))

-----------------------------------------------------------------------------
\* Every variable keeps its type, and the limiter's log its structural bound.
TypeOK ==
    /\ now \in 0..MaxTime
    /\ log \in Seq(0..MaxTime) /\ Len(log) <= MaxCalls
    /\ pc \in [Calls -> Places]
    /\ request \in [Calls -> Requests]
    /\ stamp \in [Calls -> 0..MaxTime]
    /\ attempts \in [Calls -> 0..MaxAttempts]
    /\ began \in [Calls -> 0..MaxTime]
    /\ timedOut \in [Calls -> BOOLEAN]
    /\ handler \in [Calls -> HandlerResults \cup {"none", "running"}]
    /\ outcome \in [Calls -> Statuses \cup {"none"}]
    /\ due \in [Calls -> Nat \cup {Never}]
    /\ quiet \in [Calls -> BOOLEAN]
    /\ countedAt \in [Calls -> (0..MaxTime) \cup {Never}]
    /\ rows \in [Calls -> 0..1]
    /\ effects \in [Calls -> 0..MaxAttempts]

ChargedIn(t) ==
    {c \in Calls : countedAt[c] # Never /\ countedAt[c] <= t /\ t < countedAt[c] + Window}

\* What the budget may be exceeded by: every other turn may be past the check
\* when the budget runs out, and may have charged an earlier window so late that
\* its entry, not a newer one, makes room again when it has aged.
Most == MaxCalls + MaxConcurrent * (MaxConcurrent - 1)

\* However calls interleave, no window of time holds more calls than that.  With
\* one turn at a time the budget is exact.
BudgetHolds ==
    \A t \in 0..now : Cardinality(ChargedIn(t)) <= Most

\* retry_after_seconds is positive and enough: unless another call has been
\* counted meanwhile, there is room again when it has passed.
RetryAfterIsHonest ==
    \A c \in Calls : outcome[c] = "rate_limited" =>
        /\ due[c] > stamp[c]
        /\ quiet[c] /\ now >= due[c] => Len(Live(log, now)) < MaxCalls

\* A call that was refused, or only asked about, cost nothing: its handler was
\* not started and it is not in the log.
RefusedCallsCostNothing ==
    \A c \in Calls :
        outcome[c] \in RefusedBeforeExecution \/ request[c].op = "preflight" =>
            attempts[c] = 0 /\ countedAt[c] = Never

\* No handler outlives the attempt that started it, so no late work lands after
\* the outcome was reported or beside the next attempt.
HandlersAreContained ==
    \A c \in Calls : handler[c] = "running" => pc[c] = "waiting"

\* A tool declared without retries does its work at most once per call, and
\* has done it when the outcome is "ok".
AppliedAsReported ==
    \A c \in Calls :
        /\ effects[c] <= MaxAttempts
        /\ outcome[c] = "ok" => effects[c] >= 1
        /\ outcome[c] = "failed" => effects[c] < MaxAttempts

\* The work of a gated call can leave no audit row only where an attempt that
\* did it was taken for timed out and a later one raised what _run does not
\* catch: without retries nothing is done off the record, although an exception
\* escapes (tools/gateway.py: _run, execute, _write_audit_row).
WorkIsOnRecord ==
    \A c \in Calls : Gated /\ Ended(c) /\ effects[c] > 0 /\ rows[c] = 0 =>
        handler[c] = "other_error" /\ effects[c] < attempts[c]

\* Every call that has begun ends.
CallsReturn == \A c \in Calls : (pc[c] # "new") ~> Ended(c)

(***************************************************************************)
(* The inductive invariant: what the place of a call says of its attempts, *)
(* its handler, its charge and its audit rows.                             *)
(***************************************************************************)
\* Until its clock is read for the charge a call has cost nothing.
Uncharged == {"new", "checking", "cleared", "recording"}

UnchargedInv(c) ==
    /\ pc[c] \in Uncharged \/ request[c].op = "preflight" =>
            attempts[c] = 0 /\ countedAt[c] = Never
    /\ attempts[c] = 0 => handler[c] = "none" /\ effects[c] = 0
    /\ request[c].op = "preflight" => pc[c] \in {"new", "checking", "over", "raised"}

\* A handler runs inside the wait of the attempt that started it.
AttemptInv(c) ==
    /\ handler[c] = "running" => pc[c] = "waiting"
    /\ pc[c] = "waiting" => attempts[c] > 0 /\ handler[c] # "none"
    /\ pc[c] = "attempting" => attempts[c] < MaxAttempts

\* Every piece of work belongs to an attempt that ended in it.
EffectInv(c) ==
    /\ effects[c] <= attempts[c]
    /\ handler[c] \in {"running", "tool_error", "other_error"} => effects[c] < attempts[c]
    /\ handler[c] = "ok" => effects[c] > 0

\* An outcome comes with the end of the call, and rows come with an outcome.
OutcomeInv(c) ==
    /\ outcome[c] # "none" <=> pc[c] = "over"
    /\ pc[c] = "raised" /\ attempts[c] > 0 => handler[c] = "other_error"
    /\ outcome[c] \in RefusedBeforeExecution => attempts[c] = 0 /\ countedAt[c] = Never
    /\ outcome[c] = "ok" => effects[c] >= 1
    /\ outcome[c] = "failed" => effects[c] < attempts[c]
    /\ rows[c] = IF pc[c] = "over" /\ (Gated \/ outcome[c] = "rate_limited") THEN 1 ELSE 0

GatewayInv ==
    /\ TypeOK
    /\ \A c \in Calls : UnchargedInv(c) /\ AttemptInv(c) /\ EffectInv(c) /\ OutcomeInv(c)

\* A refusal that promised room at `due' is kept by the oldest entry of a full
\* log, as long as nothing is recorded.
PromiseInv(c) ==
    /\ outcome[c] = "rate_limited" => due[c] \in Nat /\ due[c] > stamp[c]
    /\ quiet[c] => /\ outcome[c] = "rate_limited"
                   /\ Len(log) < MaxCalls \/ log[1] + Window <= due[c]

PromisesInv == \A c \in Calls : PromiseInv(c)

(***************************************************************************)
(* The inductive invariant behind BudgetHolds.  A window t, while it is    *)
(* open, counts the entries younger than Window at t.  The log forgets one *)
(* of those only when a call is charged to a full log, and has room again  *)
(* only when an entry leaves that the window does not count.               *)
(***************************************************************************)
Others == MaxConcurrent - 1

\* Past the check, and not in the log yet.
Charging == {c \in Calls : pc[c] \in {"cleared", "recording"}}

\* Those that will enter the log with a time the window no longer counts.
Late(t) == {c \in Calls : pc[c] = "recording" /\ stamp[c] + Window <= t}

\* The entries of a log the window counts, and those behind entry i it does not.
Counting(l, t) == {i \in DOMAIN l : t < l[i] + Window}
Behind(l, i, t) == {j \in DOMAIN l : i < j /\ l[j] + Window <= t}

\* Of the calls the window counts, those the log has forgotten.
Forgotten(l, charged, t) == charged - Cardinality(Counting(l, t))

\* Entries, and charges to come, that the window does not count: what may still
\* leave a full log and let it forget again.
Chances(l, late, t) == Len(l) - Cardinality(Counting(l, t)) + late

\* While nothing is forgotten, at most one chance per other turn is behind an
\* entry the window counts.  A chance is used up before the log has room, and
\* what has room then is refilled with at most one call too many per other turn.
ForgettingInv(l, charged, charging, late, t) ==
    /\ \A i \in Counting(l, t) : Cardinality(Behind(l, i, t)) + late <= Others
    /\ Forgotten(l, charged, t) >= 0
    /\ Forgotten(l, charged, t) > 0 =>
         /\ Chances(l, late, t) <= Others
         /\ Len(l) < MaxCalls =>
              Forgotten(l, charged, t) <= Others * (Others - Chances(l, late, t))
         /\ Len(l) >= MaxCalls =>
              Forgotten(l, charged, t) + charging + (Len(l) - MaxCalls)
                <= Others * (MaxConcurrent - Chances(l, late, t))

OpenInv(t) ==
    ForgettingInv(log, Cardinality(ChargedIn(t)), Cardinality(Charging),
                  Cardinality(Late(t)), t)

\* A window that is over gets no calls but those whose clock reading it holds.
Committed(t) ==
    ChargedIn(t) \cup {c \in Calls : /\ pc[c] = "recording"
                                     /\ stamp[c] <= t /\ t < stamp[c] + Window}

PaceInv ==
    /\ IsFiniteSet({c \in Calls : pc[c] # "new"})
    /\ Cardinality(Active) <= MaxConcurrent
    /\ \A c \in Calls : stamp[c] <= now /\ (countedAt[c] # Never => countedAt[c] <= now)
    /\ \A i \in DOMAIN log : log[i] <= now
    /\ Len(log) + Cardinality(Charging) <= MaxCalls + Others
    /\ \A t \in now..MaxTime : OpenInv(t)
    /\ \A t \in 0..MaxTime : t < now => Cardinality(Committed(t)) <= Most

(***************************************************************************)
(* What the repository's own comments say and the code does not do.        *)
(***************************************************************************)
\* tools/gateway.py: "The timeout bounds how long this gateway waits".
WaitIsBounded ==
    \A c \in Calls : pc[c] = "waiting" => now <= began[c] + Timeout

=============================================================================
