-------------------------- MODULE ToolGatewayProofs --------------------------
(***************************************************************************)
(* What ToolGateway guarantees for every set of calls, every budget and    *)
(* every retry policy, however concurrent calls interleave.                *)
(***************************************************************************)
EXTENDS ToolGateway, WellFoundedInduction, SequenceTheorems, FiniteSetTheorems, TLAPS

Times == 0..MaxTime

(***************************************************************************)
(* The limiter's log.                                                      *)
(***************************************************************************)
\* A set of numbers that is not empty has a least element.
LEMMA LeastExists ==
    ASSUME NEW S \in SUBSET Nat, S # {}
    PROVE  Min(S) \in S /\ \A y \in S : Min(S) <= y
<1> DEFINE smaller == OpToRel(<, Nat)
<1>1. IsWellFoundedOn(smaller, Nat)
  BY NatLessThanWellFounded, Zenon
<1>2. ASSUME NEW x \in Nat, NEW y \in Nat, y < x
      PROVE  <<y, x>> \in smaller
  BY <1>2, Zenon DEF OpToRel
<1> HIDE DEF smaller
<1>3. PICK x \in S : \A y \in S : <<y, x>> \notin smaller
  BY <1>1, WFMin
<1>4. ASSUME NEW y \in S
      PROVE  x <= y
  <2>1. x \in Nat /\ y \in Nat
    OBVIOUS
  <2>2. ~ (y < x)
    BY <1>2, <1>3, <2>1
  <2>3. QED
    BY <2>1, <2>2
<1>5. QED
  BY <1>3, <1>4 DEF Min

\* What is live of a log is a suffix of it, and its first entry has not aged.
LEMMA LiveIsASuffix ==
    ASSUME NEW l \in Seq(Times), NEW t \in Times
    PROVE  /\ Live(l, t) \in Seq(Times)
           /\ Len(Live(l, t)) <= Len(l)
           /\ Live(l, t) # <<>> => t < Live(l, t)[1] + Window
<1> DEFINE fresh == {i \in DOMAIN l : t < l[i] + Window}
<1>1. CASE fresh = {}
  BY <1>1 DEF Live
<1>2. CASE fresh # {}
  <2>1. fresh \in SUBSET Nat /\ Len(l) \in Nat /\ DOMAIN l = 1..Len(l)
    OBVIOUS
  <2>2. Min(fresh) \in fresh
    BY <1>2, <2>1, LeastExists
  <2>3. Live(l, t) = SubSeq(l, Min(fresh), Len(l))
    BY <1>2 DEF Live
  <2>4. Min(fresh) \in 1..Len(l) /\ t < l[Min(fresh)] + Window
    BY <2>1, <2>2
  <2> DEFINE m == Min(fresh)
  <2> HIDE DEF m, fresh
  <2>5. /\ Live(l, t) \in Seq(Times)
        /\ Len(Live(l, t)) = Len(l) - m + 1
        /\ Live(l, t)[1] = l[m]
    BY <2>1, <2>3, <2>4, SubSeqProperties DEF m
  <2>6. QED
    BY <2>1, <2>4, <2>5 DEF m
<1>3. QED
  BY <1>1, <1>2

\* record never lets the log grow past the budget.
LEMMA RecordKeepsTheBudget ==
    ASSUME NEW l \in Seq(Times), NEW t \in Times
    PROVE  Record(l, t) \in Seq(Times) /\ Len(Record(l, t)) <= MaxCalls
<1> DEFINE longer == Append(Live(l, t), t)
<1>1. longer \in Seq(Times) /\ Len(longer) \in Nat
  BY LiveIsASuffix
<1>2. Record(l, t) = Trim(longer)
  BY DEF Record
<1>3. MaxCalls \in Nat \ {0}
  BY GatewayAssumption
<1> HIDE DEF longer
<1>4. QED
  BY <1>1, <1>2, <1>3 DEF Trim

-----------------------------------------------------------------------------
(***************************************************************************)
(* The invariant holds at the start, and every step preserves it.          *)
(***************************************************************************)
PlaceInv(c) == UnchargedInv(c) /\ AttemptInv(c) /\ EffectInv(c) /\ OutcomeInv(c)

\* What a step does to one call leaves the place of every other as it was.
Untouched(d) ==
    /\ pc'[d] = pc[d] /\ request'[d] = request[d]
    /\ attempts'[d] = attempts[d] /\ handler'[d] = handler[d]
    /\ outcome'[d] = outcome[d] /\ countedAt'[d] = countedAt[d]
    /\ rows'[d] = rows[d] /\ effects'[d] = effects[d]

LEMMA OthersKeepTheirPlace ==
    ASSUME NEW d \in Calls, PlaceInv(d), Untouched(d)
    PROVE  PlaceInv(d)'
BY DEF PlaceInv, Untouched, UnchargedInv, AttemptInv, EffectInv, OutcomeInv

\* The end of a call, as every path of execute() and preflight() reaches it.
LEMMA ConcludeKeepsTypes ==
    ASSUME GatewayInv, NEW c \in Calls, NEW status \in Statuses, Conclude(c, status),
           pc[c] # "over"
    PROVE  /\ pc' \in [Calls -> Places] /\ outcome' \in [Calls -> Statuses \cup {"none"}]
           /\ rows' \in [Calls -> 0..1]
           /\ pc'[c] = "over" /\ outcome'[c] = status
           /\ rows'[c] = IF Gated \/ status = "rate_limited" THEN 1 ELSE 0
           /\ \A d \in Calls \ {c} :
                pc'[d] = pc[d] /\ outcome'[d] = outcome[d] /\ rows'[d] = rows[d]
<1>1. /\ pc \in [Calls -> Places] /\ outcome \in [Calls -> Statuses \cup {"none"}]
      /\ rows \in [Calls -> 0..1] /\ rows[c] = 0
  BY DEF GatewayInv, TypeOK, OutcomeInv
<1>2. QED
  BY <1>1 DEF Conclude, Places

LEMMA InitEstablishes == Init => GatewayInv
<1> SUFFICES ASSUME Init PROVE GatewayInv
  OBVIOUS
<1>1. TypeOK
  BY GatewayAssumption DEF Init, TypeOK, Places
<1>2. ASSUME NEW c \in Calls
      PROVE  UnchargedInv(c) /\ AttemptInv(c) /\ EffectInv(c) /\ OutcomeInv(c)
  BY GatewayAssumption
     DEF Init, UnchargedInv, AttemptInv, EffectInv, OutcomeInv, RefusedBeforeExecution
<1>3. QED
  BY <1>1, <1>2 DEF GatewayInv

LEMMA BeginStep ==
    ASSUME GatewayInv, NEW c \in Calls, Begin(c)
    PROVE  GatewayInv'
<1>1. TypeOK /\ pc[c] = "new"
  BY DEF GatewayInv, Begin
<1>2. CASE RefuseEarly(c)
  <2>1. PICK s \in {"invalid_arguments", "denied"} : Conclude(c, s)
    BY <1>2 DEF RefuseEarly
  <2>2. s \in Statuses /\ s \in RefusedBeforeExecution
    BY DEF Statuses, RefusedBeforeExecution
  <2>3. /\ pc' \in [Calls -> Places] /\ outcome' \in [Calls -> Statuses \cup {"none"}]
        /\ rows' \in [Calls -> 0..1]
        /\ pc'[c] = "over" /\ outcome'[c] = s
        /\ rows'[c] = IF Gated \/ s = "rate_limited" THEN 1 ELSE 0
        /\ \A d \in Calls \ {c} :
             pc'[d] = pc[d] /\ outcome'[d] = outcome[d] /\ rows'[d] = rows[d]
    BY <1>1, <2>1, <2>2, ConcludeKeepsTypes
  <2>4. UNCHANGED <<now, log, request, stamp, attempts, began, timedOut, handler, effects,
                    due, quiet, countedAt>>
    BY <1>2 DEF Begin, RefuseEarly, attemptVars, limitVars
  <2>5. TypeOK'
    BY <1>1, <2>3, <2>4 DEF TypeOK
  <2>6. PlaceInv(c)'
    BY <1>1, <2>2, <2>3, <2>4
       DEF GatewayInv, PlaceInv, UnchargedInv, AttemptInv, EffectInv, OutcomeInv, Uncharged
  <2>7. ASSUME NEW d \in Calls \ {c} PROVE PlaceInv(d)'
    BY <2>3, <2>4, OthersKeepTheirPlace DEF GatewayInv, PlaceInv, Untouched
  <2>8. QED
    BY <2>5, <2>6, <2>7 DEF GatewayInv, PlaceInv
<1>3. CASE ReachBudget(c)
  <2>1. /\ pc' = [pc EXCEPT ![c] = "checking"] /\ stamp' = [stamp EXCEPT ![c] = now]
        /\ UNCHANGED <<now, log, request, outcome, attempts, began, timedOut, handler,
                       effects, due, quiet, countedAt, rows>>
    BY <1>3 DEF Begin, ReachBudget, attemptVars, limitVars
  <2>2. TypeOK'
    BY <1>1, <2>1 DEF TypeOK, Places
  <2>3. ASSUME NEW d \in Calls PROVE PlaceInv(d)'
    BY <1>1, <2>1
       DEF GatewayInv, PlaceInv, UnchargedInv, AttemptInv, EffectInv, OutcomeInv, Uncharged,
           TypeOK
  <2>4. QED
    BY <2>2, <2>3 DEF GatewayInv, PlaceInv
<1>4. QED
  BY <1>2, <1>3 DEF Begin

\* Both answers of the limiter leave its log a suffix of what it was.
LEMMA CheckKeepsLog ==
    ASSUME GatewayInv, NEW c \in Calls, log' = Live(log, stamp[c])
    PROVE  log' \in Seq(Times) /\ Len(log') <= MaxCalls
<1>1. log \in Seq(Times) /\ Len(log) <= MaxCalls /\ stamp[c] \in Times
  BY DEF GatewayInv, TypeOK, Times
<1>2. log' \in Seq(Times) /\ Len(log') <= Len(log)
  BY <1>1, LiveIsASuffix
<1>3. Len(log) \in Nat /\ Len(log') \in Nat /\ MaxCalls \in Nat
  BY <1>1, <1>2, GatewayAssumption
<1>4. QED
  BY <1>1, <1>2, <1>3

LEMMA BudgetSpentStep ==
    ASSUME GatewayInv, NEW c \in Calls, BudgetSpent(c)
    PROVE  GatewayInv'
<1> DEFINE live == Live(log, stamp[c])
<1>1. TypeOK /\ pc[c] = "checking" /\ PlaceInv(c)
  BY DEF GatewayInv, BudgetSpent, PlaceInv
<1>2. log' \in Seq(Times) /\ Len(log') <= MaxCalls
  BY CheckKeepsLog DEF BudgetSpent
<1>3. live[1] + Window \in Nat
  <2>1. live \in Seq(Times) /\ Len(live) >= MaxCalls
    BY <1>1, LiveIsASuffix DEF BudgetSpent, TypeOK, Times
  <2>2. 1 \in DOMAIN live
    BY <2>1, GatewayAssumption
  <2>3. live[1] \in Times
    BY <2>1, <2>2
  <2>4. QED
    BY <2>3, GatewayAssumption DEF Times
<1>4. /\ pc' \in [Calls -> Places] /\ outcome' \in [Calls -> Statuses \cup {"none"}]
      /\ rows' \in [Calls -> 0..1]
      /\ pc'[c] = "over" /\ outcome'[c] = "rate_limited" /\ rows'[c] = 1
      /\ \A d \in Calls \ {c} :
           pc'[d] = pc[d] /\ outcome'[d] = outcome[d] /\ rows'[d] = rows[d]
  <2>1. "rate_limited" \in Statuses /\ Conclude(c, "rate_limited") /\ pc[c] # "over"
    BY <1>1 DEF BudgetSpent, Statuses
  <2>2. QED
    BY <2>1, ConcludeKeepsTypes
<1>5. /\ due' = [due EXCEPT ![c] = live[1] + Window] /\ quiet' = [quiet EXCEPT ![c] = TRUE]
      /\ UNCHANGED <<now, request, stamp, attempts, began, timedOut, handler, effects,
                     countedAt>>
  BY DEF BudgetSpent, attemptVars
<1> HIDE DEF live
<1>6. TypeOK'
  <2>1. due' \in [Calls -> Nat \cup {Never}] /\ quiet' \in [Calls -> BOOLEAN]
    BY <1>1, <1>3, <1>5 DEF TypeOK
  <2>2. QED
    BY <1>1, <1>2, <1>4, <1>5, <2>1 DEF TypeOK, Times
<1>7. PlaceInv(c)'
  BY <1>1, <1>4, <1>5
     DEF PlaceInv, UnchargedInv, AttemptInv, EffectInv, OutcomeInv, Uncharged
<1>8. ASSUME NEW d \in Calls \ {c} PROVE PlaceInv(d)'
  BY <1>4, <1>5, OthersKeepTheirPlace DEF GatewayInv, PlaceInv, Untouched
<1>9. QED
  BY <1>6, <1>7, <1>8 DEF GatewayInv, PlaceInv

LEMMA BudgetLeftStep ==
    ASSUME GatewayInv, NEW c \in Calls, BudgetLeft(c)
    PROVE  GatewayInv'
<1>1. TypeOK /\ pc[c] = "checking" /\ PlaceInv(c)
  BY DEF GatewayInv, BudgetLeft, PlaceInv
<1>2. log' \in Seq(Times) /\ Len(log') <= MaxCalls
  BY CheckKeepsLog DEF BudgetLeft
<1>3. UNCHANGED <<now, request, stamp, attempts, began, timedOut, handler, effects, due,
                  quiet, countedAt>>
  BY DEF BudgetLeft, attemptVars
<1>4. CASE Gated /\ request[c].approval # "approved"
  <2>1. PICK s \in {"denied", "approval_required"} : Conclude(c, s)
    BY <1>4 DEF BudgetLeft
  <2>2. s \in Statuses /\ s \in RefusedBeforeExecution
    BY DEF Statuses, RefusedBeforeExecution
  <2>3. /\ pc' \in [Calls -> Places] /\ outcome' \in [Calls -> Statuses \cup {"none"}]
        /\ rows' \in [Calls -> 0..1]
        /\ pc'[c] = "over" /\ outcome'[c] = s
        /\ rows'[c] = IF Gated \/ s = "rate_limited" THEN 1 ELSE 0
        /\ \A d \in Calls \ {c} :
             pc'[d] = pc[d] /\ outcome'[d] = outcome[d] /\ rows'[d] = rows[d]
    BY <1>1, <2>1, <2>2, ConcludeKeepsTypes
  <2>4. TypeOK'
    BY <1>1, <1>2, <1>3, <2>3 DEF TypeOK, Times
  <2>5. PlaceInv(c)'
    BY <1>1, <1>3, <2>2, <2>3
       DEF PlaceInv, UnchargedInv, AttemptInv, EffectInv, OutcomeInv, Uncharged
  <2>6. ASSUME NEW d \in Calls \ {c} PROVE PlaceInv(d)'
    BY <1>3, <2>3, OthersKeepTheirPlace DEF GatewayInv, PlaceInv, Untouched
  <2>7. QED
    BY <2>4, <2>5, <2>6 DEF GatewayInv, PlaceInv
<1>5. CASE ~(Gated /\ request[c].approval # "approved")
  <2>1. /\ pc' = [pc EXCEPT ![c] = IF request[c].op = "execute" THEN "cleared" ELSE "raised"]
        /\ UNCHANGED <<outcome, rows>>
    BY <1>5 DEF BudgetLeft, PassChecks
  <2>2. TypeOK'
    BY <1>1, <1>2, <1>3, <2>1 DEF TypeOK, Places, Times
  <2>3. request[c].op \in {"execute", "preflight"}
    BY <1>1, GatewayAssumption DEF TypeOK
  <2>4. PlaceInv(c)'
    BY <1>1, <1>3, <2>1, <2>3
       DEF PlaceInv, UnchargedInv, AttemptInv, EffectInv, OutcomeInv, Uncharged, TypeOK
  <2>5. ASSUME NEW d \in Calls \ {c} PROVE PlaceInv(d)'
    BY <1>1, <1>3, <2>1, OthersKeepTheirPlace DEF GatewayInv, PlaceInv, Untouched, TypeOK
  <2>6. QED
    BY <2>2, <2>4, <2>5 DEF GatewayInv, PlaceInv
<1>6. QED
  BY <1>4, <1>5

LEMMA ReadClockStep ==
    ASSUME GatewayInv, NEW c \in Calls, ReadClock(c)
    PROVE  GatewayInv'
<1>1. /\ TypeOK /\ pc[c] = "cleared"
      /\ pc' = [pc EXCEPT ![c] = "recording"] /\ stamp' = [stamp EXCEPT ![c] = now]
      /\ UNCHANGED <<now, log, request, outcome, attempts, began, timedOut, handler, effects,
                     due, quiet, countedAt, rows>>
  BY DEF GatewayInv, ReadClock, attemptVars, limitVars
<1>2. TypeOK'
  BY <1>1 DEF TypeOK, Places
<1>3. ASSUME NEW d \in Calls PROVE PlaceInv(d)'
  BY <1>1
     DEF GatewayInv, PlaceInv, UnchargedInv, AttemptInv, EffectInv, OutcomeInv, Uncharged,
         TypeOK
<1>4. QED
  BY <1>2, <1>3 DEF GatewayInv, PlaceInv

LEMMA CountStep ==
    ASSUME GatewayInv, NEW c \in Calls, Count(c)
    PROVE  GatewayInv'
<1>1. /\ TypeOK /\ pc[c] = "recording" /\ log' = Record(log, stamp[c])
      /\ pc' = [pc EXCEPT ![c] = "attempting"]
      /\ countedAt' = [countedAt EXCEPT ![c] = stamp[c]]
      /\ quiet' = [d \in Calls |-> FALSE]
      /\ UNCHANGED <<now, request, stamp, outcome, attempts, began, timedOut, handler,
                     effects, due, rows>>
  BY DEF GatewayInv, Count, attemptVars
<1>2. log' \in Seq(Times) /\ Len(log') <= MaxCalls
  BY <1>1, RecordKeepsTheBudget DEF TypeOK, Times
<1>3. TypeOK'
  BY <1>1, <1>2 DEF TypeOK, Places, Times
<1>4. MaxAttempts \in Nat \ {0}
  BY GatewayAssumption
<1>5. ASSUME NEW d \in Calls PROVE PlaceInv(d)'
  BY <1>1, <1>4
     DEF GatewayInv, PlaceInv, UnchargedInv, AttemptInv, EffectInv, OutcomeInv, Uncharged,
         TypeOK, RefusedBeforeExecution
<1>6. QED
  BY <1>3, <1>5 DEF GatewayInv, PlaceInv

LEMMA StartHandlerStep ==
    ASSUME GatewayInv, NEW c \in Calls, StartHandler(c)
    PROVE  GatewayInv'
<1>1. /\ TypeOK /\ pc[c] = "attempting" /\ PlaceInv(c)
      /\ pc' = [pc EXCEPT ![c] = "waiting"]
      /\ attempts' = [attempts EXCEPT ![c] = @ + 1]
      /\ began' = [began EXCEPT ![c] = now]
      /\ timedOut' = [timedOut EXCEPT ![c] = FALSE]
      /\ handler' = [handler EXCEPT ![c] = "running"]
      /\ UNCHANGED <<now, log, request, stamp, outcome, effects, due, quiet, countedAt, rows>>
  BY DEF GatewayInv, StartHandler, limitVars, PlaceInv
<1>2. attempts[c] < MaxAttempts /\ MaxAttempts \in Nat
  BY <1>1, GatewayAssumption DEF PlaceInv, AttemptInv
<1>3. TypeOK'
  BY <1>1, <1>2 DEF TypeOK, Places
<1>4. ASSUME NEW d \in Calls PROVE PlaceInv(d)'
  BY <1>1, <1>2
     DEF GatewayInv, PlaceInv, UnchargedInv, AttemptInv, EffectInv, OutcomeInv, Uncharged,
         TypeOK, RefusedBeforeExecution
<1>5. QED
  BY <1>3, <1>4 DEF GatewayInv, PlaceInv

LEMMA HandlerEndsStep ==
    ASSUME GatewayInv, NEW c \in Calls, HandlerEnds(c)
    PROVE  GatewayInv'
<1>1. PICK r \in HandlerResults :
        /\ handler' = [handler EXCEPT ![c] = r]
        /\ effects' = IF r = "ok" THEN Applied(c) ELSE effects
  BY DEF HandlerEnds
<1>2. /\ TypeOK /\ handler[c] = "running" /\ PlaceInv(c)
      /\ UNCHANGED <<now, log, pc, request, stamp, outcome, attempts, began, timedOut, due,
                     quiet, countedAt, rows>>
  BY DEF GatewayInv, HandlerEnds, limitVars, callVars, PlaceInv
<1>3. r \in {"ok", "transient", "tool_error", "other_error"} /\ MaxAttempts \in Nat
  BY GatewayAssumption
<1>4. pc[c] = "waiting" /\ effects[c] < attempts[c]
  BY <1>2 DEF PlaceInv, AttemptInv, EffectInv
<1>5. effects' \in [Calls -> 0..MaxAttempts]
  <2>1. effects[c] + 1 \in 0..MaxAttempts
    BY <1>2, <1>3, <1>4 DEF TypeOK
  <2>2. QED
    BY <1>1, <1>2, <2>1 DEF TypeOK, Applied
<1>6. TypeOK'
  BY <1>1, <1>2, <1>5 DEF TypeOK
<1>7. ASSUME NEW d \in Calls PROVE PlaceInv(d)'
  BY <1>1, <1>2, <1>3, <1>4
     DEF GatewayInv, PlaceInv, UnchargedInv, AttemptInv, EffectInv, OutcomeInv, Uncharged,
         TypeOK, RefusedBeforeExecution, Applied
<1>8. QED
  BY <1>6, <1>7 DEF GatewayInv, PlaceInv

\* A wait that gives up, and time that passes, move no call.
LEMMA GiveUpStep ==
    ASSUME GatewayInv, NEW c \in Calls, GiveUp(c)
    PROVE  GatewayInv'
<1>1. /\ TypeOK /\ timedOut' = [timedOut EXCEPT ![c] = TRUE]
      /\ UNCHANGED <<now, log, pc, request, stamp, outcome, attempts, began, handler, effects,
                     due, quiet, countedAt, rows>>
  BY DEF GatewayInv, GiveUp, limitVars, callVars
<1>2. TypeOK'
  BY <1>1 DEF TypeOK
<1>3. ASSUME NEW d \in Calls PROVE PlaceInv(d)'
  BY <1>1, OthersKeepTheirPlace DEF GatewayInv, PlaceInv, Untouched
<1>4. QED
  BY <1>2, <1>3 DEF GatewayInv, PlaceInv

LEMMA TickStep ==
    ASSUME GatewayInv, Tick
    PROVE  GatewayInv'
<1>1. /\ TypeOK /\ now < MaxTime /\ now' = now + 1
      /\ UNCHANGED <<log, pc, request, stamp, outcome, attempts, began, timedOut, handler,
                     effects, due, quiet, countedAt, rows>>
  BY DEF GatewayInv, Tick, limitVars, callVars, attemptVars
<1>2. TypeOK'
  BY <1>1, GatewayAssumption DEF TypeOK
<1>3. ASSUME NEW d \in Calls PROVE PlaceInv(d)'
  BY <1>1, OthersKeepTheirPlace DEF GatewayInv, PlaceInv, Untouched
<1>4. QED
  BY <1>2, <1>3 DEF GatewayInv, PlaceInv

LEMMA RetryStep ==
    ASSUME GatewayInv, NEW c \in Calls, Retry(c)
    PROVE  GatewayInv'
<1>1. /\ TypeOK /\ pc[c] = "waiting" /\ handler[c] # "running" /\ attempts[c] < MaxAttempts
      /\ pc' = [pc EXCEPT ![c] = "attempting"]
      /\ UNCHANGED <<now, log, request, stamp, outcome, attempts, began, timedOut, handler,
                     effects, due, quiet, countedAt, rows>>
  BY DEF GatewayInv, Retry, AttemptEnded, limitVars, attemptVars
<1>2. TypeOK'
  BY <1>1 DEF TypeOK, Places
<1>3. ASSUME NEW d \in Calls PROVE PlaceInv(d)'
  BY <1>1
     DEF GatewayInv, PlaceInv, UnchargedInv, AttemptInv, EffectInv, OutcomeInv, Uncharged,
         TypeOK
<1>4. QED
  BY <1>2, <1>3 DEF GatewayInv, PlaceInv

LEMMA EscapeStep ==
    ASSUME GatewayInv, NEW c \in Calls, Escape(c)
    PROVE  GatewayInv'
<1>1. /\ TypeOK /\ pc[c] = "waiting" /\ handler[c] = "other_error"
      /\ pc' = [pc EXCEPT ![c] = "raised"]
      /\ UNCHANGED <<now, log, request, stamp, outcome, attempts, began, timedOut, handler,
                     effects, due, quiet, countedAt, rows>>
  BY DEF GatewayInv, Escape, AttemptEnded, AttemptResult, limitVars, attemptVars
<1>2. TypeOK'
  BY <1>1 DEF TypeOK, Places
<1>3. ASSUME NEW d \in Calls PROVE PlaceInv(d)'
  BY <1>1
     DEF GatewayInv, PlaceInv, UnchargedInv, AttemptInv, EffectInv, OutcomeInv, Uncharged,
         TypeOK
<1>4. QED
  BY <1>2, <1>3 DEF GatewayInv, PlaceInv

\* What an attempt came to decides the outcome, and the outcome what is known
\* of the work: "ok" was done, "failed" was not.
LEMMA ReturnStep ==
    ASSUME GatewayInv, NEW c \in Calls, Return(c)
    PROVE  GatewayInv'
<1>1. /\ TypeOK /\ PlaceInv(c) /\ pc[c] = "waiting" /\ handler[c] # "running"
      /\ AttemptResult(c) # "other_error"
      /\ UNCHANGED <<now, log, request, stamp, attempts, began, timedOut, handler, effects,
                     due, quiet, countedAt>>
  BY DEF GatewayInv, PlaceInv, Return, AttemptEnded, limitVars, attemptVars
<1>2. handler[c] \in {"ok", "transient", "tool_error", "other_error"}
  BY <1>1, GatewayAssumption DEF TypeOK, PlaceInv, AttemptInv
<1>3. PICK s \in {"ok", "transient_failure", "failed"} :
        /\ Conclude(c, s)
        /\ s = "ok" => handler[c] = "ok"
        /\ s = "failed" => handler[c] = "tool_error"
  <2>1. CASE AttemptResult(c) = "ok"
    BY <1>2, <2>1 DEF Return, AttemptResult
  <2>2. CASE AttemptResult(c) = "transient"
    BY <2>2 DEF Return
  <2>3. CASE AttemptResult(c) = "tool_error"
    BY <1>2, <2>3 DEF Return, AttemptResult
  <2>4. QED
    BY <1>1, <1>2, <2>1, <2>2, <2>3 DEF AttemptResult
<1>4. s \in Statuses /\ s \notin RefusedBeforeExecution /\ s # "rate_limited" /\ s # "none"
  BY DEF Statuses, RefusedBeforeExecution
<1>5. /\ pc' \in [Calls -> Places] /\ outcome' \in [Calls -> Statuses \cup {"none"}]
      /\ rows' \in [Calls -> 0..1]
      /\ pc'[c] = "over" /\ outcome'[c] = s
      /\ rows'[c] = IF Gated \/ s = "rate_limited" THEN 1 ELSE 0
      /\ \A d \in Calls \ {c} :
           pc'[d] = pc[d] /\ outcome'[d] = outcome[d] /\ rows'[d] = rows[d]
  BY <1>1, <1>3, <1>4, ConcludeKeepsTypes
<1>6. TypeOK'
  BY <1>1, <1>5 DEF TypeOK
<1>7. PlaceInv(c)'
  <2>1. attempts[c] > 0 /\ request[c].op # "preflight"
    BY <1>1 DEF PlaceInv, AttemptInv, UnchargedInv
  <2>2. s = "ok" => effects[c] >= 1
    BY <1>1, <1>3 DEF PlaceInv, EffectInv, TypeOK
  <2>3. s = "failed" => effects[c] < attempts[c]
    BY <1>1, <1>3 DEF PlaceInv, EffectInv
  <2>4. OutcomeInv(c)'
    BY <1>1, <1>4, <1>5, <2>2, <2>3 DEF OutcomeInv
  <2>5. QED
    BY <1>1, <1>5, <2>1, <2>4
       DEF PlaceInv, UnchargedInv, AttemptInv, EffectInv, Uncharged
<1>8. ASSUME NEW d \in Calls \ {c} PROVE PlaceInv(d)'
  BY <1>1, <1>5, OthersKeepTheirPlace DEF GatewayInv, PlaceInv, Untouched
<1>9. QED
  BY <1>6, <1>7, <1>8 DEF GatewayInv, PlaceInv

LEMMA StutterStep ==
    ASSUME GatewayInv, UNCHANGED vars
    PROVE  GatewayInv'
<1>1. UNCHANGED <<now, log, pc, request, stamp, outcome, attempts, began, timedOut, handler,
                  effects, due, quiet, countedAt, rows>>
  BY DEF vars, callVars, attemptVars, limitVars
<1>2. TypeOK'
  BY <1>1 DEF GatewayInv, TypeOK
<1>3. ASSUME NEW d \in Calls PROVE PlaceInv(d)'
  BY <1>1, OthersKeepTheirPlace DEF GatewayInv, PlaceInv, Untouched
<1>4. QED
  BY <1>2, <1>3 DEF GatewayInv, PlaceInv

\* The inductive invariant holds in every state, however calls interleave.
THEOREM GatewayInvariant == Spec => []GatewayInv
<1>1. GatewayInv /\ [Next]_vars => GatewayInv'
  <2> SUFFICES ASSUME GatewayInv, [Next]_vars
               PROVE  GatewayInv'
    OBVIOUS
  <2>1. CASE Tick
    BY <2>1, TickStep
  <2>2. ASSUME NEW c \in Calls, Begin(c) PROVE GatewayInv'
    BY <2>2, BeginStep
  <2>3. ASSUME NEW c \in Calls, HandlerEnds(c) PROVE GatewayInv'
    BY <2>3, HandlerEndsStep
  <2>4. ASSUME NEW c \in Calls, Gateway(c) PROVE GatewayInv'
    BY <2>4, BudgetSpentStep, BudgetLeftStep, ReadClockStep, CountStep, StartHandlerStep,
       GiveUpStep, RetryStep, ReturnStep, EscapeStep DEF Gateway
  <2>5. CASE UNCHANGED vars
    BY <2>5, StutterStep
  <2>6. QED
    BY <2>1, <2>2, <2>3, <2>4, <2>5 DEF Next
<1>2. QED
  BY InitEstablishes, <1>1, PTL DEF Spec

\* Every variable keeps its type, and the limiter never holds more timestamps
\* than the budget allows.
THEOREM TypeCorrect == Spec => []TypeOK
<1>1. GatewayInv => TypeOK
  BY DEF GatewayInv
<1>2. QED
  BY <1>1, GatewayInvariant, PTL

\* A refused call, or one that was only asked about, ran no handler and is not
\* charged.
THEOREM RefusalsAreFree == Spec => []RefusedCallsCostNothing
<1>1. GatewayInv => RefusedCallsCostNothing
  BY DEF GatewayInv, RefusedCallsCostNothing, UnchargedInv, OutcomeInv
<1>2. QED
  BY <1>1, GatewayInvariant, PTL

\* No handler outlives the attempt that started it.
THEOREM HandlersContained == Spec => []HandlersAreContained
<1>1. GatewayInv => HandlersAreContained
  BY DEF GatewayInv, HandlersAreContained, AttemptInv
<1>2. QED
  BY <1>1, GatewayInvariant, PTL

\* The outcome tells the truth about the work: at most one piece per attempt,
\* done when the outcome is "ok", and one attempt without it when it is "failed".
THEOREM OutcomesAreTrue == Spec => []AppliedAsReported
<1>1. ASSUME GatewayInv, NEW c \in Calls
      PROVE  /\ effects[c] <= MaxAttempts
             /\ outcome[c] = "ok" => effects[c] >= 1
             /\ outcome[c] = "failed" => effects[c] < MaxAttempts
  <2>1. effects[c] \in 0..MaxAttempts /\ attempts[c] \in 0..MaxAttempts
    BY <1>1 DEF GatewayInv, TypeOK
  <2>2. OutcomeInv(c)
    BY <1>1 DEF GatewayInv
  <2>3. QED
    BY <2>1, <2>2, GatewayAssumption DEF OutcomeInv
<1>2. GatewayInv => AppliedAsReported
  BY <1>1 DEF AppliedAsReported
<1>3. QED
  BY <1>2, GatewayInvariant, PTL

\* Work goes without an audit row only where a retry followed it and raised.
THEOREM WorkIsAudited == Spec => []WorkIsOnRecord
<1>1. ASSUME GatewayInv, NEW c \in Calls, Gated, Ended(c), effects[c] > 0, rows[c] = 0
      PROVE  handler[c] = "other_error" /\ effects[c] < attempts[c]
  <2>1. UnchargedInv(c) /\ EffectInv(c) /\ OutcomeInv(c)
        /\ attempts[c] \in 0..MaxAttempts
    BY <1>1 DEF GatewayInv, TypeOK
  <2>2. pc[c] = "raised"
    BY <1>1, <2>1 DEF Ended, OutcomeInv
  <2>3. attempts[c] > 0
    BY <1>1, <2>1, GatewayAssumption DEF UnchargedInv
  <2>4. QED
    BY <2>1, <2>2, <2>3 DEF OutcomeInv, EffectInv
<1>2. GatewayInv => WorkIsOnRecord
  BY <1>1 DEF WorkIsOnRecord
<1>3. QED
  BY <1>2, GatewayInvariant, PTL

\* So a gated tool that is declared without retries, as create_project_risk is,
\* does nothing off the record.
COROLLARY UnretriedWorkIsAudited ==
    ASSUME MaxAttempts = 1
    PROVE  Spec => [](\A c \in Calls : Gated /\ Ended(c) /\ effects[c] > 0 => rows[c] = 1)
<1>1. ASSUME TypeOK, WorkIsOnRecord, NEW c \in Calls, Gated, Ended(c),
             effects[c] > 0
      PROVE  rows[c] = 1
  <2>1. rows[c] \in 0..1 /\ effects[c] \in 0..MaxAttempts /\ attempts[c] \in 0..MaxAttempts
    BY <1>1 DEF TypeOK
  <2>2. CASE rows[c] = 0
    <3>1. effects[c] < attempts[c]
      BY <1>1, <2>2 DEF WorkIsOnRecord
    <3>2. QED
      BY <1>1, <2>1, <3>1
  <2>3. QED
    BY <2>1, <2>2
<1> DEFINE Audited == \A c \in Calls : Gated /\ Ended(c) /\ effects[c] > 0 => rows[c] = 1
<1>2. TypeOK /\ WorkIsOnRecord => Audited
  BY <1>1
<1> HIDE DEF Audited
<1>3. Spec => []Audited
  BY <1>2, TypeCorrect, WorkIsAudited, PTL
<1>4. QED
  BY <1>3 DEF Audited

-----------------------------------------------------------------------------
(***************************************************************************)
(* The promised delay: the log's oldest entry is the one the promise was   *)
(* made of, as long as the log stays full and nothing is recorded.         *)
(***************************************************************************)
\* What is live of a log is the whole of it, or shorter.
LEMMA LiveIsWholeOrShorter ==
    ASSUME NEW l \in Seq(Times), NEW t \in Times
    PROVE  Live(l, t) = l \/ Len(Live(l, t)) < Len(l)
<1> DEFINE fresh == {i \in DOMAIN l : t < l[i] + Window}
<1>1. fresh \in SUBSET Nat /\ Len(l) \in Nat /\ DOMAIN l = 1..Len(l)
  OBVIOUS
<1>2. CASE fresh = {}
  <2>1. Live(l, t) = <<>>
    BY <1>2 DEF Live
  <2>2. l = <<>> \/ Len(l) > 0
    BY <1>1
  <2>3. QED
    BY <2>1, <2>2
<1>3. CASE fresh # {}
  <2>1. Min(fresh) \in fresh /\ Live(l, t) = SubSeq(l, Min(fresh), Len(l))
    BY <1>1, <1>3, LeastExists DEF Live
  <2> DEFINE m == Min(fresh)
  <2>2. m \in 1..Len(l)
    BY <1>1, <2>1
  <2> HIDE DEF m, fresh
  <2>3. Live(l, t) = SubSeq(l, m, Len(l))
    BY <2>1 DEF m
  <2>4. CASE m = 1
    BY <1>1, <2>3, <2>4, SubSeqFull
  <2>5. CASE m # 1
    BY <1>1, <2>2, <2>3, <2>5, SubSeqProperties
  <2>6. QED
    BY <2>4, <2>5
<1>4. QED
  BY <1>2, <1>3

\* A log stays as it promised when it is only cleared of what has aged.
LEMMA PromisesSurviveAChecking ==
    ASSUME GatewayInv, NEW t \in Times, log' = Live(log, t),
           NEW c \in Calls, PromiseInv(c),
           outcome'[c] = outcome[c], due'[c] = due[c], stamp'[c] = stamp[c],
           quiet'[c] = quiet[c]
    PROVE  PromiseInv(c)'
<1>1. log \in Seq(Times) /\ Len(log) <= MaxCalls
  BY DEF GatewayInv, TypeOK, Times
<1>2. log' = log \/ Len(log') < Len(log)
  BY <1>1, LiveIsWholeOrShorter
<1>3. log' \in Seq(Times) /\ Len(log) \in Nat /\ Len(log') \in Nat /\ MaxCalls \in Nat
  BY <1>1, LiveIsASuffix, GatewayAssumption
<1>4. quiet[c] => Len(log') < MaxCalls \/ log'[1] + Window <= due[c]
  BY <1>1, <1>2, <1>3 DEF PromiseInv
<1>5. QED
  BY <1>4 DEF PromiseInv

\* A step that leaves the log, and one call, leaves its promise.
LEMMA PromisesSurviveTheRest ==
    ASSUME NEW c \in Calls, PromiseInv(c), log' = log,
           outcome'[c] = outcome[c], due'[c] = due[c], stamp'[c] = stamp[c],
           quiet'[c] = quiet[c]
    PROVE  PromiseInv(c)'
BY DEF PromiseInv

\* The refusal makes its promise of the entry it found at the head of the log.
LEMMA RefusalPromises ==
    ASSUME GatewayInv, PromisesInv, NEW c \in Calls, BudgetSpent(c)
    PROVE  PromisesInv'
<1> DEFINE live == Live(log, stamp[c])
<1>1. /\ stamp[c] \in Times /\ log \in Seq(Times) /\ pc[c] # "over"
      /\ due \in [Calls -> Nat \cup {Never}] /\ quiet \in [Calls -> BOOLEAN]
      /\ outcome \in [Calls -> Statuses \cup {"none"}]
  BY DEF GatewayInv, TypeOK, BudgetSpent, Times
<1>2. /\ log' = live /\ Len(live) >= MaxCalls
      /\ due' = [due EXCEPT ![c] = live[1] + Window]
      /\ quiet' = [quiet EXCEPT ![c] = TRUE]
      /\ outcome' = [outcome EXCEPT ![c] = "rate_limited"]
      /\ stamp' = stamp
  BY DEF BudgetSpent, Conclude
<1>3. live \in Seq(Times) /\ (live # <<>> => stamp[c] < live[1] + Window)
  BY <1>1, LiveIsASuffix
<1>4. 1 \in DOMAIN live /\ live # <<>>
  BY <1>2, <1>3, GatewayAssumption
<1>5. live[1] \in Times /\ stamp[c] < live[1] + Window
  BY <1>3, <1>4
<1> HIDE DEF live
<1>6. due'[c] = live[1] + Window /\ due'[c] \in Nat /\ due'[c] > stamp'[c]
  BY <1>1, <1>2, <1>5, GatewayAssumption DEF Times
<1>7. PromiseInv(c)'
  <2>1. log'[1] + Window <= due'[c]
    BY <1>2, <1>5, <1>6 DEF Times
  <2>2. QED
    BY <1>1, <1>2, <1>6, <2>1 DEF PromiseInv
<1>8. ASSUME NEW d \in Calls, d # c PROVE PromiseInv(d)'
  BY <1>1, <1>2, <1>8, PromisesSurviveAChecking DEF PromisesInv, live
<1>9. QED
  BY <1>7, <1>8 DEF PromisesInv

\* The other ways to an outcome end calls that were not refused for the budget.
LEMMA OutcomePromises ==
    ASSUME GatewayInv, PromisesInv, NEW c \in Calls, NEW s \in Statuses \ {"rate_limited"},
           Conclude(c, s), pc[c] # "over",
           UNCHANGED <<due, quiet, stamp>>,
           log' = log \/ log' = Live(log, stamp[c])
    PROVE  PromisesInv'
<1>1. /\ stamp[c] \in Times /\ outcome \in [Calls -> Statuses \cup {"none"}]
      /\ outcome[c] = "none"
  BY DEF GatewayInv, TypeOK, Times, OutcomeInv
<1>2. outcome' = [outcome EXCEPT ![c] = s]
  BY DEF Conclude
<1>3. ~quiet[c]
  BY <1>1 DEF PromisesInv, PromiseInv
<1>4. PromiseInv(c)'
  BY <1>1, <1>2, <1>3 DEF PromiseInv
<1>5. ASSUME NEW d \in Calls, d # c PROVE PromiseInv(d)'
  BY <1>1, <1>2, <1>5, PromisesSurviveAChecking, PromisesSurviveTheRest DEF PromisesInv
<1>6. QED
  BY <1>4, <1>5 DEF PromisesInv

LEMMA PromisesStep ==
    ASSUME GatewayInv, PromisesInv, [Next]_vars
    PROVE  PromisesInv'
<1>1. CASE Tick \/ UNCHANGED vars
  <2>1. UNCHANGED <<log, outcome, due, stamp, quiet>>
    BY <1>1 DEF Tick, vars, callVars, limitVars
  <2>2. QED
    BY <2>1, PromisesSurviveTheRest DEF PromisesInv
<1>2. ASSUME NEW c \in Calls, Begin(c) PROVE PromisesInv'
  <2>1. pc[c] = "new" /\ UNCHANGED <<log, due, quiet>>
    BY <1>2 DEF Begin, limitVars
  <2>2. CASE RefuseEarly(c)
    <3>1. PICK s \in {"invalid_arguments", "denied"} : Conclude(c, s)
      BY <2>2 DEF RefuseEarly
    <3>2. s \in Statuses \ {"rate_limited"} /\ stamp' = stamp
      BY <2>2 DEF RefuseEarly, Statuses
    <3>3. QED
      BY <2>1, <3>1, <3>2, OutcomePromises
  <2>3. CASE ReachBudget(c)
    <3>1. stamp' = [stamp EXCEPT ![c] = now] /\ outcome' = outcome
      BY <2>3 DEF ReachBudget
    <3>2. outcome[c] = "none" /\ stamp \in [Calls -> 0..MaxTime]
      BY <2>1 DEF GatewayInv, TypeOK, OutcomeInv
    <3>3. PromiseInv(c)'
      BY <2>1, <3>1, <3>2 DEF PromisesInv, PromiseInv
    <3>4. ASSUME NEW d \in Calls, d # c PROVE PromiseInv(d)'
      BY <2>1, <3>1, <3>2, <3>4, PromisesSurviveTheRest DEF PromisesInv
    <3>5. QED
      BY <3>3, <3>4 DEF PromisesInv
  <2>4. QED
    BY <1>2, <2>2, <2>3 DEF Begin
<1>3. ASSUME NEW c \in Calls, BudgetLeft(c) PROVE PromisesInv'
  <2>1. pc[c] = "checking" /\ log' = Live(log, stamp[c]) /\ UNCHANGED <<due, quiet, stamp>>
    BY <1>3 DEF BudgetLeft
  <2>2. CASE Gated /\ request[c].approval # "approved"
    <3>1. PICK s \in {"denied", "approval_required"} : Conclude(c, s)
      BY <1>3, <2>2 DEF BudgetLeft
    <3>2. s \in Statuses \ {"rate_limited"}
      BY DEF Statuses
    <3>3. QED
      BY <2>1, <3>1, <3>2, OutcomePromises
  <2>3. CASE ~(Gated /\ request[c].approval # "approved")
    <3>1. outcome' = outcome /\ stamp[c] \in Times
      BY <1>3, <2>3 DEF BudgetLeft, PassChecks, GatewayInv, TypeOK, Times
    <3>2. QED
      BY <2>1, <3>1, PromisesSurviveAChecking DEF PromisesInv
  <2>4. QED
    BY <2>2, <2>3
<1>4. ASSUME NEW c \in Calls, ReadClock(c) PROVE PromisesInv'
  <2>1. /\ outcome[c] = "none" /\ stamp \in [Calls -> 0..MaxTime]
        /\ stamp' = [stamp EXCEPT ![c] = now]
        /\ UNCHANGED <<log, outcome, due, quiet>>
    BY <1>4 DEF GatewayInv, TypeOK, OutcomeInv, ReadClock, limitVars
  <2>2. PromiseInv(c)'
    BY <2>1 DEF PromisesInv, PromiseInv
  <2>3. ASSUME NEW d \in Calls, d # c PROVE PromiseInv(d)'
    BY <2>1, <2>3, PromisesSurviveTheRest DEF PromisesInv
  <2>4. QED
    BY <2>2, <2>3 DEF PromisesInv
<1>5. ASSUME NEW c \in Calls, Count(c) PROVE PromisesInv'
  BY <1>5 DEF Count, PromisesInv, PromiseInv
<1>6. ASSUME NEW c \in Calls,
             StartHandler(c) \/ GiveUp(c) \/ Retry(c) \/ Escape(c) \/ HandlerEnds(c)
      PROVE  PromisesInv'
  <2>1. UNCHANGED <<log, outcome, due, stamp, quiet>>
    BY <1>6 DEF StartHandler, GiveUp, Retry, Escape, HandlerEnds, limitVars, callVars
  <2>2. QED
    BY <2>1, PromisesSurviveTheRest DEF PromisesInv
<1>7. ASSUME NEW c \in Calls, Return(c) PROVE PromisesInv'
  <2>1. pc[c] = "waiting" /\ UNCHANGED <<log, due, quiet, stamp>>
    BY <1>7 DEF Return, AttemptEnded, limitVars
  <2>2. AttemptResult(c) \in {"ok", "transient", "tool_error"}
    BY <1>7, GatewayAssumption
       DEF Return, AttemptEnded, AttemptResult, GatewayInv, TypeOK, AttemptInv
  <2>3. PICK s \in {"ok", "transient_failure", "failed"} : Conclude(c, s)
    BY <1>7, <2>2 DEF Return
  <2>4. s \in Statuses \ {"rate_limited"}
    BY DEF Statuses
  <2>5. QED
    BY <2>1, <2>3, <2>4, OutcomePromises
<1>8. QED
  BY <1>1, <1>2, <1>3, <1>4, <1>5, <1>6, <1>7, RefusalPromises DEF Next, Gateway

\* retry_after_seconds is positive and enough: when it has passed and nothing
\* was recorded meanwhile, the limiter has room.
THEOREM DelaysAreHonest == Spec => []RetryAfterIsHonest
<1>1. Init => PromisesInv
  BY DEF Init, PromisesInv, PromiseInv
<1>2. ASSUME GatewayInv, PromisesInv, NEW c \in Calls, outcome[c] = "rate_limited"
      PROVE  /\ due[c] > stamp[c]
             /\ quiet[c] /\ now >= due[c] => Len(Live(log, now)) < MaxCalls
  <2>1. PromiseInv(c) /\ due[c] \in Nat
    BY <1>2 DEF PromisesInv, PromiseInv
  <2>2. /\ log \in Seq(Times) /\ now \in Times /\ Len(log) <= MaxCalls
        /\ Len(log) \in Nat /\ MaxCalls \in Nat \ {0}
    BY <1>2, GatewayAssumption DEF GatewayInv, TypeOK, Times
  <2>3. /\ Live(log, now) \in Seq(Times) /\ Len(Live(log, now)) <= Len(log)
        /\ Live(log, now) # <<>> => now < Live(log, now)[1] + Window
        /\ Live(log, now) = log \/ Len(Live(log, now)) < Len(log)
    BY <2>2, LiveIsASuffix, LiveIsWholeOrShorter
  <2>4. ASSUME quiet[c], now >= due[c], Len(Live(log, now)) >= MaxCalls
        PROVE  FALSE
    <3>1. Live(log, now) = log /\ Len(log) = MaxCalls /\ log # <<>>
      BY <2>2, <2>3, <2>4
    <3>2. now < log[1] + Window /\ log[1] + Window <= due[c]
      BY <1>2, <2>1, <2>2, <2>3, <2>4, <3>1 DEF PromiseInv
    <3>3. 1 \in DOMAIN log
      BY <2>2, <3>1
    <3>4. log[1] \in Times
      BY <2>2, <3>3
    <3>5. QED
      BY <2>1, <2>2, <2>4, <3>2, <3>4, GatewayAssumption DEF Times
  <2>5. Len(Live(log, now)) \in Nat
    BY <2>3
  <2>6. QED
    BY <1>2, <2>1, <2>2, <2>4, <2>5 DEF PromiseInv
<1>3. GatewayInv /\ PromisesInv => RetryAfterIsHonest
  BY <1>2 DEF RetryAfterIsHonest
<1>4. QED
  BY <1>1, <1>3, PromisesStep, GatewayInvariant, PTL DEF Spec

-----------------------------------------------------------------------------
(***************************************************************************)
(* By how much concurrent turns can exceed the budget of a tool, for every *)
(* number of turns and calls and every budget.                             *)
(***************************************************************************)
(***************************************************************************)
(* Numbers.                                                                *)
(***************************************************************************)
LEMMA ScaleUp ==
    ASSUME NEW k \in Nat, NEW x \in Int, NEW y \in Int, x <= y
    PROVE  k * x \in Int /\ k * y \in Int /\ k * x <= k * y
<1>1. k * x \in Int /\ k * y \in Int /\ k * (y - x) = k * y - k * x
  OBVIOUS
<1>2. y - x \in Nat
  OBVIOUS
<1>3. k * (y - x) \in Nat
  BY <1>2
<1>4. QED
  BY <1>1, <1>3

LEMMA ScaleStep ==
    ASSUME NEW k \in Nat, NEW x \in Int
    PROVE  k * x \in Int /\ k * (x + 1) = k * x + k
  OBVIOUS

LEMMA ShiftedSet ==
    ASSUME NEW A \in SUBSET Int, IsFiniteSet(A), NEW k \in Int
    PROVE  Cardinality({a - k : a \in A}) = Cardinality(A)
<1> DEFINE B == {a - k : a \in A}
           f == [a \in A |-> a - k]
<1>1. \A a \in A : a \in Int /\ a - k \in B /\ f[a] = a - k
  OBVIOUS
<1>2. \A b \in B : \E a \in A : f[a] = b
  OBVIOUS
<1>3. f = [a \in A |-> f[a]]
  OBVIOUS
<1> HIDE DEF B, f
<1>4. \A a \in A : f[a] \in B
  BY <1>1
<1>5. f \in [A -> B]
  BY <1>3, <1>4
<1>6. \A a, b \in A : f[a] = f[b] => a = b
  BY <1>1
<1>7. f \in Bijection(A, B)
  BY <1>2, <1>5, <1>6 DEF Bijection, Injection, Surjection, IsInjective
<1>8. ExistsBijection(A, B)
  BY <1>7, Zenon DEF ExistsBijection
<1>9. QED
  BY <1>8, FS_Bijection DEF B

-----------------------------------------------------------------------------
(***************************************************************************)
(* Entries that leave the log at its front.                                *)
(***************************************************************************)
\* r is what is left of l without its first k entries.
Suffix(r, l, k) ==
    /\ l \in Seq(Times) /\ r \in Seq(Times)
    /\ k \in 0..Len(l) /\ Len(r) = Len(l) - k
    /\ \A i \in 1..Len(r) : r[i] = l[i + k]

LEMMA LiveSuffix ==
    ASSUME NEW l \in Seq(Times), NEW s \in Times
    PROVE  \E k \in 0..Len(l) :
             Suffix(Live(l, s), l, k) /\ \A i \in 1..k : l[i] + Window <= s
<1> DEFINE fresh == {i \in DOMAIN l : s < l[i] + Window}
<1>1. Len(l) \in Nat /\ DOMAIN l = 1..Len(l) /\ fresh \in SUBSET Nat
  OBVIOUS
<1>2. \A i \in 1..Len(l) : l[i] \in Nat /\ l[i] + Window \in Nat /\ s \in Nat
  BY GatewayAssumption DEF Times
<1>3. CASE fresh = {}
  <2>1. Live(l, s) = <<>>
    BY <1>3 DEF Live
  <2>2. \A i \in 1..Len(l) : l[i] + Window <= s
    BY <1>1, <1>2, <1>3
  <2>3. Suffix(<<>>, l, Len(l))
    BY <1>1 DEF Suffix
  <2>4. QED
    BY <1>1, <2>1, <2>2, <2>3
<1>4. CASE fresh # {}
  <2>1. Min(fresh) \in fresh /\ \A y \in fresh : Min(fresh) <= y
    BY <1>1, <1>4, LeastExists
  <2>2. Live(l, s) = SubSeq(l, Min(fresh), Len(l))
    BY <1>4 DEF Live
  <2> DEFINE m == Min(fresh)
             k == m - 1
  <2>3. m \in 1..Len(l) /\ \A y \in fresh : m <= y
    BY <1>1, <2>1
  <2> HIDE DEF m
  <2>4. ASSUME NEW i \in 1..k PROVE i \in 1..Len(l) /\ i \notin fresh
    <3>1. i \in 1..Len(l) /\ i < m
      BY <1>1, <2>3
    <3>2. QED
      BY <2>3, <3>1
  <2>5. \A i \in 1..k : l[i] + Window <= s
    BY <1>1, <1>2, <2>4
  <2> HIDE DEF m, fresh
  <2>6. Live(l, s) = SubSeq(l, m, Len(l))
    BY <2>2 DEF m
  <2>7. /\ SubSeq(l, m, Len(l)) \in Seq(Times)
        /\ Len(SubSeq(l, m, Len(l))) = Len(l) - m + 1
        /\ \A i \in 1..(Len(l) - m + 1) : SubSeq(l, m, Len(l))[i] = l[m + i - 1]
    BY <1>1, <2>3, SubSeqProperties
  <2>8. Suffix(Live(l, s), l, k)
    BY <1>1, <2>3, <2>6, <2>7 DEF Suffix
  <2>9. QED
    BY <1>1, <2>3, <2>5, <2>8
<1>5. QED
  BY <1>3, <1>4

LEMMA LogSets ==
    ASSUME NEW l \in Seq(Times), NEW t \in Nat
    PROVE  /\ Len(l) \in Nat
           /\ IsFiniteSet(Counting(l, t)) /\ Counting(l, t) \in SUBSET (1..Len(l))
           /\ Cardinality(Counting(l, t)) \in Nat
           /\ Cardinality(Counting(l, t)) <= Len(l)
           /\ \A i \in 1..Len(l) :
                /\ l[i] \in Nat /\ l[i] + Window \in Nat
                /\ i \in Counting(l, t) <=> t < l[i] + Window
                /\ IsFiniteSet(Behind(l, i, t)) /\ Behind(l, i, t) \in SUBSET (1..Len(l))
                /\ Cardinality(Behind(l, i, t)) \in Nat
<1>1. Len(l) \in Nat /\ DOMAIN l = 1..Len(l)
  OBVIOUS
<1>2. IsFiniteSet(1..Len(l)) /\ Cardinality(1..Len(l)) = Len(l)
  BY <1>1, FS_Interval
<1>3. Counting(l, t) \in SUBSET (1..Len(l))
  BY <1>1 DEF Counting
<1>4. /\ IsFiniteSet(Counting(l, t)) /\ Cardinality(Counting(l, t)) \in Nat
      /\ Cardinality(Counting(l, t)) <= Len(l)
  BY <1>2, <1>3, FS_Subset, FS_CardinalityType
<1>5. ASSUME NEW i \in 1..Len(l)
      PROVE  /\ l[i] \in Nat /\ l[i] + Window \in Nat
             /\ i \in Counting(l, t) <=> t < l[i] + Window
             /\ IsFiniteSet(Behind(l, i, t)) /\ Behind(l, i, t) \in SUBSET (1..Len(l))
             /\ Cardinality(Behind(l, i, t)) \in Nat
  <2>1. l[i] \in Nat /\ l[i] + Window \in Nat
    BY GatewayAssumption DEF Times
  <2>2. i \in Counting(l, t) <=> t < l[i] + Window
    BY <1>1 DEF Counting
  <2>3. Behind(l, i, t) \in SUBSET (1..Len(l))
    BY <1>1 DEF Behind
  <2>4. QED
    BY <1>2, <2>1, <2>2, <2>3, FS_Subset, FS_CardinalityType
<1>6. QED
  BY <1>1, <1>3, <1>4, <1>5

\* What the window counts of a suffix is what it counted of the log, moved.
LEMMA SuffixCounting ==
    ASSUME NEW l, NEW r, NEW k, Suffix(r, l, k), NEW t \in Nat
    PROVE  /\ Counting(r, t) = {i - k : i \in {j \in Counting(l, t) : j > k}}
           /\ Cardinality(Counting(r, t)) = Cardinality({j \in Counting(l, t) : j > k})
<1>1. /\ l \in Seq(Times) /\ r \in Seq(Times) /\ Len(l) \in Nat /\ Len(r) \in Nat
      /\ DOMAIN l = 1..Len(l) /\ DOMAIN r = 1..Len(r)
      /\ k \in 0..Len(l) /\ Len(r) = Len(l) - k
      /\ \A i \in 1..Len(r) : r[i] = l[i + k]
  BY DEF Suffix
<1> DEFINE C == {j \in Counting(l, t) : j > k}
           D == {i - k : i \in C}
<1>2. ASSUME NEW i \in Counting(r, t) PROVE i \in D
  <2>1. i \in 1..Len(r) /\ t < r[i] + Window
    BY <1>1, <1>2 DEF Counting
  <2>2. i + k \in 1..Len(l) /\ r[i] = l[i + k] /\ i + k > k /\ i = (i + k) - k
    BY <1>1, <2>1
  <2>3. i + k \in C
    BY <1>1, <2>1, <2>2 DEF Counting
  <2>4. QED
    BY <2>2, <2>3
<1>3. ASSUME NEW j \in C PROVE j - k \in Counting(r, t)
  <2>1. j \in 1..Len(l) /\ t < l[j] + Window /\ j > k
    BY <1>1, <1>3 DEF Counting
  <2>2. j - k \in 1..Len(r) /\ (j - k) + k = j
    BY <1>1, <2>1
  <2>3. r[j - k] = l[j]
    BY <1>1, <2>2
  <2>4. QED
    BY <1>1, <2>1, <2>2, <2>3 DEF Counting
<1>4. Counting(r, t) = D
  BY <1>2, <1>3
<1>5. C \in SUBSET Int /\ IsFiniteSet(C) /\ k \in Int
  <2>1. Counting(l, t) \in SUBSET (1..Len(l)) /\ IsFiniteSet(Counting(l, t))
    BY <1>1, LogSets
  <2>2. C \in SUBSET Counting(l, t)
    OBVIOUS
  <2>3. QED
    BY <1>1, <2>1, <2>2, FS_Subset
<1> HIDE DEF C
<1>6. Cardinality(D) = Cardinality(C)
  BY <1>5, ShiftedSet
<1>7. QED
  BY <1>4, <1>6 DEF C

LEMMA SuffixBehind ==
    ASSUME NEW l, NEW r, NEW k, Suffix(r, l, k), NEW t \in Nat, NEW i \in Counting(r, t)
    PROVE  /\ i + k \in Counting(l, t)
           /\ Cardinality(Behind(r, i, t)) = Cardinality(Behind(l, i + k, t))
<1>1. /\ l \in Seq(Times) /\ r \in Seq(Times) /\ Len(l) \in Nat /\ Len(r) \in Nat
      /\ DOMAIN l = 1..Len(l) /\ DOMAIN r = 1..Len(r)
      /\ k \in 0..Len(l) /\ Len(r) = Len(l) - k
      /\ \A j \in 1..Len(r) : r[j] = l[j + k]
  BY DEF Suffix
<1>2. i \in 1..Len(r) /\ t < r[i] + Window
  BY <1>1 DEF Counting
<1>3. i + k \in 1..Len(l) /\ i + k \in Counting(l, t)
  BY <1>1, <1>2 DEF Counting
<1> DEFINE C == Behind(l, i + k, t)
           D == {j - k : j \in C}
<1>4. ASSUME NEW j \in Behind(r, i, t) PROVE j \in D
  <2>1. j \in 1..Len(r) /\ i < j /\ r[j] + Window <= t
    BY <1>1, <1>4 DEF Behind
  <2>2. j + k \in 1..Len(l) /\ r[j] = l[j + k] /\ i + k < j + k /\ j = (j + k) - k
    BY <1>1, <1>2, <2>1
  <2>3. j + k \in C
    BY <1>1, <2>1, <2>2 DEF Behind
  <2>4. QED
    BY <2>2, <2>3
<1>5. ASSUME NEW j \in C PROVE j - k \in Behind(r, i, t)
  <2>1. j \in 1..Len(l) /\ l[j] + Window <= t /\ i + k < j
    BY <1>1, <1>5 DEF Behind
  <2>2. j - k \in 1..Len(r) /\ (j - k) + k = j /\ i < j - k
    BY <1>1, <1>2, <2>1
  <2>3. r[j - k] = l[j]
    BY <1>1, <2>2
  <2>4. QED
    BY <1>1, <2>1, <2>2, <2>3 DEF Behind
<1>6. Behind(r, i, t) = D
  BY <1>4, <1>5
<1>7. C \in SUBSET Int /\ IsFiniteSet(C) /\ k \in Int
  <2>1. \A n \in 1..Len(l) :
          IsFiniteSet(Behind(l, n, t)) /\ Behind(l, n, t) \in SUBSET (1..Len(l))
    BY <1>1, LogSets
  <2>2. IsFiniteSet(C) /\ C \in SUBSET (1..Len(l))
    BY <1>3, <2>1
  <2>3. QED
    BY <1>1, <2>2
<1> HIDE DEF C
<1>8. Cardinality(D) = Cardinality(C)
  BY <1>7, ShiftedSet
<1>9. QED
  BY <1>3, <1>6, <1>8 DEF C

-----------------------------------------------------------------------------
(***************************************************************************)
(* The numbers of ForgettingInv: f calls forgotten, c chances, v charges   *)
(* to come and n entries in the log.                                       *)
(***************************************************************************)
Fits(f, c, v, n) ==
    /\ f >= 0
    /\ f > 0 => /\ c <= Others
                /\ n < MaxCalls => f <= Others * (Others - c)
                /\ n >= MaxCalls => f + v + (n - MaxCalls) <= Others * (MaxConcurrent - c)

LEMMA OthersFacts ==
    /\ Others \in Nat /\ MaxConcurrent = Others + 1 /\ MaxConcurrent \in Nat
    /\ MaxCalls \in Nat /\ MaxCalls > 0
  BY GatewayAssumption DEF Others

\* Entries leave that the window does not count.
LEMMA FitsLeave ==
    ASSUME NEW f \in Int, NEW c \in Int, NEW v \in Nat, NEW n \in Nat, NEW k \in 0..n,
           Fits(f, c, v, n)
    PROVE  Fits(f, c - k, v, n - k)
<1>1. k = 0 \/ k >= 1
  OBVIOUS
<1>2. CASE k = 0
  BY <1>2
<1>3. CASE k >= 1
  <2> SUFFICES ASSUME f > 0
               PROVE  /\ c - k <= Others
                      /\ n - k < MaxCalls => f <= Others * (Others - (c - k))
                      /\ n - k >= MaxCalls =>
                           f + v + (n - k - MaxCalls) <= Others * (MaxConcurrent - (c - k))
    BY DEF Fits
  <2>1. c - k <= Others
    BY OthersFacts DEF Fits
  <2> DEFINE before == Others * (Others - c)
             full == Others * (MaxConcurrent - c)
             after == Others * (Others - (c - k))
             fuller == Others * (MaxConcurrent - (c - k))
  <2>2. /\ before \in Int /\ full \in Int /\ after \in Int /\ fuller \in Int
        /\ before <= after /\ full <= after /\ full <= fuller
    BY <1>3, OthersFacts, ScaleUp
  <2>3. /\ n < MaxCalls => f <= before
        /\ n >= MaxCalls => f + v + (n - MaxCalls) <= full
    BY DEF Fits
  <2> HIDE DEF before, full, after, fuller
  <2>4. n - k < MaxCalls => f <= after
    BY <2>2, <2>3, OthersFacts
  <2>5. n - k >= MaxCalls => f + v + (n - k - MaxCalls) <= fuller
    BY <1>3, <2>2, <2>3, OthersFacts
  <2>6. QED
    BY <2>1, <2>4, <2>5 DEF after, fuller
<1>4. QED
  BY <1>1, <1>2, <1>3

\* A call enters the log.
LEMMA FitsEnter ==
    ASSUME NEW f \in Int, NEW c \in Int, NEW v \in 1..MaxConcurrent, NEW n \in Nat,
           Fits(f, c, v, n)
    PROVE  Fits(f, c, v - 1, n + 1)
<1> DEFINE before == Others * (Others - c)
           full == Others * (MaxConcurrent - c)
<1>1. before \in Int /\ full \in Int /\ full = before + Others
  <2>1. MaxConcurrent - c = (Others - c) + 1
    BY OthersFacts
  <2>2. QED
    BY <2>1, OthersFacts, ScaleStep
<1>2. /\ f >= 0
      /\ f > 0 => /\ c <= Others
                  /\ n < MaxCalls => f <= before
                  /\ n >= MaxCalls => f + v + (n - MaxCalls) <= full
  BY DEF Fits
<1> HIDE DEF before, full
<1>3. f > 0 /\ n + 1 < MaxCalls => f <= before
  BY <1>2, OthersFacts
<1>4. f > 0 /\ n + 1 >= MaxCalls => f + (v - 1) + ((n + 1) - MaxCalls) <= full
  BY <1>1, <1>2, OthersFacts
<1>5. QED
  BY <1>2, <1>3, <1>4, Zenon DEF Fits, before, full

\* A log one too long forgets a call that the window counts.
LEMMA FitsForget ==
    ASSUME NEW f \in Int, NEW c \in Int, NEW v \in Nat,
           Fits(f, c, v, MaxCalls + 1), c <= Others, v + 1 <= Others
    PROVE  Fits(f + 1, c, v, MaxCalls)
<1> DEFINE full == Others * (MaxConcurrent - c)
<1>1. full \in Int /\ full >= Others
  <2>1. 1 \in Int /\ MaxConcurrent - c \in Int /\ 1 <= MaxConcurrent - c
    BY OthersFacts
  <2>2. Others * 1 <= Others * (MaxConcurrent - c) /\ Others * (MaxConcurrent - c) \in Int
    BY <2>1, OthersFacts, ScaleUp
  <2>3. Others * 1 = Others
    BY OthersFacts
  <2>4. QED
    BY <2>2, <2>3
<1>2. f > 0 => f + v + (MaxCalls + 1 - MaxCalls) <= full
  BY OthersFacts DEF Fits
<1>3. f >= 0
  BY DEF Fits
<1> HIDE DEF full
<1>4. (f + 1) + v + (MaxCalls - MaxCalls) <= full
  BY <1>1, <1>2, <1>3, OthersFacts
<1>5. f + 1 >= 0 /\ ~(MaxCalls < MaxCalls)
  BY <1>3, OthersFacts
<1>6. QED
  BY <1>4, <1>5 DEF Fits, full

\* What a log within its bounds says of all that the window counts.
LEMMA FitsBound ==
    ASSUME NEW f \in Int, NEW c \in Nat, NEW v \in Nat, NEW n \in Nat, NEW w \in Nat,
           Fits(f, c, v, n), w <= n, n <= MaxCalls, n + v <= MaxCalls + Others
    PROVE  f + w + v <= Most
<1> DEFINE all == Others * MaxConcurrent
           before == Others * (Others - c)
           full == Others * (MaxConcurrent - c)
<1>1. /\ all \in Int /\ before \in Int /\ full \in Int /\ full <= all
      /\ before + Others <= all /\ Others <= all
  <2>1. /\ MaxConcurrent - c <= MaxConcurrent
        /\ Others - c <= Others /\ 1 <= MaxConcurrent
    BY OthersFacts
  <2>2. /\ all \in Int /\ full \in Int /\ full <= all
        /\ before \in Int /\ before <= Others * Others /\ Others * Others \in Int
        /\ Others * 1 <= all
    BY <2>1, OthersFacts, ScaleUp
  <2>3. all = Others * Others + Others /\ Others * 1 = Others
    BY OthersFacts, ScaleStep
  <2>4. QED
    BY <2>2, <2>3, OthersFacts
<1>2. f >= 0 /\ (f > 0 => /\ n < MaxCalls => f <= before
                          /\ n >= MaxCalls => f + v + (n - MaxCalls) <= full)
  BY DEF Fits
<1>3. Most = MaxCalls + all
  BY OthersFacts DEF Most, Others
<1> HIDE DEF all, before, full
<1>4. CASE f = 0
  BY <1>1, <1>3, <1>4, OthersFacts
<1>5. CASE f > 0 /\ n < MaxCalls
  BY <1>1, <1>2, <1>3, <1>5, OthersFacts
<1>6. CASE f > 0 /\ n >= MaxCalls
  BY <1>1, <1>2, <1>3, <1>6, OthersFacts
<1>7. QED
  BY <1>2, <1>4, <1>5, <1>6, OthersFacts

-----------------------------------------------------------------------------
(***************************************************************************)
(* The three ways a log changes keep ForgettingInv.                        *)
(***************************************************************************)
LEMMA ForgettingSplit ==
    ASSUME NEW l \in Seq(Times), NEW t \in Nat,
           NEW charged \in Nat, NEW charging \in Nat, NEW late \in Nat
    PROVE  /\ ForgettingInv(l, charged, charging, late, t) <=>
                /\ \A i \in Counting(l, t) : Cardinality(Behind(l, i, t)) + late <= Others
                /\ Fits(Forgotten(l, charged, t), Chances(l, late, t), charging, Len(l))
           /\ Forgotten(l, charged, t) \in Int /\ Chances(l, late, t) \in Nat
<1>1. /\ Len(l) \in Nat /\ Cardinality(Counting(l, t)) \in Nat
      /\ Cardinality(Counting(l, t)) <= Len(l)
  BY LogSets
<1>2. Forgotten(l, charged, t) \in Int /\ Chances(l, late, t) \in Nat
  BY <1>1 DEF Forgotten, Chances
<1>3. QED
  BY <1>2, Zenon DEF ForgettingInv, Fits

\* Entries the window does not count leave: chances are used up.
LEMMA AgedLeave ==
    ASSUME NEW l, NEW r, NEW k, Suffix(r, l, k), NEW t \in Nat,
           \A i \in 1..k : l[i] + Window <= t,
           NEW charged \in Nat, NEW charging \in Nat, NEW late \in Nat,
           ForgettingInv(l, charged, charging, late, t)
    PROVE  ForgettingInv(r, charged, charging, late, t)
<1>1. /\ l \in Seq(Times) /\ r \in Seq(Times) /\ Len(l) \in Nat /\ Len(r) \in Nat
      /\ k \in 0..Len(l) /\ Len(r) = Len(l) - k
  BY DEF Suffix
<1>2. /\ Counting(l, t) \in SUBSET (1..Len(l))
      /\ \A i \in 1..Len(l) : /\ i \in Counting(l, t) <=> t < l[i] + Window
                              /\ l[i] + Window \in Nat
  BY <1>1, LogSets
<1>3. ASSUME NEW j \in Counting(l, t) PROVE j > k
  <2>1. j \in 1..Len(l) /\ t < l[j] + Window /\ l[j] + Window \in Nat
    BY <1>2
  <2>2. ~(j \in 1..k)
    BY <2>1
  <2>3. QED
    BY <1>1, <2>1, <2>2
<1>4. {j \in Counting(l, t) : j > k} = Counting(l, t)
  BY <1>3
<1>5. Cardinality(Counting(r, t)) = Cardinality(Counting(l, t))
  BY <1>4, SuffixCounting
<1>6. /\ \A i \in Counting(l, t) : Cardinality(Behind(l, i, t)) + late <= Others
      /\ Fits(Forgotten(l, charged, t), Chances(l, late, t), charging, Len(l))
      /\ Forgotten(l, charged, t) \in Int /\ Chances(l, late, t) \in Nat
  BY <1>1, ForgettingSplit
<1>7. \A i \in Counting(r, t) : Cardinality(Behind(r, i, t)) + late <= Others
  BY <1>6, SuffixBehind
<1>8. Fits(Forgotten(l, charged, t), Chances(l, late, t) - k, charging, Len(l) - k)
  BY <1>1, <1>6, FitsLeave
<1>9. /\ Forgotten(r, charged, t) = Forgotten(l, charged, t)
      /\ Chances(r, late, t) = Chances(l, late, t) - k
  <2>1. Cardinality(Counting(l, t)) \in Nat
    BY <1>1, LogSets
  <2>2. QED
    BY <1>1, <1>5, <2>1 DEF Forgotten, Chances
<1>10. QED
  BY <1>1, <1>7, <1>8, <1>9, ForgettingSplit

\* A log one too long forgets its first entry, which the window counts.  All
\* the chances there are were behind it.
LEMMA CountedLeaves ==
    ASSUME NEW l, NEW r, Suffix(r, l, 1), NEW t \in Nat,
           Len(l) = MaxCalls + 1, t < l[1] + Window,
           NEW charged \in Nat, NEW charging \in Nat, NEW late \in Nat,
           charging + 1 <= Others,
           ForgettingInv(l, charged, charging, late, t)
    PROVE  ForgettingInv(r, charged, charging, late, t)
<1>1. /\ l \in Seq(Times) /\ r \in Seq(Times) /\ Len(l) \in Nat /\ Len(r) \in Nat
      /\ Len(r) = MaxCalls /\ MaxCalls \in Nat /\ 1 \in 1..Len(l)
  BY OthersFacts DEF Suffix
<1>2. /\ IsFiniteSet(Counting(l, t)) /\ Counting(l, t) \in SUBSET (1..Len(l))
      /\ Cardinality(Counting(l, t)) \in Nat
      /\ \A i \in 1..Len(l) : /\ i \in Counting(l, t) <=> t < l[i] + Window
                              /\ l[i] + Window \in Nat
      /\ IsFiniteSet(Behind(l, 1, t)) /\ Cardinality(Behind(l, 1, t)) \in Nat
  BY <1>1, LogSets
<1>3. 1 \in Counting(l, t)
  BY <1>1, <1>2
<1>4. Cardinality(Counting(r, t)) = Cardinality(Counting(l, t)) - 1
  <2>1. {j \in Counting(l, t) : j > 1} = Counting(l, t) \ {1}
    BY <1>2
  <2>2. Cardinality(Counting(l, t) \ {1}) = Cardinality(Counting(l, t)) - 1
    BY <1>2, <1>3, FS_RemoveElement
  <2>3. QED
    BY <2>1, <2>2, SuffixCounting
<1>5. Cardinality(Behind(l, 1, t)) = Len(l) - Cardinality(Counting(l, t))
  <2>1. Behind(l, 1, t) = (1..Len(l)) \ Counting(l, t)
    <3>1. ASSUME NEW j \in Behind(l, 1, t) PROVE j \in (1..Len(l)) \ Counting(l, t)
      <4>1. j \in 1..Len(l) /\ l[j] + Window <= t
        BY <1>1, <3>1 DEF Behind
      <4>2. QED
        BY <1>2, <4>1
    <3>2. ASSUME NEW j \in (1..Len(l)) \ Counting(l, t) PROVE j \in Behind(l, 1, t)
      <4>1. j \in DOMAIN l /\ l[j] + Window <= t /\ 1 < j
        BY <1>1, <1>2, <1>3, <3>2
      <4>2. QED
        BY <4>1 DEF Behind
    <3>3. QED
      BY <3>1, <3>2
  <2>2. IsFiniteSet(1..Len(l)) /\ Cardinality(1..Len(l)) = Len(l)
    BY <1>1, FS_Interval
  <2>3. (1..Len(l)) \cap Counting(l, t) = Counting(l, t)
    BY <1>2
  <2>4. QED
    BY <2>1, <2>2, <2>3, FS_Difference
<1>6. /\ \A i \in Counting(l, t) : Cardinality(Behind(l, i, t)) + late <= Others
      /\ Fits(Forgotten(l, charged, t), Chances(l, late, t), charging, Len(l))
      /\ Forgotten(l, charged, t) \in Int /\ Chances(l, late, t) \in Nat
  BY <1>1, ForgettingSplit
<1>7. Chances(l, late, t) <= Others
  BY <1>3, <1>5, <1>6 DEF Chances
<1>8. Fits(Forgotten(l, charged, t) + 1, Chances(l, late, t), charging, MaxCalls)
  <2>1. Fits(Forgotten(l, charged, t), Chances(l, late, t), charging, MaxCalls + 1)
    BY <1>6
  <2>2. QED
    BY <1>6, <1>7, <2>1, FitsForget
<1>9. /\ Forgotten(r, charged, t) = Forgotten(l, charged, t) + 1
      /\ Chances(r, late, t) = Chances(l, late, t)
  <2> DEFINE w == Cardinality(Counting(l, t))
             u == Cardinality(Counting(r, t))
             n == Len(l)
  <2>1. w \in Nat /\ u = w - 1 /\ n = MaxCalls + 1 /\ Len(r) = MaxCalls /\ MaxCalls \in Nat
    BY <1>1, <1>2, <1>4
  <2>2. /\ Forgotten(r, charged, t) = charged - u /\ Forgotten(l, charged, t) = charged - w
        /\ Chances(r, late, t) = Len(r) - u + late /\ Chances(l, late, t) = n - w + late
    BY DEF Forgotten, Chances
  <2> HIDE DEF w, u, n
  <2>3. QED
    BY <2>1, <2>2
<1>10. \A i \in Counting(r, t) : Cardinality(Behind(r, i, t)) + late <= Others
  BY <1>6, SuffixBehind
<1>11. QED
  BY <1>1, <1>8, <1>9, <1>10, ForgettingSplit

LEMMA AppendSets ==
    ASSUME NEW l \in Seq(Times), NEW x \in Times, NEW t \in Nat
    PROVE  LET longer == Append(l, x) IN
           /\ longer \in Seq(Times) /\ Len(longer) = Len(l) + 1
           /\ t < x + Window =>
                /\ Counting(longer, t) = Counting(l, t) \cup {Len(l) + 1}
                /\ \A i \in Counting(l, t) : Behind(longer, i, t) = Behind(l, i, t)
                /\ Behind(longer, Len(l) + 1, t) = {}
           /\ x + Window <= t =>
                /\ Counting(longer, t) = Counting(l, t)
                /\ \A i \in Counting(l, t) :
                     Behind(longer, i, t) = Behind(l, i, t) \cup {Len(l) + 1}
<1> DEFINE longer == Append(l, x)
<1>1. /\ longer \in Seq(Times) /\ Len(longer) = Len(l) + 1 /\ Len(l) \in Nat
      /\ DOMAIN l = 1..Len(l) /\ DOMAIN longer = 1..(Len(l) + 1)
      /\ \A i \in 1..Len(l) : longer[i] = l[i]
      /\ longer[Len(l) + 1] = x
  OBVIOUS
<1>2. /\ Window \in Nat /\ Window > 0 /\ x \in Nat
      /\ \A i \in 1..Len(l) : l[i] \in Nat /\ l[i] + Window \in Nat
  BY GatewayAssumption DEF Times
<1> DEFINE last == Len(l) + 1
<1> HIDE DEF longer
<1>3. /\ 1..last = (1..Len(l)) \cup {last} /\ \A i \in 1..Len(l) : i < last
      /\ last \notin 1..Len(l) /\ last \in Nat
  BY <1>1
<1>4. ASSUME t < x + Window
      PROVE  /\ Counting(longer, t) = Counting(l, t) \cup {last}
             /\ \A i \in Counting(l, t) : Behind(longer, i, t) = Behind(l, i, t)
             /\ Behind(longer, last, t) = {}
  <2>1. ~(x + Window <= t)
    BY <1>2, <1>4
  <2>2. Counting(longer, t) = Counting(l, t) \cup {last}
    BY <1>1, <1>3, <1>4 DEF Counting
  <2>3. ASSUME NEW i \in Counting(l, t) PROVE Behind(longer, i, t) = Behind(l, i, t)
    BY <1>1, <1>3, <2>1 DEF Behind
  <2>4. Behind(longer, last, t) = {}
    BY <1>1, <1>3 DEF Behind
  <2>5. QED
    BY <2>2, <2>3, <2>4
<1>5. ASSUME x + Window <= t
      PROVE  /\ Counting(longer, t) = Counting(l, t)
             /\ \A i \in Counting(l, t) : Behind(longer, i, t) = Behind(l, i, t) \cup {last}
  <2>1. ~(t < x + Window)
    BY <1>2, <1>5
  <2>2. Counting(longer, t) = Counting(l, t)
    BY <1>1, <1>3, <2>1 DEF Counting
  <2>3. ASSUME NEW i \in Counting(l, t)
        PROVE  Behind(longer, i, t) = Behind(l, i, t) \cup {last}
    <3>1. i \in 1..Len(l) /\ i < last
      BY <1>1, <1>3 DEF Counting
    <3>2. QED
      BY <1>1, <1>3, <1>5, <3>1 DEF Behind
  <2>4. QED
    BY <2>2, <2>3
<1>6. QED
  BY <1>1, <1>4, <1>5 DEF longer

\* A call the window counts enters the log.
LEMMA CountedEnters ==
    ASSUME NEW l \in Seq(Times), NEW x \in Times, NEW t \in Nat, t < x + Window,
           NEW charged \in Nat, NEW charging \in 1..MaxConcurrent, NEW late \in 0..Others,
           ForgettingInv(l, charged, charging, late, t)
    PROVE  ForgettingInv(Append(l, x), charged + 1, charging - 1, late, t)
<1> DEFINE longer == Append(l, x)
           last == Len(l) + 1
<1>1. /\ longer \in Seq(Times) /\ Len(longer) = last
      /\ Counting(longer, t) = Counting(l, t) \cup {last}
      /\ \A i \in Counting(l, t) : Behind(longer, i, t) = Behind(l, i, t)
      /\ Behind(longer, last, t) = {}
  BY AppendSets
<1>2. /\ Len(l) \in Nat /\ last \in Nat /\ charging \in Nat /\ late \in Nat /\ Others \in Nat
      /\ charging - 1 \in Nat /\ charged + 1 \in Nat
  BY OthersFacts
<1>3. /\ Counting(l, t) \in SUBSET (1..Len(l)) /\ IsFiniteSet(Counting(l, t))
      /\ Cardinality(Counting(l, t)) \in Nat
  BY LogSets
<1>4. /\ \A i \in Counting(l, t) : Cardinality(Behind(l, i, t)) + late <= Others
      /\ Fits(Forgotten(l, charged, t), Chances(l, late, t), charging, Len(l))
      /\ Forgotten(l, charged, t) \in Int /\ Chances(l, late, t) \in Nat
  BY <1>2, ForgettingSplit
<1>5. Cardinality(Counting(longer, t)) = Cardinality(Counting(l, t)) + 1
  <2>1. last \notin Counting(l, t)
    BY <1>2, <1>3
  <2>2. QED
    BY <1>1, <1>3, <2>1, FS_AddElement
<1>6. /\ Forgotten(longer, charged + 1, t) = Forgotten(l, charged, t)
      /\ Chances(longer, late, t) = Chances(l, late, t)
  <2> DEFINE w == Cardinality(Counting(l, t))
             u == Cardinality(Counting(longer, t))
             n == Len(l)
  <2>1. w \in Nat /\ u = w + 1 /\ n \in Nat /\ Len(longer) = n + 1
    BY <1>1, <1>2, <1>3, <1>5
  <2>2. /\ Forgotten(longer, charged + 1, t) = (charged + 1) - u
        /\ Forgotten(l, charged, t) = charged - w
        /\ Chances(longer, late, t) = Len(longer) - u + late
        /\ Chances(l, late, t) = n - w + late
    BY DEF Forgotten, Chances
  <2> HIDE DEF w, u, n, longer
  <2>3. QED
    BY <1>2, <2>1, <2>2
<1>7. ASSUME NEW i \in Counting(longer, t)
      PROVE  Cardinality(Behind(longer, i, t)) + late <= Others
  <2>1. CASE i \in Counting(l, t)
    BY <1>1, <1>4, <2>1
  <2>2. CASE i = last
    <3>1. Cardinality(Behind(longer, i, t)) = 0
      BY <1>1, <2>2, FS_EmptySet
    <3>2. QED
      BY <1>2, <3>1
  <2>3. QED
    BY <1>1, <1>7, <2>1, <2>2
<1>8. Fits(Forgotten(l, charged, t), Chances(l, late, t), charging - 1, Len(l) + 1)
  BY <1>2, <1>4, FitsEnter
<1> HIDE DEF longer
<1>9. ForgettingInv(longer, charged + 1, charging - 1, late, t)
  BY <1>1, <1>2, <1>6, <1>7, <1>8, ForgettingSplit
<1>10. QED
  BY <1>9 DEF longer

\* A call the window does not count enters the log: a chance that was to come.
LEMMA AgedEnters ==
    ASSUME NEW l \in Seq(Times), NEW x \in Times, NEW t \in Nat, x + Window <= t,
           NEW charged \in Nat, NEW charging \in 1..MaxConcurrent, NEW late \in Nat \ {0},
           ForgettingInv(l, charged, charging, late, t)
    PROVE  ForgettingInv(Append(l, x), charged, charging - 1, late - 1, t)
<1> DEFINE longer == Append(l, x)
           last == Len(l) + 1
<1>1. /\ longer \in Seq(Times) /\ Len(longer) = last
      /\ Counting(longer, t) = Counting(l, t)
      /\ \A i \in Counting(l, t) : Behind(longer, i, t) = Behind(l, i, t) \cup {last}
  BY AppendSets
<1>2. /\ Len(l) \in Nat /\ last \in Nat /\ charging \in Nat /\ late \in Nat /\ Others \in Nat
      /\ charging - 1 \in Nat /\ late - 1 \in Nat
  BY OthersFacts
<1>3. /\ Counting(l, t) \in SUBSET (1..Len(l)) /\ Cardinality(Counting(l, t)) \in Nat
      /\ \A i \in 1..Len(l) : /\ IsFiniteSet(Behind(l, i, t))
                              /\ Behind(l, i, t) \in SUBSET (1..Len(l))
                              /\ Cardinality(Behind(l, i, t)) \in Nat
  BY LogSets
<1>4. /\ \A i \in Counting(l, t) : Cardinality(Behind(l, i, t)) + late <= Others
      /\ Fits(Forgotten(l, charged, t), Chances(l, late, t), charging, Len(l))
      /\ Forgotten(l, charged, t) \in Int /\ Chances(l, late, t) \in Nat
  BY <1>2, ForgettingSplit
<1>5. /\ Forgotten(longer, charged, t) = Forgotten(l, charged, t)
      /\ Chances(longer, late - 1, t) = Chances(l, late, t)
  <2> DEFINE w == Cardinality(Counting(l, t))
             n == Len(l)
  <2>1. w \in Nat /\ n \in Nat /\ Len(longer) = n + 1
    BY <1>1, <1>2, <1>3
  <2>2. /\ Forgotten(longer, charged, t) = charged - w
        /\ Forgotten(l, charged, t) = charged - w
        /\ Chances(longer, late - 1, t) = Len(longer) - w + (late - 1)
        /\ Chances(l, late, t) = n - w + late
    BY <1>1 DEF Forgotten, Chances
  <2> HIDE DEF w, n, longer
  <2>3. QED
    BY <1>2, <2>1, <2>2
<1>6. ASSUME NEW i \in Counting(longer, t)
      PROVE  Cardinality(Behind(longer, i, t)) + (late - 1) <= Others
  <2> DEFINE B == Behind(l, i, t)
  <2>1. i \in Counting(l, t) /\ i \in 1..Len(l)
    BY <1>1, <1>3, <1>6
  <2>2. /\ Behind(longer, i, t) = B \cup {last} /\ IsFiniteSet(B) /\ Cardinality(B) \in Nat
        /\ B \in SUBSET (1..Len(l)) /\ Cardinality(B) + late <= Others
    BY <1>1, <1>3, <1>4, <2>1
  <2> HIDE DEF B
  <2>3. last \notin B
    BY <1>2, <2>2
  <2>4. Cardinality(B \cup {last}) = Cardinality(B) + 1
    BY <2>2, <2>3, FS_AddElement
  <2> HIDE DEF longer, last
  <2>5. QED
    BY <1>2, <2>2, <2>4
<1>7. Fits(Forgotten(l, charged, t), Chances(l, late, t), charging - 1, Len(l) + 1)
  BY <1>2, <1>4, FitsEnter
<1> HIDE DEF longer
<1>8. ForgettingInv(longer, charged, charging - 1, late - 1, t)
  BY <1>1, <1>2, <1>5, <1>6, <1>7, ForgettingSplit
<1>9. QED
  BY <1>8 DEF longer

-----------------------------------------------------------------------------
(***************************************************************************)
(* record: what has aged leaves, the call enters, and one entry may have   *)
(* to go.                                                                  *)
(***************************************************************************)
LEMMA RecordShape ==
    ASSUME NEW l \in Seq(Times), Len(l) <= MaxCalls, NEW s \in Times
    PROVE  \E live \in Seq(Times), k \in 0..Len(l) :
             /\ Suffix(live, l, k) /\ \A i \in 1..k : l[i] + Window <= s
             /\ \/ Record(l, s) = Append(live, s) /\ Len(live) < MaxCalls
                \/ /\ Suffix(Record(l, s), Append(live, s), 1)
                   /\ Len(live) = MaxCalls /\ k = 0
<1> DEFINE live == Live(l, s)
           longer == Append(live, s)
<1>1. PICK k \in 0..Len(l) : Suffix(live, l, k) /\ \A i \in 1..k : l[i] + Window <= s
  BY LiveSuffix
<1>2. /\ live \in Seq(Times) /\ Len(l) \in Nat /\ Len(live) \in Nat /\ MaxCalls \in Nat
      /\ Len(live) = Len(l) - k
  BY <1>1, OthersFacts DEF Suffix
<1> HIDE DEF live
<1>3. longer \in Seq(Times) /\ Len(longer) = Len(live) + 1
  BY <1>2
<1>4. Record(l, s) = Trim(longer)
  BY DEF Record, live
<1> HIDE DEF longer
<1>5. CASE Len(live) < MaxCalls
  <2>1. ~(Len(longer) > MaxCalls)
    BY <1>2, <1>3, <1>5
  <2>2. Record(l, s) = longer
    BY <1>4, <2>1 DEF Trim
  <2>3. QED
    BY <1>1, <1>2, <1>5, <2>2 DEF longer
<1>6. CASE ~(Len(live) < MaxCalls)
  <2>1. Len(live) = MaxCalls /\ k = 0 /\ Len(longer) = MaxCalls + 1
    BY <1>2, <1>3, <1>6
  <2>2. Len(longer) > MaxCalls /\ Len(longer) - MaxCalls + 1 = 2
    BY <1>2, <2>1
  <2>3. Record(l, s) = SubSeq(longer, 2, Len(longer))
    BY <1>4, <2>2 DEF Trim
  <2>4. Suffix(SubSeq(longer, 2, Len(longer)), longer, 1)
    <3>1. \A i \in 2..Len(longer) : longer[i] \in Times
      BY <1>2, <1>3, <2>1
    <3> DEFINE n == Len(longer)
    <3>2. n \in Nat /\ 2 <= n
      BY <1>2, <2>1, OthersFacts
    <3>3. /\ SubSeq(longer, 2, n) \in Seq(Times)
          /\ Len(SubSeq(longer, 2, n)) = n - 2 + 1
          /\ \A i \in 1..(n - 2 + 1) : SubSeq(longer, 2, n)[i] = longer[2 + i - 1]
      BY <3>1, <3>2, SubSeqProperties
    <3>4. \A i \in 1..(n - 2 + 1) : 2 + i - 1 = i + 1
      OBVIOUS
    <3>5. QED
      BY <1>3, <3>2, <3>3, <3>4 DEF Suffix
  <2>5. QED
    BY <1>1, <1>2, <2>1, <2>3, <2>4 DEF longer
<1>7. QED
  BY <1>5, <1>6

\* What recording leaves is no newer and no longer than it should be.
LEMMA RecordKeepsPace ==
    ASSUME NEW l \in Seq(Times), Len(l) <= MaxCalls, NEW s \in Times, NEW v \in Nat \ {0},
           Len(l) + v <= MaxCalls + Others,
           NEW time \in Nat, s <= time, \A i \in DOMAIN l : l[i] <= time
    PROVE  /\ Len(Record(l, s)) + (v - 1) <= MaxCalls + Others
           /\ \A i \in DOMAIN Record(l, s) : Record(l, s)[i] <= time
<1>1. PICK live \in Seq(Times), k \in 0..Len(l) :
        /\ Suffix(live, l, k)
        /\ \/ Record(l, s) = Append(live, s) /\ Len(live) < MaxCalls
           \/ Suffix(Record(l, s), Append(live, s), 1) /\ Len(live) = MaxCalls /\ k = 0
  BY RecordShape
<1>2. /\ Len(l) \in Nat /\ Len(live) \in Nat /\ Len(live) = Len(l) - k
      /\ \A i \in 1..Len(live) : live[i] = l[i + k]
      /\ DOMAIN l = 1..Len(l)
  BY <1>1 DEF Suffix
<1>3. ASSUME NEW i \in 1..Len(live) PROVE live[i] <= time
  <2>1. i + k \in 1..Len(l)
    BY <1>2
  <2>2. QED
    BY <1>2, <2>1
<1> DEFINE longer == Append(live, s)
<1>4. /\ Len(longer) = Len(live) + 1 /\ DOMAIN longer = 1..Len(longer)
      /\ \A i \in 1..Len(longer) : longer[i] <= time
  <2>1. /\ Len(longer) = Len(live) + 1 /\ DOMAIN longer = 1..Len(longer)
        /\ \A i \in 1..Len(live) : longer[i] = live[i]
        /\ longer[Len(live) + 1] = s
    OBVIOUS
  <2>2. QED
    BY <1>2, <1>3, <2>1
<1> HIDE DEF longer
<1>5. CASE Record(l, s) = longer
  BY <1>2, <1>4, <1>5, OthersFacts
<1>6. CASE Suffix(Record(l, s), longer, 1)
  <2>1. /\ Record(l, s) \in Seq(Times) /\ Len(Record(l, s)) = Len(longer) - 1
        /\ \A i \in 1..Len(Record(l, s)) : Record(l, s)[i] = longer[i + 1]
        /\ DOMAIN Record(l, s) = 1..Len(Record(l, s))
    BY <1>6 DEF Suffix
  <2>2. \A i \in 1..Len(Record(l, s)) : i + 1 \in 1..Len(longer)
    BY <1>2, <1>4, <2>1
  <2>3. \A i \in DOMAIN Record(l, s) : Record(l, s)[i] <= time
    BY <1>4, <2>1, <2>2
  <2> DEFINE n == Len(Record(l, s))
             m == Len(l)
  <2>4. n = Len(live) /\ n \in Nat /\ Len(live) = m - k /\ m \in Nat
    BY <1>2, <1>4, <2>1
  <2>5. m + v <= MaxCalls + Others
    OBVIOUS
  <2> HIDE DEF n, m
  <2>6. n + (v - 1) <= MaxCalls + Others
    BY <2>4, <2>5, OthersFacts
  <2>7. QED
    BY <2>3, <2>6 DEF n
<1>7. QED
  BY <1>1, <1>5, <1>6 DEF longer

LEMMA RecordCounted ==
    ASSUME NEW l \in Seq(Times), Len(l) <= MaxCalls, NEW s \in Times, NEW t \in Nat,
           s <= t, t < s + Window,
           NEW charged \in Nat, NEW charging \in 1..MaxConcurrent, NEW late \in 0..Others,
           Len(l) + charging <= MaxCalls + Others,
           ForgettingInv(l, charged, charging, late, t)
    PROVE  ForgettingInv(Record(l, s), charged + 1, charging - 1, late, t)
<1>1. PICK live \in Seq(Times), k \in 0..Len(l) :
        /\ Suffix(live, l, k) /\ \A i \in 1..k : l[i] + Window <= s
        /\ \/ Record(l, s) = Append(live, s) /\ Len(live) < MaxCalls
           \/ Suffix(Record(l, s), Append(live, s), 1) /\ Len(live) = MaxCalls /\ k = 0
  BY RecordShape
<1>2. /\ Len(l) \in Nat /\ Len(live) \in Nat /\ Len(live) = Len(l) - k
      /\ charging \in Nat /\ late \in Nat /\ charging - 1 \in Nat /\ charged + 1 \in Nat
      /\ Others \in Nat /\ MaxCalls \in Nat
  BY <1>1, OthersFacts DEF Suffix
<1>3. \A i \in 1..k : l[i] + Window <= t
  <2>1. \A i \in 1..k : l[i] + Window \in Nat /\ l[i] + Window <= s
    <3>1. \A i \in 1..k : i \in 1..Len(l)
      BY <1>2
    <3>2. QED
      BY <1>1, <3>1, LogSets
  <2>2. QED
    BY <2>1 DEF Times
<1>4. ForgettingInv(live, charged, charging, late, t)
  BY <1>1, <1>2, <1>3, AgedLeave
<1> DEFINE longer == Append(live, s)
<1>5. /\ longer \in Seq(Times) /\ Len(longer) = Len(live) + 1
      /\ ForgettingInv(longer, charged + 1, charging - 1, late, t)
  BY <1>4, CountedEnters
<1> HIDE DEF longer
<1>6. CASE Record(l, s) = longer
  BY <1>5, <1>6
<1>7. CASE Suffix(Record(l, s), longer, 1) /\ Len(live) = MaxCalls /\ k = 0
  <2>1. Len(longer) = MaxCalls + 1 /\ (charging - 1) + 1 <= Others
    BY <1>2, <1>5, <1>7
  <2>2. 1 \in 1..Len(longer) /\ longer[1] + Window \in Nat
    <3>1. 1 \in 1..Len(longer)
      BY <1>2, <2>1
    <3>2. \A i \in 1..Len(longer) : longer[i] + Window \in Nat
      BY <1>5, LogSets
    <3>3. QED
      BY <3>1, <3>2
  <2>3. CASE t < longer[1] + Window
    BY <1>2, <1>5, <1>7, <2>1, <2>3, CountedLeaves
  <2>4. CASE longer[1] + Window <= t
    <3>1. \A i \in 1..1 : longer[i] + Window <= t
      BY <2>4
    <3>2. QED
      BY <1>2, <1>5, <1>7, <3>1, AgedLeave
  <2>5. QED
    BY <2>2, <2>3, <2>4
<1>8. QED
  BY <1>1, <1>6, <1>7 DEF longer

LEMMA RecordAged ==
    ASSUME NEW l \in Seq(Times), Len(l) <= MaxCalls, NEW s \in Times, NEW t \in Nat,
           s <= t, s + Window <= t,
           NEW charged \in Nat, NEW charging \in 1..MaxConcurrent, NEW late \in Nat \ {0},
           Len(l) + charging <= MaxCalls + Others,
           ForgettingInv(l, charged, charging, late, t)
    PROVE  ForgettingInv(Record(l, s), charged, charging - 1, late - 1, t)
<1>1. PICK live \in Seq(Times), k \in 0..Len(l) :
        /\ Suffix(live, l, k) /\ \A i \in 1..k : l[i] + Window <= s
        /\ \/ Record(l, s) = Append(live, s) /\ Len(live) < MaxCalls
           \/ Suffix(Record(l, s), Append(live, s), 1) /\ Len(live) = MaxCalls /\ k = 0
  BY RecordShape
<1>2. /\ Len(l) \in Nat /\ Len(live) \in Nat /\ Len(live) = Len(l) - k
      /\ charging \in Nat /\ late \in Nat /\ charging - 1 \in Nat /\ late - 1 \in Nat
      /\ Others \in Nat /\ MaxCalls \in Nat
  BY <1>1, OthersFacts DEF Suffix
<1>3. \A i \in 1..k : l[i] + Window <= t
  <2>1. \A i \in 1..k : l[i] + Window \in Nat /\ l[i] + Window <= s
    <3>1. \A i \in 1..k : i \in 1..Len(l)
      BY <1>2
    <3>2. QED
      BY <1>1, <3>1, LogSets
  <2>2. QED
    BY <2>1 DEF Times
<1>4. ForgettingInv(live, charged, charging, late, t)
  BY <1>1, <1>2, <1>3, AgedLeave
<1> DEFINE longer == Append(live, s)
<1>5. /\ longer \in Seq(Times) /\ Len(longer) = Len(live) + 1
      /\ ForgettingInv(longer, charged, charging - 1, late - 1, t)
  BY <1>4, AgedEnters
<1> HIDE DEF longer
<1>6. CASE Record(l, s) = longer
  BY <1>5, <1>6
<1>7. CASE Suffix(Record(l, s), longer, 1) /\ Len(live) = MaxCalls /\ k = 0
  <2>1. Len(longer) = MaxCalls + 1 /\ (charging - 1) + 1 <= Others
    BY <1>2, <1>5, <1>7
  <2>2. 1 \in 1..Len(longer) /\ longer[1] + Window \in Nat
    <3>1. 1 \in 1..Len(longer)
      BY <1>2, <2>1
    <3>2. \A i \in 1..Len(longer) : longer[i] + Window \in Nat
      BY <1>5, LogSets
    <3>3. QED
      BY <3>1, <3>2
  <2>3. CASE t < longer[1] + Window
    BY <1>2, <1>5, <1>7, <2>1, <2>3, CountedLeaves
  <2>4. CASE longer[1] + Window <= t
    <3>1. \A i \in 1..1 : longer[i] + Window <= t
      BY <2>4
    <3>2. QED
      BY <1>2, <1>5, <1>7, <3>1, AgedLeave
  <2>5. QED
    BY <2>2, <2>3, <2>4
<1>8. QED
  BY <1>1, <1>6, <1>7 DEF longer

-----------------------------------------------------------------------------
(***************************************************************************)
(* The calls a window counts, and those on their way.                      *)
(***************************************************************************)
LEMMA PaceFacts ==
    ASSUME GatewayInv, PaceInv, NEW t \in 0..MaxTime
    PROVE  /\ IsFiniteSet(Active) /\ Cardinality(Active) \in Nat
           /\ IsFiniteSet(Charging) /\ Charging \subseteq Active
           /\ Cardinality(Charging) \in Nat /\ Cardinality(Charging) <= MaxConcurrent
           /\ IsFiniteSet(Late(t)) /\ Late(t) \subseteq Charging /\ Cardinality(Late(t)) \in Nat
           /\ IsFiniteSet(ChargedIn(t)) /\ Cardinality(ChargedIn(t)) \in Nat
           /\ IsFiniteSet(Committed(t)) /\ Cardinality(Committed(t)) \in Nat
<1> DEFINE begun == {c \in Calls : pc[c] # "new"}
<1>1. IsFiniteSet(begun) /\ Cardinality(Active) <= MaxConcurrent
  BY DEF PaceInv
<1>2. Charging \subseteq Active /\ Late(t) \subseteq Charging /\ Active \subseteq begun
  BY DEF Charging, Late, Active, Ended
<1>3. ASSUME NEW c \in Calls, countedAt[c] # Never PROVE c \in begun
  BY <1>3 DEF GatewayInv, UnchargedInv, Uncharged
<1>4. ChargedIn(t) \subseteq begun
  BY <1>3 DEF ChargedIn
<1>5. Committed(t) \subseteq begun
  BY <1>4 DEF Committed
<1> HIDE DEF begun
<1>6. /\ IsFiniteSet(Active) /\ IsFiniteSet(Charging) /\ IsFiniteSet(Late(t))
      /\ IsFiniteSet(ChargedIn(t)) /\ IsFiniteSet(Committed(t))
  BY <1>1, <1>2, <1>4, <1>5, FS_Subset
<1>7. Cardinality(Charging) <= Cardinality(Active)
  BY <1>2, <1>6, FS_Subset
<1>8. /\ Cardinality(Active) \in Nat /\ Cardinality(Charging) \in Nat
      /\ Cardinality(Late(t)) \in Nat /\ Cardinality(ChargedIn(t)) \in Nat
      /\ Cardinality(Committed(t)) \in Nat
  BY <1>6, FS_CardinalityType
<1>9. Cardinality(Charging) <= MaxConcurrent
  BY <1>1, <1>7, <1>8, OthersFacts
<1>10. QED
  BY <1>2, <1>6, <1>8, <1>9

LEMMA TypesOfCalls ==
    ASSUME GatewayInv
    PROVE  /\ now \in Times /\ now \in Nat /\ log \in Seq(Times) /\ Len(log) <= MaxCalls
           /\ Len(log) \in Nat /\ MaxTime \in Nat
           /\ pc \in [Calls -> Places] /\ stamp \in [Calls -> Times]
           /\ countedAt \in [Calls -> Times \cup {Never}]
           /\ \A c \in Calls : /\ stamp[c] \in Nat /\ stamp[c] \in Times
                               /\ countedAt[c] # Never => countedAt[c] \in Nat
           /\ Window \in Nat /\ Window > 0
  BY GatewayAssumption DEF GatewayInv, TypeOK, Times

\* A window no call has come near holds none.
LEMMA NothingYet ==
    ASSUME GatewayInv, PaceInv, NEW t \in now..MaxTime, now + Window <= t
    PROVE  ChargedIn(t) = {} /\ Counting(log, t) = {}
<1>1. ASSUME NEW c \in Calls, countedAt[c] # Never PROVE ~(t < countedAt[c] + Window)
  <2>1. countedAt[c] <= now /\ countedAt[c] \in Nat
    BY <1>1, TypesOfCalls DEF PaceInv
  <2>2. QED
    BY <2>1, TypesOfCalls
<1>2. ASSUME NEW i \in DOMAIN log PROVE ~(t < log[i] + Window)
  <2>1. log[i] <= now /\ log[i] \in Nat
    BY TypesOfCalls DEF PaceInv, Times
  <2>2. QED
    BY <2>1, TypesOfCalls
<1>3. QED
  BY <1>1, <1>2 DEF ChargedIn, Counting

-----------------------------------------------------------------------------
(***************************************************************************)
(* Every step keeps the pace.                                              *)
(***************************************************************************)
LEMMA InitPace == Init => PaceInv
<1> SUFFICES ASSUME Init PROVE PaceInv
  OBVIOUS
<1>1. /\ now = 0 /\ log = <<>> /\ \A c \in Calls : pc[c] = "new" /\ stamp[c] = 0
      /\ \A c \in Calls : countedAt[c] = Never
  BY DEF Init
<1>2. /\ {c \in Calls : pc[c] # "new"} = {} /\ Active = {} /\ Charging = {}
      /\ \A t \in 0..MaxTime : Late(t) = {} /\ ChargedIn(t) = {}
  BY <1>1 DEF Active, Charging, Late, ChargedIn
<1>3. /\ IsFiniteSet({c \in Calls : pc[c] # "new"}) /\ Cardinality(Active) <= MaxConcurrent
      /\ Len(log) + Cardinality(Charging) <= MaxCalls + Others
  <2>1. Len(log) = 0
    BY <1>1
  <2>2. QED
    BY <1>2, <2>1, FS_EmptySet, OthersFacts
<1>4. \A c \in Calls : stamp[c] <= now /\ (countedAt[c] # Never => countedAt[c] <= now)
  BY <1>1
<1>5. \A i \in DOMAIN log : log[i] <= now
  BY <1>1
<1>6. ASSUME NEW t \in now..MaxTime PROVE OpenInv(t)
  <2>1. t \in 0..MaxTime
    BY <1>1
  <2>2. Counting(log, t) = {}
    BY <1>1 DEF Counting
  <2>3. Forgotten(log, Cardinality(ChargedIn(t)), t) = 0
    BY <1>2, <2>1, <2>2, FS_EmptySet DEF Forgotten
  <2>4. QED
    BY <2>2, <2>3 DEF OpenInv, ForgettingInv
<1>7. \A t \in 0..MaxTime : ~(t < now)
  BY <1>1
<1>8. QED
  BY <1>3, <1>4, <1>5, <1>6, <1>7 DEF PaceInv

\* The state of one window as the next step will find it.
LEMMA OpenNext ==
    ASSUME NEW t \in Nat,
           ForgettingInv(log', Cardinality(ChargedIn(t)'), Cardinality(Charging'),
                         Cardinality(Late(t)'), t)
    PROVE  OpenInv(t)'
  BY DEF OpenInv

\* A step that touches neither log nor charges, and leaves the calls on their
\* way where they are.
LEMMA QuietPace ==
    ASSUME GatewayInv, PaceInv, UNCHANGED <<now, log, countedAt>>,
           \A c \in Calls :
             /\ pc'[c] = "cleared" <=> pc[c] = "cleared"
             /\ pc'[c] = "recording" <=> pc[c] = "recording"
             /\ pc[c] = "recording" => stamp'[c] = stamp[c]
             /\ stamp'[c] <= now,
           IsFiniteSet({c \in Calls : pc[c] # "new"})', Cardinality(Active') <= MaxConcurrent
    PROVE  PaceInv'
<1>1. Charging' = Charging
  BY DEF Charging
<1>2. ASSUME NEW t \in 0..MaxTime
      PROVE  Late(t)' = Late(t) /\ ChargedIn(t)' = ChargedIn(t) /\ Committed(t)' = Committed(t)
  <2>1. Late(t)' = Late(t)
    BY DEF Late
  <2>2. ChargedIn(t)' = ChargedIn(t)
    BY DEF ChargedIn
  <2>3. Committed(t)' = Committed(t)
    BY <2>2 DEF Committed
  <2>4. QED
    BY <2>1, <2>2, <2>3
<1>3. ASSUME NEW t \in now'..MaxTime PROVE OpenInv(t)'
  <2>1. t \in now..MaxTime /\ t \in 0..MaxTime /\ t \in Nat
    BY TypesOfCalls
  <2>2. OpenInv(t)
    BY <2>1 DEF PaceInv
  <2>3. QED
    BY <1>1, <1>2, <2>1, <2>2, OpenNext DEF OpenInv
<1>4. \A t \in 0..MaxTime : t < now' => Cardinality(Committed(t)') <= Most
  BY <1>2 DEF PaceInv
<1>5. \A c \in Calls : stamp'[c] <= now' /\ (countedAt'[c] # Never => countedAt'[c] <= now')
  BY DEF PaceInv
<1>6. \A i \in DOMAIN log' : log'[i] <= now'
  BY DEF PaceInv
<1>7. Len(log') + Cardinality(Charging') <= MaxCalls + Others
  BY <1>1 DEF PaceInv
<1>8. QED
  BY <1>3, <1>4, <1>5, <1>6, <1>7 DEF PaceInv

\* A call that has begun stays one of at most MaxConcurrent.
LEMMA ActiveKept ==
    ASSUME GatewayInv, PaceInv, NEW c \in Calls, c \in Active, NEW x \in Places \ {"new"},
           pc' = [pc EXCEPT ![c] = x]
    PROVE  /\ IsFiniteSet({d \in Calls : pc[d] # "new"})'
           /\ IsFiniteSet(Active') /\ Cardinality(Active') <= MaxConcurrent
<1>1. pc \in [Calls -> Places] /\ pc[c] # "new"
  BY TypesOfCalls DEF Active
<1>2. {d \in Calls : pc'[d] # "new"} = {d \in Calls : pc[d] # "new"}
  BY <1>1
<1>3. Active' \subseteq Active
  BY <1>1 DEF Active, Ended
<1>4. IsFiniteSet(Active)
  <2>1. Active \subseteq {d \in Calls : pc[d] # "new"}
    BY DEF Active
  <2>2. QED
    BY <2>1, FS_Subset DEF PaceInv
<1>5. IsFiniteSet(Active') /\ Cardinality(Active') <= Cardinality(Active)
  BY <1>3, <1>4, FS_Subset
<1>6. Cardinality(Active) \in Nat /\ Cardinality(Active') \in Nat
  BY <1>4, <1>5, FS_CardinalityType
<1>7. Cardinality(Active) <= MaxConcurrent /\ IsFiniteSet({d \in Calls : pc[d] # "new"})
  BY DEF PaceInv
<1>8. IsFiniteSet({d \in Calls : pc'[d] # "new"})
  BY <1>2, <1>7
<1>9. Cardinality(Active') <= MaxConcurrent
  BY <1>5, <1>6, <1>7, OthersFacts
<1>10. QED
  BY <1>5, <1>8, <1>9

LEMMA BeginPace ==
    ASSUME GatewayInv, PaceInv, NEW c \in Calls, Begin(c)
    PROVE  PaceInv'
<1>1. /\ pc[c] = "new" /\ Cardinality(Active) < MaxConcurrent
      /\ UNCHANGED <<now, log, countedAt>>
  BY DEF Begin, limitVars
<1>2. /\ \/ pc' = [pc EXCEPT ![c] = "over"] /\ stamp' = stamp
         \/ pc' = [pc EXCEPT ![c] = "checking"] /\ stamp' = [stamp EXCEPT ![c] = now]
  BY DEF Begin, RefuseEarly, ReachBudget, Conclude
<1>3. pc \in [Calls -> Places] /\ stamp \in [Calls -> Times] /\ now \in Nat
  BY TypesOfCalls
<1>4. \A d \in Calls : /\ pc'[d] = "cleared" <=> pc[d] = "cleared"
                       /\ pc'[d] = "recording" <=> pc[d] = "recording"
                       /\ pc[d] = "recording" => stamp'[d] = stamp[d]
                       /\ stamp'[d] <= now
  BY <1>1, <1>2, <1>3 DEF PaceInv
<1> DEFINE begun == {d \in Calls : pc[d] # "new"}
<1>5. IsFiniteSet(begun')
  <2>1. IsFiniteSet(begun \cup {c})
    BY FS_AddElement DEF PaceInv
  <2>2. begun' \subseteq begun \cup {c}
    BY <1>2, <1>3
  <2>3. QED
    BY <2>1, <2>2, FS_Subset
<1>6. Cardinality(Active') <= MaxConcurrent
  <2>1. IsFiniteSet(Active) /\ Cardinality(Active) \in Nat
    <3>1. Active \subseteq begun
      BY DEF Active
    <3>2. QED
      BY <3>1, FS_Subset, FS_CardinalityType DEF PaceInv
  <2>2. Active' \subseteq Active \cup {c}
    BY <1>2, <1>3 DEF Active, Ended
  <2>3. /\ IsFiniteSet(Active \cup {c})
        /\ Cardinality(Active \cup {c}) <= Cardinality(Active) + 1
    BY <2>1, FS_AddElement
  <2>4. IsFiniteSet(Active') /\ Cardinality(Active') <= Cardinality(Active \cup {c})
    BY <2>2, <2>3, FS_Subset
  <2>5. Cardinality(Active') \in Nat /\ Cardinality(Active \cup {c}) \in Nat
    BY <2>3, <2>4, FS_CardinalityType
  <2>6. QED
    BY <1>1, <2>1, <2>3, <2>4, <2>5, OthersFacts
<1>7. QED
  BY <1>1, <1>4, <1>5, <1>6, QuietPace

\* Steps of an attempt and of its handler, and the ends of calls.
LEMMA AttemptPace ==
    ASSUME GatewayInv, PaceInv, NEW c \in Calls,
           StartHandler(c) \/ HandlerEnds(c) \/ GiveUp(c) \/ Retry(c) \/ Return(c) \/ Escape(c)
    PROVE  PaceInv'
<1>1. /\ pc[c] \in {"attempting", "waiting"} /\ UNCHANGED <<now, log, countedAt, stamp>>
      /\ \/ pc' = pc
         \/ \E x \in {"waiting", "attempting", "over", "raised"} : pc' = [pc EXCEPT ![c] = x]
  BY DEF StartHandler, HandlerEnds, GiveUp, Retry, Return, Escape, AttemptEnded, Overdue,
         Conclude, limitVars, callVars, GatewayInv, AttemptInv
<1>2. pc \in [Calls -> Places]
  BY TypesOfCalls
<1>3. \A d \in Calls : /\ pc'[d] = "cleared" <=> pc[d] = "cleared"
                       /\ pc'[d] = "recording" <=> pc[d] = "recording"
                       /\ pc[d] = "recording" => stamp'[d] = stamp[d]
                       /\ stamp'[d] <= now
  BY <1>1, <1>2 DEF PaceInv
<1>4. /\ IsFiniteSet({d \in Calls : pc[d] # "new"})'
      /\ Cardinality(Active') <= MaxConcurrent
  <2>1. CASE pc' = pc
    BY <2>1 DEF PaceInv, Active, Ended
  <2>2. CASE \E x \in {"waiting", "attempting", "over", "raised"} : pc' = [pc EXCEPT ![c] = x]
    <3>1. PICK x \in {"waiting", "attempting", "over", "raised"} : pc' = [pc EXCEPT ![c] = x]
      BY <2>2
    <3>2. c \in Active /\ x \in Places \ {"new"}
      BY <1>1 DEF Active, Ended, Places
    <3>3. QED
      BY <3>1, <3>2, ActiveKept
  <2>3. QED
    BY <1>1, <2>1, <2>2
<1>5. QED
  BY <1>1, <1>3, <1>4, QuietPace

\* What clearing the log of aged entries leaves.
LEMMA LivePace ==
    ASSUME GatewayInv, PaceInv, NEW c \in Calls
    PROVE  LET live == Live(log, stamp[c]) IN
           /\ live \in Seq(Times) /\ Len(live) \in Nat /\ Len(live) <= Len(log)
           /\ \A i \in DOMAIN live : live[i] <= now
           /\ \A t \in now..MaxTime :
                ForgettingInv(live, Cardinality(ChargedIn(t)), Cardinality(Charging),
                              Cardinality(Late(t)), t)
<1> DEFINE live == Live(log, stamp[c])
<1>1. stamp[c] \in Times /\ stamp[c] \in Nat /\ stamp[c] <= now /\ now \in Nat
  BY TypesOfCalls DEF PaceInv
<1>2. PICK k \in 0..Len(log) :
        Suffix(live, log, k) /\ \A i \in 1..k : log[i] + Window <= stamp[c]
  BY <1>1, TypesOfCalls, LiveSuffix
<1> HIDE DEF live
<1>3. /\ live \in Seq(Times) /\ Len(live) \in Nat /\ Len(live) = Len(log) - k
      /\ Len(log) \in Nat /\ DOMAIN live = 1..Len(live) /\ DOMAIN log = 1..Len(log)
      /\ \A i \in 1..Len(live) : live[i] = log[i + k]
  BY <1>2 DEF Suffix
<1>4. ASSUME NEW i \in DOMAIN live PROVE live[i] <= now
  <2>1. i + k \in DOMAIN log /\ live[i] = log[i + k]
    BY <1>3
  <2>2. QED
    BY <2>1 DEF PaceInv
<1>5. ASSUME NEW t \in now..MaxTime
      PROVE  ForgettingInv(live, Cardinality(ChargedIn(t)), Cardinality(Charging),
                           Cardinality(Late(t)), t)
  <2>1. t \in Nat /\ t \in 0..MaxTime /\ now <= t
    BY <1>1
  <2>2. \A i \in 1..k : i \in 1..Len(log)
    BY <1>3
  <2>3. \A i \in 1..k : log[i] + Window \in Nat /\ log[i] + Window <= stamp[c]
    BY <1>2, <2>1, <2>2, LogSets, TypesOfCalls
  <2>4. \A i \in 1..k : log[i] + Window <= t
    BY <1>1, <2>1, <2>3
  <2>5. ForgettingInv(log, Cardinality(ChargedIn(t)), Cardinality(Charging),
                      Cardinality(Late(t)), t)
    BY DEF PaceInv, OpenInv
  <2>6. QED
    BY <1>2, <2>1, <2>4, <2>5, AgedLeave, PaceFacts
<1>6. QED
  BY <1>3, <1>4, <1>5 DEF live

LEMMA BudgetSpentPace ==
    ASSUME GatewayInv, PaceInv, NEW c \in Calls, BudgetSpent(c)
    PROVE  PaceInv'
<1>1. /\ pc[c] = "checking" /\ pc' = [pc EXCEPT ![c] = "over"]
      /\ log' = Live(log, stamp[c]) /\ UNCHANGED <<now, stamp, countedAt>>
  BY DEF BudgetSpent, Conclude
<1>2. pc \in [Calls -> Places]
  BY TypesOfCalls
<1>3. Charging' = Charging
  BY <1>1, <1>2 DEF Charging
<1>4. \A t \in 0..MaxTime :
        Late(t)' = Late(t) /\ ChargedIn(t)' = ChargedIn(t) /\ Committed(t)' = Committed(t)
  BY <1>1, <1>2 DEF Late, ChargedIn, Committed
<1>5. /\ IsFiniteSet({d \in Calls : pc[d] # "new"})' /\ Cardinality(Active') <= MaxConcurrent
  <2>1. c \in Active /\ "over" \in Places \ {"new"}
    BY <1>1 DEF Active, Ended, Places
  <2>2. QED
    BY <1>1, <2>1, ActiveKept
<1>6. /\ log' \in Seq(Times) /\ Len(log') \in Nat /\ Len(log') <= Len(log)
      /\ \A i \in DOMAIN log' : log'[i] <= now
      /\ \A t \in now..MaxTime :
           ForgettingInv(log', Cardinality(ChargedIn(t)), Cardinality(Charging),
                         Cardinality(Late(t)), t)
  BY <1>1, LivePace
<1>7. ASSUME NEW t \in now'..MaxTime PROVE OpenInv(t)'
  <2>1. t \in now..MaxTime /\ t \in 0..MaxTime /\ t \in Nat
    BY <1>1, TypesOfCalls
  <2>2. QED
    BY <1>3, <1>4, <1>6, <2>1, OpenNext
<1>8. Len(log') + Cardinality(Charging') <= MaxCalls + Others
  <2>1. 0 \in 0..MaxTime
    BY TypesOfCalls
  <2>2. Cardinality(Charging) \in Nat
    BY <2>1, PaceFacts
  <2>3. Len(log) + Cardinality(Charging) <= MaxCalls + Others
    BY DEF PaceInv
  <2>4. QED
    BY <1>3, <1>6, <2>2, <2>3, TypesOfCalls, OthersFacts
<1>9. \A d \in Calls : stamp'[d] <= now' /\ (countedAt'[d] # Never => countedAt'[d] <= now')
  BY <1>1 DEF PaceInv
<1>10. \A t \in 0..MaxTime : t < now' => Cardinality(Committed(t)') <= Most
  BY <1>1, <1>4 DEF PaceInv
<1>11. QED
  BY <1>1, <1>5, <1>6, <1>7, <1>8, <1>9, <1>10 DEF PaceInv

\* The check lets a call pass only when there is room, so that whatever the log
\* forgot was paid for with a chance.
LEMMA BudgetLeftPace ==
    ASSUME GatewayInv, PaceInv, NEW c \in Calls, BudgetLeft(c)
    PROVE  PaceInv'
<1>1. /\ pc[c] = "checking" /\ Len(Live(log, stamp[c])) < MaxCalls
      /\ log' = Live(log, stamp[c]) /\ UNCHANGED <<now, stamp, countedAt>>
  BY DEF BudgetLeft
<1>2. PICK x \in {"over", "raised", "cleared"} : pc' = [pc EXCEPT ![c] = x]
  <2>1. CASE Gated /\ request[c].approval # "approved"
    BY <2>1 DEF BudgetLeft, Conclude
  <2>2. CASE ~(Gated /\ request[c].approval # "approved")
    BY <2>2 DEF BudgetLeft, PassChecks
  <2>3. QED
    BY <2>1, <2>2
<1>3. pc \in [Calls -> Places]
  BY TypesOfCalls
<1>4. \A t \in 0..MaxTime :
        Late(t)' = Late(t) /\ ChargedIn(t)' = ChargedIn(t) /\ Committed(t)' = Committed(t)
  BY <1>1, <1>2, <1>3 DEF Late, ChargedIn, Committed
<1>5. /\ IsFiniteSet({d \in Calls : pc[d] # "new"})'
      /\ IsFiniteSet(Active') /\ Cardinality(Active') <= MaxConcurrent
  <2>1. c \in Active /\ x \in Places \ {"new"}
    BY <1>1 DEF Active, Ended, Places
  <2>2. QED
    BY <1>2, <2>1, ActiveKept
<1>6. Cardinality(Charging') \in Nat /\ Cardinality(Charging') <= MaxConcurrent
  <2>1. Charging' \subseteq Active'
    BY DEF Charging, Active, Ended
  <2>2. IsFiniteSet(Charging') /\ Cardinality(Charging') <= Cardinality(Active')
    BY <1>5, <2>1, FS_Subset
  <2>3. Cardinality(Charging') \in Nat /\ Cardinality(Active') \in Nat
    BY <1>5, <2>2, FS_CardinalityType
  <2>4. QED
    BY <1>5, <2>2, <2>3, OthersFacts
<1>7. /\ log' \in Seq(Times) /\ Len(log') \in Nat /\ Len(log') <= Len(log)
      /\ \A i \in DOMAIN log' : log'[i] <= now
      /\ \A t \in now..MaxTime :
           ForgettingInv(log', Cardinality(ChargedIn(t)), Cardinality(Charging),
                         Cardinality(Late(t)), t)
  BY <1>1, LivePace
<1>8. Len(log') < MaxCalls
  BY <1>1
<1>9. ASSUME NEW t \in now'..MaxTime PROVE OpenInv(t)'
  <2>1. t \in now..MaxTime /\ t \in 0..MaxTime /\ t \in Nat
    BY <1>1, TypesOfCalls
  <2>2. ForgettingInv(log', Cardinality(ChargedIn(t)), Cardinality(Charging'),
                      Cardinality(Late(t)), t)
    <3> DEFINE before == Cardinality(Charging)
               after == Cardinality(Charging')
    <3>1. ForgettingInv(log', Cardinality(ChargedIn(t)), before, Cardinality(Late(t)), t)
      BY <1>7, <2>1
    <3>2. ~(Len(log') >= MaxCalls)
      BY <1>7, <1>8, OthersFacts
    <3> HIDE DEF before, after
    <3>3. ForgettingInv(log', Cardinality(ChargedIn(t)), after, Cardinality(Late(t)), t)
      BY <3>1, <3>2, Zenon DEF ForgettingInv
    <3>4. QED
      BY <3>3 DEF after
  <2>3. QED
    BY <1>4, <2>1, <2>2, OpenNext
<1>10. Len(log') + Cardinality(Charging') <= MaxCalls + Others
  BY <1>6, <1>7, <1>8, OthersFacts
<1>11. \A d \in Calls : stamp'[d] <= now' /\ (countedAt'[d] # Never => countedAt'[d] <= now')
  BY <1>1 DEF PaceInv
<1>12. \A t \in 0..MaxTime : t < now' => Cardinality(Committed(t)') <= Most
  BY <1>1, <1>4 DEF PaceInv
<1>13. QED
  BY <1>1, <1>5, <1>7, <1>9, <1>10, <1>11, <1>12 DEF PaceInv

\* The clock is read: a window that is over gets no call of it, and a window
\* far ahead gets a chance, but it holds no call yet.
LEMMA ReadClockPace ==
    ASSUME GatewayInv, PaceInv, NEW c \in Calls, ReadClock(c)
    PROVE  PaceInv'
<1>1. /\ pc[c] = "cleared" /\ pc' = [pc EXCEPT ![c] = "recording"]
      /\ stamp' = [stamp EXCEPT ![c] = now] /\ UNCHANGED <<now, log, countedAt>>
  BY DEF ReadClock, limitVars
<1>2. pc \in [Calls -> Places] /\ stamp \in [Calls -> Times] /\ now \in Nat
  BY TypesOfCalls
<1>3. Charging' = Charging
  BY <1>1, <1>2 DEF Charging
<1>4. \A t \in 0..MaxTime : ChargedIn(t)' = ChargedIn(t)
  BY <1>1 DEF ChargedIn
<1>5. /\ IsFiniteSet({d \in Calls : pc[d] # "new"})' /\ Cardinality(Active') <= MaxConcurrent
  <2>1. c \in Active /\ "recording" \in Places \ {"new"}
    BY <1>1 DEF Active, Ended, Places
  <2>2. QED
    BY <1>1, <2>1, ActiveKept
<1>6. ASSUME NEW t \in now'..MaxTime PROVE OpenInv(t)'
  <2>1. t \in now..MaxTime /\ t \in 0..MaxTime /\ t \in Nat /\ now <= t
    BY <1>1, <1>2
  <2>2. CASE now + Window <= t
    <3>1. ChargedIn(t) = {} /\ Counting(log', t) = {}
      BY <1>1, <2>1, <2>2, NothingYet
    <3>2. ChargedIn(t)' = {}
      BY <1>4, <2>1, <3>1
    <3>3. Forgotten(log', Cardinality(ChargedIn(t)'), t) = 0
      BY <3>1, <3>2, FS_EmptySet DEF Forgotten
    <3>4. ForgettingInv(log', Cardinality(ChargedIn(t)'), Cardinality(Charging'),
                        Cardinality(Late(t)'), t)
      BY <3>1, <3>3 DEF ForgettingInv
    <3>5. QED
      BY <2>1, <3>4, OpenNext
  <2>3. CASE ~(now + Window <= t)
    <3>1. Late(t)' = Late(t)
      BY <1>1, <1>2, <2>3 DEF Late
    <3>2. OpenInv(t)
      BY <2>1 DEF PaceInv
    <3>3. QED
      BY <1>1, <1>3, <1>4, <2>1, <3>1, <3>2, OpenNext DEF OpenInv
  <2>4. QED
    BY <2>2, <2>3
<1>7. ASSUME NEW t \in 0..MaxTime, t < now' PROVE Cardinality(Committed(t)') <= Most
  <2>1. Committed(t)' = Committed(t)
    <3>1. ~(now <= t)
      BY <1>1, <1>2, <1>7
    <3>2. QED
      BY <1>1, <1>2, <1>4, <3>1 DEF Committed
  <2>2. QED
    BY <1>1, <1>7, <2>1 DEF PaceInv
<1>8. \A d \in Calls : stamp'[d] <= now' /\ (countedAt'[d] # Never => countedAt'[d] <= now')
  BY <1>1, <1>2 DEF PaceInv
<1>9. \A i \in DOMAIN log' : log'[i] <= now'
  BY <1>1 DEF PaceInv
<1>10. Len(log') + Cardinality(Charging') <= MaxCalls + Others
  BY <1>1, <1>3 DEF PaceInv
<1>11. QED
  BY <1>5, <1>6, <1>7, <1>8, <1>9, <1>10 DEF PaceInv

\* A call is charged: it moves from those on their way into the log.
LEMMA CountPace ==
    ASSUME GatewayInv, PaceInv, NEW c \in Calls, Count(c)
    PROVE  PaceInv'
<1>1. /\ pc[c] = "recording" /\ pc' = [pc EXCEPT ![c] = "attempting"]
      /\ log' = Record(log, stamp[c]) /\ countedAt' = [countedAt EXCEPT ![c] = stamp[c]]
      /\ UNCHANGED <<now, stamp>>
  BY DEF Count
<1>2. /\ pc \in [Calls -> Places] /\ countedAt \in [Calls -> Times \cup {Never}]
      /\ stamp[c] \in Times /\ stamp[c] \in Nat /\ now \in Nat /\ Window \in Nat
      /\ log \in Seq(Times) /\ Len(log) <= MaxCalls /\ Len(log) \in Nat
  BY TypesOfCalls
<1>3. stamp[c] <= now /\ countedAt[c] = Never /\ stamp[c] # Never
  BY <1>1, <1>2, GatewayAssumption DEF PaceInv, GatewayInv, UnchargedInv, Uncharged
<1>4. c \in Active /\ c \in Charging /\ Charging' = Charging \ {c}
  BY <1>1, <1>2 DEF Charging, Active, Ended
<1>5. /\ IsFiniteSet({d \in Calls : pc[d] # "new"})' /\ Cardinality(Active') <= MaxConcurrent
  <2>1. "attempting" \in Places \ {"new"}
    BY DEF Places
  <2>2. QED
    BY <1>1, <1>4, <2>1, ActiveKept
<1> DEFINE v == Cardinality(Charging)
<1>6. v \in 1..MaxConcurrent /\ Cardinality(Charging') = v - 1
  <2>1. 0 \in 0..MaxTime
    BY TypesOfCalls
  <2>2. IsFiniteSet(Charging) /\ v \in Nat /\ v <= MaxConcurrent
    BY <2>1, PaceFacts
  <2>3. Cardinality(Charging \ {c}) = v - 1 /\ v # 0
    BY <1>4, <2>2, FS_RemoveElement, FS_EmptySet
  <2>4. QED
    BY <1>4, <2>2, <2>3, OthersFacts
<1>7. Len(log) + v <= MaxCalls + Others
  BY DEF PaceInv
<1>8. /\ Len(log') + Cardinality(Charging') <= MaxCalls + Others
      /\ \A i \in DOMAIN log' : log'[i] <= now'
  <2> DEFINE w == v
  <2>1. w \in Nat \ {0} /\ Len(log) + w <= MaxCalls + Others
    BY <1>6, <1>7, OthersFacts
  <2>2. \A i \in DOMAIN log : log[i] <= now
    BY DEF PaceInv
  <2> HIDE DEF w
  <2>3. /\ Len(Record(log, stamp[c])) + (w - 1) <= MaxCalls + Others
        /\ \A i \in DOMAIN Record(log, stamp[c]) : Record(log, stamp[c])[i] <= now
    BY <1>2, <1>3, <2>1, <2>2, RecordKeepsPace
  <2>4. QED
    BY <1>1, <1>6, <2>3 DEF w
<1>9. ASSUME NEW t \in now'..MaxTime PROVE OpenInv(t)'
  <2>1. t \in 0..MaxTime /\ t \in Nat /\ now <= t /\ stamp[c] <= t
    BY <1>1, <1>2, <1>3
  <2>2. /\ IsFiniteSet(ChargedIn(t)) /\ Cardinality(ChargedIn(t)) \in Nat
        /\ IsFiniteSet(Late(t)) /\ Cardinality(Late(t)) \in Nat
        /\ IsFiniteSet(Active) /\ Cardinality(Active) \in Nat /\ Late(t) \subseteq Active
    BY <2>1, PaceFacts
  <2>3. c \notin ChargedIn(t)
    BY <1>3 DEF ChargedIn
  <2>4. ForgettingInv(log, Cardinality(ChargedIn(t)), v, Cardinality(Late(t)), t)
    BY <1>1, <2>1 DEF PaceInv, OpenInv
  <2> HIDE DEF v
  <2>5. CASE t < stamp[c] + Window
    <3>1. ~(stamp[c] + Window <= t)
      BY <1>2, <2>1, <2>5
    <3>2. Late(t)' = Late(t) /\ c \notin Late(t)
      BY <1>1, <1>2, <3>1 DEF Late
    <3>3. ChargedIn(t)' = ChargedIn(t) \cup {c}
      BY <1>1, <1>2, <1>3, <2>1, <2>5 DEF ChargedIn
    <3>4. Cardinality(ChargedIn(t)') = Cardinality(ChargedIn(t)) + 1
      BY <2>2, <2>3, <3>3, FS_AddElement
    <3>5. Cardinality(Late(t)) \in 0..Others
      <4>1. Late(t) \in SUBSET (Active \ {c})
        BY <2>2, <3>2
      <4>2. IsFiniteSet(Active \ {c}) /\ Cardinality(Active \ {c}) = Cardinality(Active) - 1
        BY <1>4, <2>2, FS_RemoveElement
      <4>3. Cardinality(Late(t)) <= Cardinality(Active) - 1
        BY <4>1, <4>2, FS_Subset
      <4>4. Cardinality(Active) <= MaxConcurrent
        BY DEF PaceInv
      <4> DEFINE a == Cardinality(Active)
                 q == Cardinality(Late(t))
      <4>5. a \in Nat /\ q \in Nat /\ q <= a - 1 /\ a <= MaxConcurrent
        BY <2>2, <4>3, <4>4
      <4> HIDE DEF a, q
      <4>6. q \in 0..Others
        BY <4>5, OthersFacts
      <4>7. QED
        BY <4>6 DEF q
    <3>6. ForgettingInv(Record(log, stamp[c]), Cardinality(ChargedIn(t)) + 1, v - 1,
                        Cardinality(Late(t)), t)
      BY <1>2, <1>6, <1>7, <2>1, <2>2, <2>4, <2>5, <3>5, RecordCounted
    <3>7. ForgettingInv(log', Cardinality(ChargedIn(t)'), Cardinality(Charging'),
                        Cardinality(Late(t)'), t)
      BY <1>1, <1>6, <3>2, <3>4, <3>6
    <3>8. QED
      BY <2>1, <3>7, OpenNext
  <2>6. CASE stamp[c] + Window <= t
    <3>1. ~(t < stamp[c] + Window)
      BY <1>2, <2>1, <2>6
    <3>2. Late(t)' = Late(t) \ {c} /\ c \in Late(t)
      BY <1>1, <1>2, <2>6 DEF Late
    <3>3. ChargedIn(t)' = ChargedIn(t)
      BY <1>1, <1>2, <1>3, <3>1 DEF ChargedIn
    <3>4. /\ Cardinality(Late(t)') = Cardinality(Late(t)) - 1
          /\ Cardinality(Late(t)) \in Nat \ {0}
      BY <2>2, <3>2, FS_RemoveElement, FS_EmptySet
    <3>5. ForgettingInv(Record(log, stamp[c]), Cardinality(ChargedIn(t)), v - 1,
                        Cardinality(Late(t)) - 1, t)
      BY <1>2, <1>6, <1>7, <2>1, <2>2, <2>4, <2>6, <3>4, RecordAged
    <3>6. ForgettingInv(log', Cardinality(ChargedIn(t)'), Cardinality(Charging'),
                        Cardinality(Late(t)'), t)
      BY <1>1, <1>6, <3>3, <3>4, <3>5
    <3>7. QED
      BY <2>1, <3>6, OpenNext
  <2>7. QED
    BY <1>2, <2>1, <2>5, <2>6
<1>10. ASSUME NEW t \in 0..MaxTime, t < now' PROVE Cardinality(Committed(t)') <= Most
  <2>1. Committed(t)' \subseteq Committed(t)
    <3>1. ASSUME NEW d \in Committed(t)' PROVE d \in Committed(t)
      <4>1. CASE d # c
        BY <1>1, <1>2, <3>1, <4>1 DEF Committed, ChargedIn
      <4>2. CASE d = c
        BY <1>1, <1>2, <1>3, <3>1, <4>2 DEF Committed, ChargedIn
      <4>3. QED
        BY <4>1, <4>2
    <3>2. QED
      BY <3>1
  <2>2. IsFiniteSet(Committed(t)) /\ Cardinality(Committed(t)) \in Nat
    BY PaceFacts
  <2>3. IsFiniteSet(Committed(t)') /\ Cardinality(Committed(t)') <= Cardinality(Committed(t))
    BY <2>1, <2>2, FS_Subset
  <2>4. Cardinality(Committed(t)') \in Nat /\ Cardinality(Committed(t)) <= Most
    BY <1>1, <1>10, <2>3, FS_CardinalityType DEF PaceInv
  <2>5. Most \in Int
    BY OthersFacts, ScaleUp DEF Most
  <2>6. QED
    BY <2>2, <2>3, <2>4, <2>5
<1>11. \A d \in Calls : stamp'[d] <= now' /\ (countedAt'[d] # Never => countedAt'[d] <= now')
  BY <1>1, <1>2, <1>3 DEF PaceInv
<1>12. QED
  BY <1>5, <1>8, <1>9, <1>10, <1>11 DEF PaceInv

\* What an open window holds, and may still get, is within the bound.
LEMMA OpenIsBounded ==
    ASSUME GatewayInv, PaceInv, NEW t \in now..MaxTime
    PROVE  Cardinality(ChargedIn(t)) + Cardinality(Charging) <= Most
<1>1. t \in 0..MaxTime /\ t \in Nat
  BY TypesOfCalls
<1> DEFINE r == Cardinality(ChargedIn(t))
           v == Cardinality(Charging)
           q == Cardinality(Late(t))
           w == Cardinality(Counting(log, t))
           f == Forgotten(log, r, t)
           n == Len(log)
<1>2. r \in Nat /\ v \in Nat /\ q \in Nat
  BY <1>1, PaceFacts
<1>3. w \in Nat /\ n \in Nat /\ w <= n /\ n <= MaxCalls
  BY <1>1, LogSets, TypesOfCalls
<1>4. ForgettingInv(log, r, v, q, t) /\ n + v <= MaxCalls + Others
  BY DEF PaceInv, OpenInv
<1> HIDE DEF r, v, q
<1>5. /\ Fits(f, Chances(log, q, t), v, n) /\ f \in Int /\ Chances(log, q, t) \in Nat
  BY <1>1, <1>2, <1>4, ForgettingSplit, TypesOfCalls
<1>6. f = r - w
  BY DEF Forgotten
<1> HIDE DEF w, f, n
<1>7. f + w + v <= Most
  BY <1>2, <1>3, <1>4, <1>5, FitsBound
<1>8. f + w + v = r + v
  BY <1>2, <1>3, <1>5, <1>6
<1>9. QED
  BY <1>7, <1>8 DEF r, v

\* Time passes: the window that ends holds what it was promised at most.
LEMMA TickPace ==
    ASSUME GatewayInv, PaceInv, Tick
    PROVE  PaceInv'
<1>1. /\ now < MaxTime /\ now' = now + 1 /\ now \in Nat /\ MaxTime \in Nat
      /\ UNCHANGED <<log, pc, stamp, countedAt>>
  BY TypesOfCalls DEF Tick, callVars, limitVars
<1>2. /\ Charging' = Charging /\ Active' = Active
      /\ \A t \in 0..MaxTime :
           Late(t)' = Late(t) /\ ChargedIn(t)' = ChargedIn(t) /\ Committed(t)' = Committed(t)
  BY <1>1 DEF Charging, Active, Ended, Late, ChargedIn, Committed
<1>3. ASSUME NEW t \in now'..MaxTime PROVE OpenInv(t)'
  <2>1. t \in now..MaxTime /\ t \in 0..MaxTime /\ t \in Nat
    BY <1>1
  <2>2. OpenInv(t)
    BY <2>1 DEF PaceInv
  <2>3. QED
    BY <1>1, <1>2, <2>1, <2>2, OpenNext DEF OpenInv
<1>4. ASSUME NEW t \in 0..MaxTime, t < now' PROVE Cardinality(Committed(t)') <= Most
  <2>1. CASE t < now
    BY <1>2, <2>1 DEF PaceInv
  <2>2. CASE t = now
    <3>1. t \in now..MaxTime
      BY <1>1, <2>2
    <3>2. Cardinality(ChargedIn(t)) + Cardinality(Charging) <= Most
      BY <3>1, OpenIsBounded
    <3>3. Committed(t) \subseteq ChargedIn(t) \cup Charging
      BY DEF Committed, Charging
    <3>4. /\ IsFiniteSet(ChargedIn(t)) /\ Cardinality(ChargedIn(t)) \in Nat
          /\ IsFiniteSet(Charging) /\ Cardinality(Charging) \in Nat
          /\ Cardinality(Committed(t)) \in Nat
      BY PaceFacts
    <3> DEFINE both == ChargedIn(t) \cup Charging
    <3>5. /\ IsFiniteSet(both)
          /\ Cardinality(both) =
               Cardinality(ChargedIn(t)) + Cardinality(Charging)
                 - Cardinality(ChargedIn(t) \cap Charging)
      BY <3>4, FS_Union
    <3>6. Cardinality(ChargedIn(t) \cap Charging) \in Nat
      BY <3>4, FS_Intersection, FS_CardinalityType
    <3>7. Cardinality(Committed(t)) <= Cardinality(both)
      BY <3>3, <3>5, FS_Subset
    <3>8. Most \in Int
      BY OthersFacts, ScaleUp DEF Most
    <3>9. Cardinality(Committed(t)) <= Most
      BY <3>2, <3>4, <3>5, <3>6, <3>7, <3>8
    <3>10. QED
      BY <1>2, <3>9
  <2>3. QED
    BY <1>1, <1>4, <2>1, <2>2
<1>5. \A c \in Calls : stamp'[c] <= now' /\ (countedAt'[c] # Never => countedAt'[c] <= now')
  <2>1. ASSUME NEW c \in Calls
        PROVE  stamp[c] <= now + 1 /\ (countedAt[c] # Never => countedAt[c] <= now + 1)
    BY <1>1, TypesOfCalls DEF PaceInv
  <2>2. QED
    BY <1>1, <2>1
<1>6. \A i \in DOMAIN log' : log'[i] <= now'
  <2>1. ASSUME NEW i \in DOMAIN log PROVE log[i] <= now + 1
    BY <1>1, TypesOfCalls DEF PaceInv, Times
  <2>2. QED
    BY <1>1, <2>1
<1>7. /\ IsFiniteSet({c \in Calls : pc[c] # "new"})' /\ Cardinality(Active') <= MaxConcurrent
      /\ Len(log') + Cardinality(Charging') <= MaxCalls + Others
  BY <1>1, <1>2 DEF PaceInv
<1>8. QED
  BY <1>3, <1>4, <1>5, <1>6, <1>7 DEF PaceInv

LEMMA UnchangedPace ==
    ASSUME GatewayInv, PaceInv, UNCHANGED vars
    PROVE  PaceInv'
<1>1. UNCHANGED <<now, log, pc, stamp, countedAt>>
  BY DEF vars, callVars, limitVars
<1>2. \A c \in Calls : /\ pc'[c] = "cleared" <=> pc[c] = "cleared"
                       /\ pc'[c] = "recording" <=> pc[c] = "recording"
                       /\ pc[c] = "recording" => stamp'[c] = stamp[c]
                       /\ stamp'[c] <= now
  BY <1>1 DEF PaceInv
<1>3. /\ IsFiniteSet({c \in Calls : pc[c] # "new"})' /\ Cardinality(Active') <= MaxConcurrent
  BY <1>1 DEF PaceInv, Active, Ended
<1>4. QED
  BY <1>1, <1>2, <1>3, QuietPace

-----------------------------------------------------------------------------
\* In every state, what the limiter has forgotten of an open window is paid for,
\* and what a closed window may still get is bounded: for every number of turns,
\* calls and entries, however late a clock reading reaches the limiter.
THEOREM PaceInvariant == Spec => []PaceInv
<1>1. GatewayInv /\ PaceInv /\ [Next]_vars => PaceInv'
  <2> SUFFICES ASSUME GatewayInv, PaceInv, [Next]_vars
               PROVE  PaceInv'
    OBVIOUS
  <2>1. CASE Tick
    BY <2>1, TickPace
  <2>2. ASSUME NEW c \in Calls, Begin(c) PROVE PaceInv'
    BY <2>2, BeginPace
  <2>3. ASSUME NEW c \in Calls, Gateway(c) \/ HandlerEnds(c) PROVE PaceInv'
    BY <2>3, BudgetSpentPace, BudgetLeftPace, ReadClockPace, CountPace, AttemptPace
       DEF Gateway
  <2>4. CASE UNCHANGED vars
    BY <2>4, UnchangedPace
  <2>5. QED
    BY <2>1, <2>2, <2>3, <2>4 DEF Next
<1>2. QED
  BY InitPace, <1>1, GatewayInvariant, PTL DEF Spec

\* No window of time holds more calls than the budget and, for each turn, one
\* call per other turn.
THEOREM BudgetIsKept == Spec => []BudgetHolds
<1>1. ASSUME GatewayInv, PaceInv, NEW t \in 0..now PROVE Cardinality(ChargedIn(t)) <= Most
  <2>1. t \in 0..MaxTime /\ now \in 0..MaxTime /\ t \in Nat /\ now \in Nat
    BY <1>1, TypesOfCalls DEF Times
  <2>2. /\ IsFiniteSet(Committed(t)) /\ Cardinality(Committed(t)) \in Nat
        /\ Cardinality(ChargedIn(t)) \in Nat /\ Cardinality(Charging) \in Nat
    BY <1>1, <2>1, PaceFacts
  <2>3. Most \in Int
    BY OthersFacts, ScaleUp DEF Most
  <2>4. CASE t < now
    <3>1. Cardinality(Committed(t)) <= Most
      BY <1>1, <2>1, <2>4 DEF PaceInv
    <3>2. Cardinality(ChargedIn(t)) <= Cardinality(Committed(t))
      BY <2>2, FS_Subset DEF Committed
    <3>3. QED
      BY <2>2, <2>3, <3>1, <3>2
  <2>5. CASE t = now
    <3>1. t \in now..MaxTime
      BY <2>1, <2>5
    <3>2. Cardinality(ChargedIn(t)) + Cardinality(Charging) <= Most
      BY <1>1, <3>1, OpenIsBounded
    <3>3. QED
      BY <2>2, <2>3, <3>2
  <2>6. QED
    BY <2>1, <2>4, <2>5
<1>2. GatewayInv /\ PaceInv => BudgetHolds
  BY <1>1 DEF BudgetHolds
<1>3. QED
  BY <1>2, PaceInvariant, GatewayInvariant, PTL
=============================================================================
