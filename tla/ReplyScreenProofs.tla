------------------------- MODULE ReplyScreenProofs -------------------------
(***************************************************************************)
(* What a message shows of a run is the run, for every number of segments, *)
(* every budget of steps and attempts, and every lag of whoever watches:   *)
(* the rows a stream sends come in whole nodes, none is lost on its way,   *)
(* and a message at rest that carried the whole run shows it all.          *)
(***************************************************************************)
EXTENDS ReplyStreamProofs, EnumerationProofs

(***************************************************************************)
(* The log of a run: a node is entered and left in two rows, and what is   *)
(* learned from the run comes last.                                        *)
(***************************************************************************)
EndsIn(log, kinds) == log # <<>> /\ log[Len(log)].kind \in kinds

LogShape(log) ==
    \A i \in DOMAIN log :
        /\ log[i].kind = "node_exited" => i > 1 /\ log[i - 1] = Row(log[i].node, "node_entered")
        /\ log[i].kind = "node_entered" => i = Len(log) \/ log[i + 1].kind = "node_exited"
        /\ log[i].kind = "memory_written" => i = Len(log)

\* A log ends in a node's entry exactly while its thread is in the node.
ShapeOf(s) ==
    /\ LogShape(Log(s))
    /\ At(s, Running) => (EndsIn(Log(s), {"node_entered"}) <=> InNode(s))
    /\ At(s, Running) /\ (At(s, {"filing"}) => Paused(State(s))) =>
          ~EndsIn(Log(s), {"memory_written"})

\* So every log is in whole nodes, the filed one with none left open (graph/runtime.py).
ShapeInv ==
    /\ \A s \in Segments : ShapeOf(s)
    /\ LogShape(filed.events) /\ ~EndsIn(filed.events, {"node_entered"})
    /\ Paused(pause) => ~EndsIn(pause.events, {"memory_written"})

\* Until its turn begins the requester's message is empty.
StartInv == Unsent(1) => view[1] = InitialTurn /\ queue[1] = <<>>

(***************************************************************************)
(* Which event may come next to which: a node's two rows and the step that *)
(* closes it come in one piece, and so do a row of no node and its step.   *)
(***************************************************************************)
Nothing == [type |-> "nothing"]

OfKind(event, kinds) == IsRow(event) /\ event.row.kind \in kinds

Unclosed == {"node_entered", "node_exited", "approval_recorded", "run_failed"}

Joins(x, y) ==
    /\ ClosesNode(y) => IsRow(x) /\ x.row = Row(y.node, "node_exited")
    /\ OfKind(y, {"node_exited"}) => IsRow(x) /\ x.row = Row(y.row.node, "node_entered")
    /\ OfKind(x, {"node_entered"}) => OfKind(y, {"node_exited"})
    /\ OfKind(x, {"node_exited"}) => ClosesNode(y)
    /\ OfKind(x, {"approval_recorded", "run_failed"}) => IsStep(y)

LastOf(events, before) == IF events = <<>> THEN before ELSE events[Len(events)]

Chained(before, events) ==
    \A i \in DOMAIN events : Joins(IF i = 1 THEN before ELSE events[i - 1], events[i])

(***************************************************************************)
(* A message that hears the whole run.                                     *)
(***************************************************************************)
Whole == \A s \in Opened : message[s] = 1 /\ reader[s] # "stopped"

Feeds(s) == reader[s] = "reading" /\ message[s] = 1

RowAt(event, n) == IsRow(event) /\ event.seq + 1 = n

IsShown(n) == \E k \in DOMAIN view[1].timeline : RowAt(view[1].timeline[k], n)

LastShown == LastOf(view[1].timeline, Nothing)

Verdicts == {"approval", "answer"}

Trailing == {"finished", "error", "end"}

\* What it shows is the run as it is filed.
Settled ==
    /\ (view[1].status = "paused") <=> (filed.outcome = "paused")
    /\ \A n \in DOMAIN filed.events : IsShown(n)
    /\ \A k \in DOMAIN view[1].timeline :
          IsRow(view[1].timeline[k]) => view[1].timeline[k].seq < Len(filed.events)
    /\ ~OfKind(LastShown, Unclosed)

\* A decision was taken on it, and it has not heard of it yet.
Pending(s) ==
    /\ s > 1 /\ Feeds(s)
    /\ queue[s] = <<>> => At(s, {"setup"})
    /\ queue[s] # <<>> => queue[s][1].type \in {"started", "error"}

Filed(s) == filed = [outcome |-> Outcome(State(s)), events |-> Log(s)]

\* The rows a stream holds back come before the first node or after the last,
\* or are the entry of the node at work.
HoldsBack(log, sent) ==
    \A n \in DOMAIN log : n > sent =>
        \/ log[n].kind \in PreludeKinds \cup {"memory_written"}
        \/ log[n].kind = "node_entered" /\ n = Len(log)

Local(s) ==
    /\ At(s, Running \cup {"filed"}) => HoldsBack(Log(s), stream[s].emitted)
    /\ InNode(s) => stream[s].emitted < Len(Log(s))
    /\ At(s, {"filed"}) => Filed(s)

\* Every row sent is shown or on its way, and a verdict comes after them all.
Arrives(s) == \A n \in 1..stream[s].emitted :
    IsShown(n) \/ \E i \in DOMAIN queue[s] : RowAt(queue[s][i], n)

VerdictInv(s) ==
    \A i \in DOMAIN queue[s] : queue[s][i].type \in Verdicts =>
        /\ At(s, {"tail", "closed"}) /\ Filed(s) /\ stream[s].emitted = Len(Log(s))
        /\ queue[s][i] = Verdict(State(s))
        /\ \A j \in DOMAIN queue[s] : j > i => queue[s][j].type \in Trailing

FeedingInv(s) ==
    /\ Arrives(s) /\ VerdictInv(s) /\ Local(s)
    /\ Chained(LastShown, queue[s]) /\ ~OfKind(LastOf(queue[s], LastShown), Unclosed)
    /\ At(s, {"setup"}) =>
          /\ queue[s] = <<>>
          /\ s > 1 /\ Paused(pause) => stream[s].emitted = Len(pause.events)
    /\ \A i \in DOMAIN queue[s] :
          queue[s][i] = Started(FALSE) => i = 1 /\ view[1].timeline = <<>>

AtRest(s) ==
    At(s, {"tail", "closed"}) /\ \A i \in DOMAIN queue[s] : queue[s][i].type \in Trailing

\* Until the requester's message hangs up: what was sent is shown or queued, in
\* whole nodes; and a screen that says it is over shows the filed run, or a
\* decision taken on it is about to tell it more.
WholeInv ==
    Whole =>
        /\ \A s \in Opened : reader[s] # "reading" => At(s, {"tail", "closed"})
        /\ view[1].status \in {"paused", "done"} =>
              \/ Settled /\ \A s \in Opened : AtRest(s)
              \/ \E s \in Opened : Pending(s)
        /\ Chained(Nothing, view[1].timeline)
        /\ \A s \in Opened : Feeds(s) => FeedingInv(s)

(***************************************************************************)
(* Chains of events.                                                       *)
(***************************************************************************)
\* What is left of a sequence without its first event.
RestOf(n, q) ==
    /\ q \in Seq(Events) /\ n \in Seq(Events) /\ Len(q) = Len(n) + 1
    /\ \A i \in DOMAIN n : i + 1 \in DOMAIN q /\ n[i] = q[i + 1]

LEMMA ChainedTail ==
    ASSUME NEW n, NEW q, RestOf(n, q), NEW b, Chained(b, q)
    PROVE  Joins(b, q[1]) /\ Chained(q[1], n) /\ LastOf(n, q[1]) = LastOf(q, b)
<1> DEFINE lq == Len(q)  ln == Len(n)
<1>1. /\ lq \in Nat /\ DOMAIN q = 1..lq /\ ln \in Nat /\ DOMAIN n = 1..ln /\ lq = ln + 1
      /\ \A i \in DOMAIN n : i + 1 \in DOMAIN q /\ n[i] = q[i + 1]
  BY DEF RestOf
<1>2. (n = <<>> <=> ln = 0) /\ q # <<>>
  BY <1>1 DEF RestOf
<1> HIDE DEF lq, ln
<1>3. Joins(b, q[1])
  BY <1>1 DEF Chained
<1>4. ASSUME NEW i \in DOMAIN n PROVE Joins(IF i = 1 THEN q[1] ELSE n[i - 1], n[i])
  <2>1. i \in Nat /\ i > 0 /\ i + 1 \in DOMAIN q /\ i + 1 # 1 /\ (i + 1) - 1 = i
    BY <1>1, <1>4
  <2>2. Joins(q[i], q[i + 1])
    BY <2>1 DEF Chained
  <2>3. q[i] = IF i = 1 THEN q[1] ELSE n[i - 1]
    <3>1. CASE i = 1
      BY <3>1
    <3>2. CASE i # 1
      <4>1. i - 1 \in DOMAIN n /\ (i - 1) + 1 = i
        BY <1>1, <1>4, <3>2
      <4>2. n[i - 1] = q[(i - 1) + 1]
        BY <1>1, <4>1
      <4>3. QED
        BY <3>2, <4>1, <4>2
    <3>3. QED
      BY <3>1, <3>2
  <2>4. QED
    BY <1>1, <1>4, <2>2, <2>3
<1>5. Chained(q[1], n)
  BY <1>4 DEF Chained
<1>6. LastOf(n, q[1]) = q[lq]
  <2>1. CASE ln = 0
    BY <1>1, <1>2, <2>1 DEF LastOf
  <2>2. CASE ln # 0
    <3>1. ln \in DOMAIN n /\ n # <<>>
      BY <1>1, <1>2, <2>2
    <3>2. n[ln] = q[lq]
      BY <1>1, <3>1
    <3>3. QED
      BY <3>1, <3>2 DEF LastOf, ln
  <2>3. QED
    BY <2>1, <2>2
<1>7. QED
  BY <1>2, <1>3, <1>5, <1>6 DEF LastOf, lq

\* An event that is no row and no step may be left out of a chain.
LEMMA ChainedSkip ==
    ASSUME NEW S, NEW n \in Seq(S), NEW x, ~IsRow(x), ~IsStep(x), NEW b, Joins(b, x),
           Chained(x, n), ~OfKind(LastOf(n, x), Unclosed)
    PROVE  /\ Chained(b, n) /\ ~OfKind(LastOf(n, b), Unclosed)
           /\ ~OfKind(b, Unclosed)
<1>1. ~OfKind(b, Unclosed)
  BY DEF Joins, OfKind, Unclosed, ClosesNode
<1>2. ASSUME NEW y, Joins(x, y) PROVE Joins(b, y)
  BY <1>1, <1>2 DEF Joins, OfKind, Unclosed, ClosesNode
<1>3. ASSUME NEW i \in DOMAIN n PROVE Joins(IF i = 1 THEN b ELSE n[i - 1], n[i])
  <2>1. Joins(IF i = 1 THEN x ELSE n[i - 1], n[i])
    BY <1>3 DEF Chained
  <2>2. QED
    BY <1>2, <2>1
<1>4. Chained(b, n)
  BY <1>3 DEF Chained
<1>5. ~OfKind(LastOf(n, b), Unclosed)
  BY <1>1 DEF LastOf
<1>6. QED
  BY <1>1, <1>4, <1>5

\* A queue with what was put on it.
Extends(n, q, put) ==
    /\ n \in Seq(Events) /\ q \in Seq(Events) /\ put \in Seq(Events)
    /\ Len(n) = Len(q) + Len(put) /\ \A i \in DOMAIN q : n[i] = q[i]
    /\ \A i \in DOMAIN n : i \notin DOMAIN q =>
          i - Len(q) \in DOMAIN put /\ n[i] = put[i - Len(q)]

LEMMA ChainedJoin ==
    ASSUME NEW n, NEW q, NEW put, Extends(n, q, put),
           NEW b, Chained(b, q), Chained(LastOf(q, b), put)
    PROVE  Chained(b, n) /\ LastOf(n, b) = LastOf(put, LastOf(q, b))
<1> DEFINE lq == Len(q)  ln == Len(n)  lp == Len(put)
<1>1. /\ lq \in Nat /\ DOMAIN q = 1..lq /\ ln \in Nat /\ DOMAIN n = 1..ln /\ ln = lq + lp
      /\ lp \in Nat /\ DOMAIN put = 1..lp
      /\ (q = <<>> <=> lq = 0) /\ (n = <<>> <=> ln = 0) /\ (put = <<>> <=> lp = 0)
      /\ \A i \in DOMAIN q : n[i] = q[i]
      /\ \A i \in DOMAIN n : i \notin DOMAIN q => n[i] = put[i - lq]
  BY DEF Extends
<1>2. LastOf(q, b) = IF lq = 0 THEN b ELSE q[lq]
  BY <1>1 DEF LastOf
<1>3. LastOf(n, b) = IF ln = 0 THEN b ELSE n[ln]
  BY <1>1 DEF LastOf
<1>4. LastOf(put, LastOf(q, b)) = IF lp = 0 THEN LastOf(q, b) ELSE put[lp]
  BY <1>1 DEF LastOf
<1> HIDE DEF lq, ln, lp
<1>5. ASSUME NEW i \in DOMAIN n PROVE Joins(IF i = 1 THEN b ELSE n[i - 1], n[i])
  <2>1. CASE i \in DOMAIN q
    <3>1. i # 1 => i - 1 \in DOMAIN q
      BY <1>1, <2>1
    <3>2. Joins(IF i = 1 THEN b ELSE q[i - 1], q[i])
      BY <2>1 DEF Chained
    <3>3. QED
      BY <1>1, <2>1, <3>1, <3>2
  <2>2. CASE i \notin DOMAIN q
    <3>1. i - lq \in DOMAIN put /\ n[i] = put[i - lq] /\ i > lq /\ i \in Nat
      BY <1>1, <1>5, <2>2
    <3>2. Joins(IF i - lq = 1 THEN LastOf(q, b) ELSE put[(i - lq) - 1], put[i - lq])
      BY <3>1 DEF Chained
    <3>3. CASE i - lq = 1
      <4>1. (lq = 0 <=> i = 1) /\ (lq # 0 => i - 1 = lq /\ lq \in DOMAIN q)
        BY <1>1, <3>1, <3>3
      <4>2. LastOf(q, b) = IF i = 1 THEN b ELSE n[i - 1]
        BY <1>1, <1>2, <4>1
      <4>3. QED
        BY <3>1, <3>2, <3>3, <4>2
    <3>4. CASE i - lq # 1
      <4>1. i # 1 /\ i - 1 \in DOMAIN n /\ i - 1 \notin DOMAIN q /\ (i - 1) - lq = (i - lq) - 1
        BY <1>1, <1>5, <3>1, <3>4
      <4>2. n[i - 1] = put[(i - lq) - 1]
        BY <1>1, <4>1
      <4>3. QED
        BY <3>1, <3>2, <3>4, <4>1, <4>2
    <3>5. QED
      BY <3>3, <3>4
  <2>3. QED
    BY <2>1, <2>2
<1>6. Chained(b, n)
  BY <1>5 DEF Chained
<1>7. LastOf(n, b) = LastOf(put, LastOf(q, b))
  <2>1. CASE lp = 0
    <3>1. ln = lq /\ (lq # 0 => lq \in DOMAIN q)
      BY <1>1, <2>1
    <3>2. QED
      BY <1>1, <1>2, <1>3, <1>4, <2>1, <3>1
  <2>2. CASE lp # 0
    <3>1. ln # 0 /\ ln \in DOMAIN n /\ ln \notin DOMAIN q /\ ln - lq = lp
      BY <1>1, <2>2
    <3>2. n[ln] = put[lp]
      BY <1>1, <3>1
    <3>3. QED
      BY <1>3, <1>4, <2>2, <3>1, <3>2
  <2>3. QED
    BY <2>1, <2>2
<1>8. QED
  BY <1>6, <1>7

LEMMA ChainedAppend ==
    ASSUME NEW S, NEW t \in Seq(S), NEW e \in S, NEW b, Chained(b, t), Joins(LastOf(t, b), e)
    PROVE  Chained(b, Append(t, e)) /\ LastOf(Append(t, e), b) = e
<1> DEFINE n == Append(t, e)  l == Len(t)
<1>1. /\ n \in Seq(S) /\ Len(n) = l + 1 /\ n[l + 1] = e
      /\ \A i \in DOMAIN t : n[i] = t[i]
  BY AppendProperties
<1>2. l \in Nat /\ DOMAIN t = 1..l /\ DOMAIN n = 1..(l + 1) /\ (t = <<>> <=> l = 0) /\ n # <<>>
  BY <1>1
<1>3. LastOf(n, b) = e
  BY <1>1, <1>2 DEF LastOf
<1>4. LastOf(t, b) = IF l = 0 THEN b ELSE t[l]
  BY <1>2 DEF LastOf
<1> HIDE DEF n, l
<1>5. ASSUME NEW i \in DOMAIN n PROVE Joins(IF i = 1 THEN b ELSE n[i - 1], n[i])
  <2>1. CASE i \in DOMAIN t
    <3>1. i # 1 => i - 1 \in DOMAIN t
      BY <1>2, <2>1
    <3>2. Joins(IF i = 1 THEN b ELSE t[i - 1], t[i])
      BY <2>1 DEF Chained
    <3>3. QED
      BY <1>1, <2>1, <3>1, <3>2
  <2>2. CASE i \notin DOMAIN t
    <3>1. i = l + 1 /\ (i = 1 <=> l = 0) /\ (l # 0 => i - 1 = l /\ l \in DOMAIN t)
      BY <1>2, <1>5, <2>2
    <3>2. LastOf(t, b) = IF i = 1 THEN b ELSE n[i - 1]
      BY <1>1, <1>4, <3>1
    <3>3. QED
      BY <1>1, <3>1, <3>2
  <2>3. QED
    BY <2>1, <2>2
<1>6. Chained(b, n)
  BY <1>5 DEF Chained
<1>7. QED
  BY <1>3, <1>6 DEF n

\* Events that are no rows and no steps chain after any that is not open.
Rowless(put) == \A i \in DOMAIN put : ~IsRow(put[i]) /\ ~IsStep(put[i])

LEMMA PlainChained ==
    ASSUME NEW put \in Seq(Events), Rowless(put), NEW b, ~OfKind(b, Unclosed)
    PROVE  Chained(b, put) /\ ~OfKind(LastOf(put, b), Unclosed)
<1>1. ASSUME NEW x, NEW y, ~OfKind(x, Unclosed), ~IsRow(y), ~IsStep(y) PROVE Joins(x, y)
  BY <1>1 DEF Joins, OfKind, Unclosed, ClosesNode
<1>2. ASSUME NEW i \in DOMAIN put PROVE Joins(IF i = 1 THEN b ELSE put[i - 1], put[i])
  <2>1. i # 1 => i - 1 \in DOMAIN put
    BY <1>2
  <2>2. ~OfKind(IF i = 1 THEN b ELSE put[i - 1], Unclosed)
    BY <2>1 DEF OfKind, Rowless
  <2>3. QED
    BY <1>1, <1>2, <2>2 DEF Rowless
<1>3. Chained(b, put)
  BY <1>2 DEF Chained
<1>4. ~OfKind(LastOf(put, b), Unclosed)
  <2>1. put # <<>> => Len(put) \in DOMAIN put
    OBVIOUS
  <2>2. QED
    BY <2>1 DEF LastOf, OfKind, Rowless
<1>5. QED
  BY <1>3, <1>4

(***************************************************************************)
(* A log that grows.                                                       *)
(***************************************************************************)
LEMMA LogGrows ==
    ASSUME NEW log \in Seq(Rows), NEW row \in Rows
    PROVE  /\ Append(log, row) \in Seq(Rows) /\ Len(Append(log, row)) = Len(log) + 1
           /\ DOMAIN Append(log, row) = 1..(Len(log) + 1)
           /\ \A i \in DOMAIN log : Append(log, row)[i] = log[i]
           /\ Append(log, row)[Len(log) + 1] = row /\ Append(log, row) # <<>>
           /\ Len(log) \in Nat /\ DOMAIN log = 1..Len(log) /\ (log = <<>> <=> Len(log) = 0)
           /\ \A kinds : EndsIn(Append(log, row), kinds) <=> row.kind \in kinds
<1> DEFINE n == Append(log, row)
<1>1. /\ n \in Seq(Rows) /\ Len(n) = Len(log) + 1
      /\ \A i \in 1..Len(log) : n[i] = log[i]
      /\ n[Len(log) + 1] = row
  BY AppendProperties
<1>2. Len(log) \in Nat /\ DOMAIN log = 1..Len(log) /\ (log = <<>> <=> Len(log) = 0)
  OBVIOUS
<1>3. DOMAIN n = 1..(Len(log) + 1)
  BY <1>1
<1>4. n # <<>>
  <2> HIDE DEF n
  <2>1. Len(n) # 0
    BY <1>1, <1>2
  <2>2. QED
    BY <2>1
<1>5. ASSUME NEW kinds PROVE EndsIn(n, kinds) <=> row.kind \in kinds
  BY <1>1, <1>4 DEF EndsIn
<1>6. QED
  BY <1>1, <1>2, <1>3, <1>4, <1>5

\* A row keeps the shape when it leaves the node at work, if there is one, and
\* no node otherwise, and nothing has been learned yet.
LEMMA ShapeGrows ==
    ASSUME NEW log \in Seq(Rows), NEW row \in Rows, LogShape(log),
           ~EndsIn(log, {"memory_written"}),
           EndsIn(log, {"node_entered"}) => row.kind = "node_exited",
           row.kind = "node_exited" =>
              log # <<>> /\ log[Len(log)] = Row(row.node, "node_entered")
    PROVE  LogShape(Append(log, row))
<1> DEFINE n == Append(log, row)  l == Len(log)
<1>1. /\ l \in Nat /\ DOMAIN log = 1..l /\ (log = <<>> <=> l = 0) /\ Len(n) = l + 1
      /\ DOMAIN n = 1..(l + 1) /\ \A i \in DOMAIN log : n[i] = log[i]
      /\ n[l + 1] = row
  BY LogGrows
<1>2. /\ EndsIn(log, {"memory_written"}) <=> l # 0 /\ log[l].kind = "memory_written"
      /\ EndsIn(log, {"node_entered"}) <=> l # 0 /\ log[l].kind = "node_entered"
  BY <1>1 DEF EndsIn
<1>3. row.kind = "node_exited" => l # 0 /\ log[l] = Row(row.node, "node_entered")
  BY <1>1
<1>4. \A i \in DOMAIN log :
        /\ log[i].kind = "node_exited" => i > 1 /\ log[i - 1] = Row(log[i].node, "node_entered")
        /\ log[i].kind = "node_entered" => i = l \/ log[i + 1].kind = "node_exited"
        /\ log[i].kind = "memory_written" => i = l
  BY DEF LogShape
<1> HIDE DEF n, l
<1>5. ASSUME NEW i \in DOMAIN n
      PROVE  /\ n[i].kind = "node_exited" =>
                   i > 1 /\ n[i - 1] = Row(n[i].node, "node_entered")
             /\ n[i].kind = "node_entered" => i = l + 1 \/ n[i + 1].kind = "node_exited"
             /\ n[i].kind = "memory_written" => i = l + 1
  <2>1. CASE i = l + 1
    <3>1. l # 0 => i > 1 /\ i - 1 = l /\ l \in DOMAIN log
      BY <1>1, <2>1
    <3>2. n[i] = row /\ (l # 0 => n[i - 1] = log[l])
      BY <1>1, <2>1, <3>1
    <3>3. QED
      BY <1>3, <2>1, <3>1, <3>2
  <2>2. CASE i \in DOMAIN log
    <3>1. n[i] = log[i]
      BY <1>1, <2>2
    <3>2. ASSUME n[i].kind = "node_exited"
          PROVE  i > 1 /\ n[i - 1] = Row(n[i].node, "node_entered")
      <4>1. i > 1 /\ log[i - 1] = Row(log[i].node, "node_entered")
        BY <1>4, <2>2, <3>1, <3>2
      <4>2. i - 1 \in DOMAIN log
        BY <1>1, <2>2, <4>1
      <4>3. QED
        BY <1>1, <3>1, <4>1, <4>2
    <3>3. ASSUME n[i].kind = "node_entered"
          PROVE  i = l + 1 \/ n[i + 1].kind = "node_exited"
      <4>1. CASE i = l
        <5>1. l # 0
          BY <1>1, <2>2, <4>1
        <5>2. row.kind = "node_exited"
          BY <1>2, <3>1, <3>3, <4>1, <5>1
        <5>3. QED
          BY <1>1, <4>1, <5>2
      <4>2. CASE i # l
        <5>1. i + 1 \in DOMAIN log
          BY <1>1, <2>2, <4>2
        <5>2. QED
          BY <1>1, <1>4, <2>2, <3>1, <3>3, <4>2, <5>1
      <4>3. QED
        BY <4>1, <4>2
    <3>4. n[i].kind # "memory_written"
      <4>1. i = l => l # 0
        BY <1>1, <2>2
      <4>2. QED
        BY <1>2, <1>4, <2>2, <3>1, <4>1
    <3>5. QED
      BY <3>2, <3>3, <3>4
  <2>3. QED
    BY <1>1, <1>5, <2>1, <2>2
<1>6. Len(n) = l + 1
  BY <1>1
<1>7. QED
  BY <1>5, <1>6 DEF LogShape, n

(***************************************************************************)
(* The steps of a thread, by what becomes of the log and of the queue.     *)
(***************************************************************************)
\* Events that say nothing of how far the run is.
IsPlain(e) == ~IsRow(e) /\ ~IsStep(e) /\ e.type \notin Verdicts

Plain(put) == \A i \in DOMAIN put : IsPlain(put[i]) /\ put[i] # Started(FALSE)

Sent(r) == stream[r].emitted

\* A step that adds nothing to the log.
GoesOn(s, put) ==
    /\ Alone(s) /\ At(s, Running \ {"filing"}) /\ At(s, Running)'
    /\ Log(s)' = Log(s) /\ InNode(s)' = InNode(s)
    /\ \A r \in Segments : Sent(r)' = Sent(r)
    /\ put \in Seq(Events) /\ Puts(s, put) /\ Plain(put)
    /\ Elsewhere /\ Filing

\* A step that adds a row and says nothing of it yet.
Adds(s, row) ==
    /\ Alone(s) /\ At(s, Running \ {"filing"}) /\ At(s, Running)'
    /\ row \in Rows /\ Log(s)' = Append(Log(s), row) /\ ~InNode(s)
    /\ row.kind \in {"contract_declared", "memory_written", "node_entered"}
    /\ InNode(s)' <=> row.kind = "node_entered"
    /\ row.kind = "memory_written" => At(s, {"filing"})' /\ ~Paused(State(s))'
    /\ \A r \in Segments : Sent(r)' = Sent(r)
    /\ UNCHANGED queue /\ Elsewhere /\ Filing

LEMMA SaysOne ==
    ASSUME NEW e \in Events, IsPlain(e), e # Started(FALSE)
    PROVE  <<e>> \in Seq(Events) /\ Plain(<<e>>)
<1>1. <<e>> \in Seq(Events) /\ DOMAIN <<e>> = {1} /\ <<e>>[1] = e
  BY OneEvent
<1>2. QED
  BY <1>1 DEF Plain

LEMMA SaysNothing ==
    ASSUME TypeOK, NEW s \in Segments, UNCHANGED queue
    PROVE  Puts(s, <<>>) /\ <<>> \in Seq(Events) /\ Plain(<<>>)
BY Silence DEF Plain

LEMMA SpeakGoesOn ==
    ASSUME StreamInv, NEW s \in Segments, Speak(s)
    PROVE  \E put : GoesOn(s, put)
<1> DEFINE event == TokenEvent(s)  put == <<event>>
<1>1. TypeOK /\ NodeInv(s)
  BY DEF StreamInv
<1>2. At(s, {"calling"}) /\ Call(s).purpose # "declare"
  BY DEF Speak
<1>3. event \in Events /\ event.type = "token"
  <2>1. Call(s).number \in Nat /\ Call(s).attempt \in 1..MaxAttempts
    BY <1>1, <1>2, WorkerTypes DEF NodeInv
  <2>2. <<s, Call(s).number, Call(s).attempt>> \in Pieces
    BY <2>1 DEF Pieces
  <2>3. QED
    BY <2>2, EventForms DEF TokenEvent
<1>4. Puts(s, put)
  BY DEF Speak, Put, Puts
<1> HIDE DEF event
<1>5. put \in Seq(Events) /\ Plain(put)
  BY <1>3, SaysOne DEF IsPlain, IsRow, IsStep, Verdicts, Started
<1> HIDE DEF put
<1>6. /\ Alone(s) /\ worker'[s].at = "calling"
      /\ worker'[s].state = State(s) /\ worker'[s].call = Call(s)
  <2> DEFINE w == [worker[s] EXCEPT !.spoke = TRUE]
  <2>1. worker \in [Segments -> Workers] /\ worker[s] \in Workers
    BY <1>1, WorkerTypes DEF TypeOK
  <2>2. worker' = [worker EXCEPT ![s] = w]
    BY <2>1 DEF Speak
  <2>3. w \in Workers /\ w.at = worker[s].at /\ w.state = State(s) /\ w.call = Call(s)
    BY <2>1 DEF Workers, Call, State
  <2> HIDE DEF w
  <2>4. QED
    BY <1>1, <1>2, <2>2, <2>3, Becomes DEF At
<1>7. UNCHANGED stream /\ Elsewhere /\ Filing
  BY DEF Speak
<1>8. /\ At(s, Running \ {"filing"}) /\ At(s, Running)' /\ Log(s)' = Log(s)
      /\ InNode(s) /\ InNode(s)'
  BY <1>2, <1>6 DEF At, Running, Log, State, InNode, Call
<1>9. QED
  BY <1>4, <1>5, <1>6, <1>7, <1>8 DEF GoesOn, Sent

LEMMA RetryGoesOn ==
    ASSUME StreamInv, NEW s \in Segments, Retry(s)
    PROVE  \E put : GoesOn(s, put)
<1>1. TypeOK
  BY DEF StreamInv
<1>2. /\ At(s, {"calling"}) /\ Call(s).attempt < MaxAttempts /\ Again(s) /\ Puts(s, Reset)
      /\ UNCHANGED stream /\ Elsewhere /\ Filing
  BY DEF Retry, RetryAfterReset, Put, Puts, Reset
<1>3. /\ Alone(s) /\ worker'[s].at = worker[s].at /\ worker'[s].state = State(s)
      /\ worker'[s].call.purpose = Call(s).purpose
  BY <1>1, <1>2, AgainFacts
<1>4. Reset \in Seq(Events) /\ Plain(Reset)
  <2> DEFINE e == [type |-> "reset"]
  <2>1. e \in Events /\ IsPlain(e) /\ e # Started(FALSE)
    BY EventForms DEF PlainTypes, IsPlain, IsRow, IsStep, Verdicts, Started
  <2> HIDE DEF e
  <2>2. <<e>> \in Seq(Events) /\ Plain(<<e>>)
    BY <2>1, SaysOne
  <2>3. QED
    BY <2>2 DEF Reset, e
<1>5. /\ At(s, Running \ {"filing"}) /\ At(s, Running)' /\ Log(s)' = Log(s)
      /\ InNode(s)' = InNode(s)
  BY <1>2, <1>3 DEF At, Running, Log, State, InNode, Call
<1>6. QED
  BY <1>2, <1>3, <1>4, <1>5 DEF GoesOn, Sent

\* What a thread does in silence.
LEMMA SilentGoesOn ==
    ASSUME TypeOK, NEW s \in Segments, Alone(s), worker[s].at \in Running \ {"filing"},
           worker'[s].at \in Running, worker'[s].state.events = Log(s),
           InNode(s)' = InNode(s), \A r \in Segments : stream'[r].emitted = stream[r].emitted,
           UNCHANGED queue, Elsewhere, Filing
    PROVE  \E put : GoesOn(s, put)
<1>1. Puts(s, <<>>) /\ <<>> \in Seq(Events) /\ Plain(<<>>)
  BY SaysNothing
<1>2. GoesOn(s, <<>>)
  BY <1>1 DEF GoesOn, At, Log, State, Sent
<1>3. QED
  BY <1>2

LEMMA DeclarationGoesOn ==
    ASSUME StreamInv, NEW s \in Segments, DeclarationEnds(s)
    PROVE  (\E put : GoesOn(s, put)) \/ \E row : Adds(s, row)
<1>1. TypeOK
  BY DEF StreamInv
<1>2. /\ At(s, {"calling"}) /\ Call(s).purpose = "declare" /\ stream' = Inspected(s)
      /\ UNCHANGED queue /\ Elsewhere /\ Filing
  BY DEF DeclarationEnds
<1> DEFINE row == Row("contract", "contract_declared")
<1>3. PICK known \in {State(s), With(State(s), row)} : Answered(s, "introducing", known)
  BY DEF DeclarationEnds
<1>4. row \in Rows /\ row.kind = "contract_declared" /\ State(s) \in States
  BY <1>1, WorkerTypes DEF Rows, Row
<1> HIDE DEF row
<1>5. known \in States /\ (known.events = Log(s) \/ known.events = Append(Log(s), row))
  BY <1>3, <1>4, WithFacts DEF Log
<1>6. Alone(s) /\ worker'[s].at = "introducing" /\ worker'[s].state = known
  BY <1>1, <1>3, <1>5, AnsweredFacts
<1>7. /\ ~InNode(s) /\ ~InNode(s)' /\ InNode(s)' = InNode(s) /\ worker[s].at \in Running \ {"filing"}
      /\ worker'[s].at \in Running
  BY <1>2, <1>6 DEF InNode, At, Running
<1>8. \A r \in Segments : stream'[r].emitted = stream[r].emitted
  BY <1>1, <1>2, InspectedFacts
<1>9. CASE known.events = Log(s)
  BY <1>1, <1>2, <1>6, <1>7, <1>8, <1>9, SilentGoesOn
<1>10. CASE known.events = Append(Log(s), row)
  <2>1. Adds(s, row)
    BY <1>2, <1>4, <1>6, <1>7, <1>8, <1>10 DEF Adds, At, Log, State, Sent
  <2>2. QED
    BY <2>1
<1>11. QED
  BY <1>5, <1>9, <1>10

LEMMA CallEndGoesOn ==
    ASSUME StreamInv, NEW s \in Segments, DecisionArrives(s) \/ CallSettlesTurn(s)
    PROVE  \E put : GoesOn(s, put)
<1>1. TypeOK
  BY DEF StreamInv
<1>2. /\ At(s, {"calling"}) /\ Call(s).purpose # "declare" /\ stream' = Inspected(s)
      /\ UNCHANGED queue /\ Elsewhere /\ Filing
  BY DEF DecisionArrives, CallSettlesTurn
<1>3. State(s) \in States /\ [State(s) EXCEPT !.route = "over"] \in States
      /\ [State(s) EXCEPT !.route = "over"].events = Log(s)
  <2>1. State(s) \in States
    BY <1>1, WorkerTypes
  <2>2. QED
    BY <2>1 DEF States, Log
<1>4. /\ Alone(s) /\ worker'[s].at \in {"deciding", "leaving", "calling"}
      /\ worker'[s].at = "calling" => worker'[s].call.purpose # "declare"
      /\ worker'[s].state.events = Log(s)
  <2>1. CASE DecisionArrives(s)
    <3>1. CASE Answered(s, "deciding", State(s))
      BY <1>1, <1>3, <3>1, AnsweredFacts DEF Log
    <3>2. CASE CallModel(s, "forced", State(s))
      <4>1. /\ Alone(s) /\ worker'[s].at = "calling" /\ worker'[s].state = State(s)
            /\ worker'[s].call = [purpose |-> "forced", attempt |-> 1,
                                  number |-> Call(s).number + 1]
        BY <1>1, <1>3, <3>2, CallModelFacts
      <4>2. QED
        BY <4>1 DEF Log
    <3>3. Answered(s, "deciding", State(s)) \/ CallModel(s, "forced", State(s))
      BY <2>1 DEF DecisionArrives
    <3>4. QED
      BY <3>1, <3>2, <3>3
  <2>2. CASE CallSettlesTurn(s)
    BY <1>1, <1>3, <2>2, AnsweredFacts DEF CallSettlesTurn
  <2>3. QED
    BY <2>1, <2>2
<1>5. \A r \in Segments : stream'[r].emitted = stream[r].emitted
  BY <1>1, <1>2, InspectedFacts
<1>6. /\ InNode(s) /\ InNode(s)' /\ worker[s].at \in Running \ {"filing"}
      /\ worker'[s].at \in Running
  BY <1>2, <1>4 DEF InNode, At, Running, Call
<1>7. QED
  BY <1>1, <1>2, <1>4, <1>5, <1>6, SilentGoesOn

LEMMA EnterAdds ==
    ASSUME StreamInv, NEW s \in Segments, EnterNode(s)
    PROVE  \E row : Adds(s, row)
<1> DEFINE row == Row(NodeOf(State(s)), "node_entered")  new == With(State(s), row)
           state == Enters(State(s))
<1>1. TypeOK /\ State(s) \in States
  BY WorkerTypes DEF StreamInv
<1>2. /\ At(s, {"loop"}) /\ State(s).route \in Nodes /\ State(s).steps < MaxSteps
      /\ Quietly /\ Elsewhere /\ Filing
  BY DEF EnterNode, Nodes
<1>3. row \in Rows /\ row.kind = "node_entered"
  BY <1>2 DEF Rows, Row, NodeOf
<1>4. state \in States
  BY <1>1, <1>2, EntersFacts
<1>5. state = [new EXCEPT !.steps = @ + 1]
  BY DEF Enters
<1> HIDE DEF row
<1>6. new \in States /\ new.events = Append(Log(s), row)
  BY <1>1, <1>3, WithFacts DEF Log
<1> HIDE DEF new
<1>7. state.events = Append(Log(s), row)
  BY <1>5, <1>6 DEF States
<1>8. /\ Alone(s) /\ worker'[s].state = state /\ InNode(s)'
      /\ worker'[s].at \in {"calling", "call_tool", "retrieve"}
  <2>1. CASE State(s).route \in {"start", "think"}
    <3>1. CallModel(s, "decide", state)
      BY <2>1 DEF EnterNode
    <3> HIDE DEF state
    <3>2. /\ Alone(s) /\ worker'[s].at = "calling" /\ worker'[s].state = state
          /\ worker'[s].call = [purpose |-> "decide", attempt |-> 1,
                                number |-> Call(s).number + 1]
      BY <1>1, <1>4, <3>1, CallModelFacts
    <3>3. QED
      BY <3>2 DEF InNode, At, Call
  <2>2. CASE State(s).route \notin {"start", "think"}
    <3> DEFINE at == State(s).route
    <3>1. worker' = [worker EXCEPT ![s].at = at, ![s].state = state]
      BY <2>2 DEF EnterNode
    <3>2. at \in Places /\ at \in {"call_tool", "retrieve"}
      BY <1>2, <2>2 DEF Nodes, Places, Running
    <3> HIDE DEF state, at
    <3>3. Alone(s) /\ worker'[s].at = at /\ worker'[s].state = state
      BY <1>1, <1>4, <3>1, <3>2, GoesWithFacts
    <3>4. QED
      BY <3>2, <3>3 DEF InNode, At
  <2>3. QED
    BY <2>1, <2>2
<1> HIDE DEF state
<1>9. /\ At(s, Running \ {"filing"}) /\ At(s, Running)' /\ ~InNode(s)
      /\ Log(s)' = Append(Log(s), row)
  BY <1>2, <1>7, <1>8 DEF At, Running, InNode, Log, State
<1>10. Adds(s, row)
  BY <1>2, <1>3, <1>8, <1>9 DEF Adds, Quietly, Sent
<1>11. QED
  BY <1>10

LEMMA StopGoesOn ==
    ASSUME StreamInv, NEW s \in Segments, EngineStops(s)
    PROVE  \E put : GoesOn(s, put)
<1>1. TypeOK
  BY DEF StreamInv
<1>2. /\ At(s, {"loop"}) /\ Goes(s, "consolidating") /\ Quietly /\ Elsewhere /\ Filing
  BY DEF EngineStops
<1>3. /\ Alone(s) /\ worker'[s].at = "consolidating" /\ worker'[s].state = State(s)
  BY <1>1, <1>2, GoesFacts DEF Places, Running
<1>4. /\ InNode(s)' = InNode(s) /\ worker[s].at \in Running \ {"filing"}
      /\ worker'[s].at \in Running /\ worker'[s].state.events = Log(s)
  BY <1>2, <1>3 DEF InNode, At, Running, Log
<1>5. QED
  BY <1>1, <1>2, <1>3, <1>4, SilentGoesOn DEF Quietly

LEMMA NodeGoesOn ==
    ASSUME StreamInv, NEW s \in Segments, Decide(s) \/ Retrieved(s)
    PROVE  \E put : GoesOn(s, put)
<1>1. TypeOK /\ State(s) \in States
  BY WorkerTypes DEF StreamInv
<1>2. /\ worker[s].at \in {"deciding", "retrieve"} /\ InNode(s)
      /\ Quietly /\ Elsewhere /\ Filing
  BY DEF Decide, Retrieved, InNode, At
<1>3. /\ Alone(s) /\ worker'[s].at \in {"leaving", "calling"}
      /\ worker'[s].at = "calling" => worker'[s].call.purpose # "declare"
      /\ worker'[s].state.events = Log(s)
  <2>1. ASSUME NEW route \in Nodes \cup {"over", "paused"}, Leads(s, route)
        PROVE  Alone(s) /\ worker'[s].at = "leaving" /\ worker'[s].state.events = Log(s)
    BY <1>1, <2>1, LeadsFacts
  <2>2. ASSUME NEW purpose \in {"redirect", "compose"}, NEW state \in States,
               state.events = Log(s), CallModel(s, purpose, state)
        PROVE  /\ Alone(s) /\ worker'[s].at = "calling"
               /\ worker'[s].call.purpose # "declare" /\ worker'[s].state.events = Log(s)
    <3>1. /\ Alone(s) /\ worker'[s].at = "calling" /\ worker'[s].state = state
          /\ worker'[s].call = [purpose |-> purpose, attempt |-> 1,
                                number |-> Call(s).number + 1]
      BY <1>1, <2>2, CallModelFacts
    <3>2. purpose # "declare"
      OBVIOUS
    <3>3. QED
      BY <2>2, <3>1, <3>2
  <2>3. State(s).events = Log(s)
    BY DEF Log
  <2> DEFINE again == [State(s) EXCEPT !.redirected = TRUE]
  <2>4. again \in States /\ again.events = Log(s)
    BY <1>1 DEF States, Log
  <2>5. \/ \E route \in Nodes \cup {"over", "paused"} : Leads(s, route)
        \/ CallModel(s, "redirect", again) \/ CallModel(s, "compose", State(s))
    BY DEF Decide, Retrieved, Nodes
  <2> HIDE DEF again
  <2>6. QED
    BY <1>1, <2>1, <2>2, <2>3, <2>4, <2>5
<1>4. /\ InNode(s)' /\ InNode(s)' = InNode(s) /\ worker[s].at \in Running \ {"filing"}
      /\ worker'[s].at \in Running
  BY <1>2, <1>3 DEF InNode, At, Running, Call
<1>5. QED
  BY <1>1, <1>2, <1>3, <1>4, SilentGoesOn DEF Quietly

LEMMA GateGoesOn ==
    ASSUME StreamInv, NEW s \in Segments, Preflight(s) \/ RunTool(s)
    PROVE  \E put : GoesOn(s, put)
<1> DEFINE e == LiveRow(s)  put == <<e>>
<1>1. TypeOK /\ NodeInv(s)
  BY DEF StreamInv
<1>2. /\ worker[s].at \in {"deciding", "call_tool"} /\ InNode(s) /\ Elsewhere /\ Filing
      /\ UNCHANGED stream /\ Puts(s, put)
      /\ \E route \in {"think", "call_tool", "over", "paused"} : Leads(s, route)
  BY DEF Preflight, RunTool, InNode, At, Put, Puts
<1>3. put \in Seq(Events) /\ Plain(put)
  <2>1. put \in Seq(Events) /\ DOMAIN put = {1} /\ put[1] = e /\ e.type = "live"
    BY <1>1, <1>2, LiveRowFacts
  <2> HIDE DEF put, e
  <2>2. IsPlain(e) /\ e # Started(FALSE)
    BY <2>1 DEF IsPlain, IsRow, IsStep, Verdicts, Started
  <2>3. QED
    BY <2>1, <2>2 DEF Plain
<1> HIDE DEF put
<1>4. Alone(s) /\ worker'[s].at = "leaving" /\ worker'[s].state.events = Log(s)
  BY <1>1, <1>2, LeadsFacts DEF Nodes
<1>5. /\ At(s, Running \ {"filing"}) /\ At(s, Running)' /\ Log(s)' = Log(s)
      /\ InNode(s)' = InNode(s)
  BY <1>2, <1>4 DEF At, Running, Log, State, InNode
<1>6. GoesOn(s, put)
  BY <1>2, <1>3, <1>4, <1>5 DEF GoesOn, Sent
<1>7. QED
  BY <1>6

LEMMA SearchGoesOn ==
    ASSUME StreamInv, NEW s \in Segments, SearchOnce(s)
    PROVE  \E put : GoesOn(s, put)
<1>1. TypeOK
  BY DEF StreamInv
<1>2. /\ At(s, {"retrieve"}) /\ worker[s].searches < MaxQueries
      /\ stream' = Searched(s) /\ UNCHANGED queue /\ Elsewhere /\ Filing
  BY DEF SearchOnce
<1>3. Alone(s) /\ worker'[s].at = "retrieve" /\ worker'[s].state = State(s)
  <2> DEFINE w == [worker[s] EXCEPT !.searches = worker[s].searches + 1]
  <2>1. worker \in [Segments -> Workers] /\ worker[s] \in Workers
    BY <1>1, WorkerTypes DEF TypeOK
  <2>2. worker' = [worker EXCEPT ![s] = w]
    BY <2>1 DEF SearchOnce
  <2>3. worker[s].searches + 1 \in 0..MaxQueries
    BY <1>2, <2>1, StreamAssumption DEF Workers
  <2>4. w \in Workers /\ w.at = worker[s].at /\ w.state = State(s)
    BY <2>1, <2>3 DEF Workers, State
  <2> HIDE DEF w
  <2>5. QED
    BY <1>1, <1>2, <2>2, <2>4, Becomes DEF At
<1>4. \A r \in Segments : stream'[r].emitted = stream[r].emitted
  <2>1. stream \in [Segments -> Streams] /\ \A r \in Segments : stream[r] \in Streams
    BY <1>1 DEF TypeOK
  <2>2. QED
    BY <1>2, <2>1 DEF Searched, Streams
<1>5. /\ InNode(s)' = InNode(s) /\ worker[s].at \in Running \ {"filing"}
      /\ worker'[s].at \in Running /\ worker'[s].state.events = Log(s)
  BY <1>2, <1>3 DEF InNode, At, Running, Log
<1>6. QED
  BY <1>1, <1>2, <1>3, <1>4, <1>5, SilentGoesOn

LEMMA IntroduceGoesOn ==
    ASSUME StreamInv, NEW s \in Segments, Introduce(s)
    PROVE  \E put : GoesOn(s, put)
<1> DEFINE event == ContextEvent(s)  put == Append(<<>>, event)
           after == [emitted |-> stream[s].emitted, last |-> State(s).steps,
                     calls |-> <<>>, search |-> 0]
<1>1. TypeOK /\ stream \in [Segments -> Streams] /\ stream[s].calls \in Seq(Steps)
  BY WorkerTypes DEF StreamInv, TypeOK
<1>2. /\ At(s, {"introducing"}) /\ Puts(s, put) /\ stream' = [stream EXCEPT ![s] = after]
      /\ Elsewhere /\ Filing
  BY DEF Introduce, ShowContext, Put, Puts
<1>3. event \in Events /\ event.type = "context"
  BY <1>1, EventForms DEF ContextEvent
<1> HIDE DEF event
<1>4. put = <<event>>
  OBVIOUS
<1>5. put \in Seq(Events) /\ Plain(put)
  BY <1>3, <1>4, SaysOne DEF IsPlain, IsRow, IsStep, Verdicts, Started
<1>6. \A r \in Segments : stream'[r].emitted = stream[r].emitted
  <2>1. after.emitted = stream[s].emitted
    OBVIOUS
  <2> HIDE DEF after
  <2>2. QED
    BY <1>1, <1>2, <2>1
<1>7. Alone(s) /\ worker'[s].at = "loop" /\ worker'[s].state = State(s)
  <2>1. Goes(s, "loop")
    BY DEF Introduce, Goes
  <2>2. QED
    BY <1>1, <2>1, GoesFacts DEF Places, Running
<1> HIDE DEF put, after
<1>8. /\ At(s, Running \ {"filing"}) /\ At(s, Running)' /\ Log(s)' = Log(s)
      /\ InNode(s)' = InNode(s)
  BY <1>2, <1>7 DEF At, Running, Log, State, InNode
<1>9. GoesOn(s, put)
  BY <1>2, <1>5, <1>6, <1>7, <1>8 DEF GoesOn, Sent
<1>10. QED
  BY <1>9

LEMMA ConsolidateGoesOn ==
    ASSUME StreamInv, NEW s \in Segments, Consolidate(s)
    PROVE  (\E put : GoesOn(s, put)) \/ \E row : Adds(s, row)
<1>1. TypeOK /\ State(s) \in States
  BY WorkerTypes DEF StreamInv
<1>2. /\ At(s, {"consolidating"}) /\ Quietly /\ Elsewhere /\ Filing
  BY DEF Consolidate
<1>3. CASE Goes(s, "filing")
  <2>1. Alone(s) /\ worker'[s].at = "filing" /\ worker'[s].state = State(s)
    BY <1>1, <1>3, GoesFacts DEF Places, Running
  <2>2. /\ InNode(s)' = InNode(s) /\ worker[s].at \in Running \ {"filing"}
        /\ worker'[s].at \in Running /\ worker'[s].state.events = Log(s)
    BY <1>2, <2>1 DEF InNode, At, Running, Log
  <2>3. QED
    BY <1>1, <1>2, <2>1, <2>2, SilentGoesOn DEF Quietly
<1> DEFINE row == Row("memory", "memory_written")
<1>4. CASE /\ ~Paused(State(s))
           /\ worker' = [worker EXCEPT ![s].at = "filing", ![s].state = With(@, row)]
  <2>1. row \in Rows /\ row.kind = "memory_written"
    BY DEF Rows, Row
  <2> DEFINE state == With(State(s), row)
  <2>2. worker' = [worker EXCEPT ![s].at = "filing", ![s].state = state]
    <3>1. worker \in [Segments -> Workers] /\ worker[s] \in Workers
      BY <1>1, WorkerTypes DEF TypeOK
    <3>2. QED
      BY <1>4, <3>1 DEF State, Workers
  <2> HIDE DEF row
  <2>3. state \in States /\ state.events = Append(Log(s), row) /\ state.route = State(s).route
    BY <1>1, <2>1, WithFacts DEF Log
  <2> HIDE DEF state
  <2>4. Alone(s) /\ worker'[s].at = "filing" /\ worker'[s].state = state
    BY <1>1, <2>2, <2>3, GoesWithFacts DEF Places, Running
  <2>5. /\ At(s, Running \ {"filing"}) /\ At(s, Running)' /\ At(s, {"filing"})'
        /\ ~InNode(s) /\ ~InNode(s)' /\ ~Paused(State(s))'
        /\ Log(s)' = Append(Log(s), row)
    BY <1>2, <1>4, <2>3, <2>4 DEF At, Running, InNode, Log, State, Paused
  <2>6. Adds(s, row)
    BY <1>2, <2>1, <2>4, <2>5 DEF Adds, Quietly, Sent
  <2>7. QED
    BY <2>6
<1>5. QED
  BY <1>3, <1>4 DEF Consolidate

(***************************************************************************)
(* A step that is shown.                                                   *)
(***************************************************************************)
Tells(s, node, state) ==
    /\ Alone(s) /\ At(s, Running \ {"filing"}) /\ At(s, Running)' /\ ~InNode(s)'
    /\ node \in Nodes \cup {"none"} /\ state \in States /\ State(s)' = state
    /\ Append(NewRows(s, state.events), StepEvent(s, node, state)) \in Seq(Events)
    /\ Puts(s, Append(NewRows(s, state.events), StepEvent(s, node, state)))
    /\ Sent(s) <= Len(state.events) /\ Sent(s)' = Len(state.events)
    /\ \A r \in Segments \ {s} : Sent(r)' = Sent(r)
    /\ Elsewhere /\ Filing
    /\ \/ /\ InNode(s) /\ node = NodeAtWork(State(s))
          /\ state.events = Append(Log(s), Row(node, "node_exited"))
       \/ ~InNode(s) /\ node = "none" /\ state.events = Log(s)
       \/ /\ ~InNode(s) /\ node = "none"
          /\ \E row \in Rows : /\ row.kind \in {"approval_recorded", "run_failed"}
                               /\ state.events = Append(Log(s), row)

\* What ShowStep does to the stream and the queue.
LEMMA StepPut ==
    ASSUME TypeOK, NEW s \in Segments, NEW node \in Nodes \cup {"none"}, NEW state \in States,
           ShowStep(s, node, state), ShownWhereMade(StepEvent(s, node, state)),
           At(s, Running),
           state.events = Log(s) \/ \E row \in Rows : state.events = Append(Log(s), row)
    PROVE  /\ Append(NewRows(s, state.events), StepEvent(s, node, state)) \in Seq(Events)
           /\ Puts(s, Append(NewRows(s, state.events), StepEvent(s, node, state)))
           /\ Sent(s) <= Len(state.events) /\ Sent(s)' = Len(state.events)
           /\ \A r \in Segments \ {s} : Sent(r)' = Sent(r)
<1> DEFINE event == StepEvent(s, node, state)
<1>1. /\ Log(s) \in Seq(Rows) /\ stream[s].emitted \in Nat
      /\ state.events \in Seq(Rows) /\ state.steps \in Steps
      /\ stream[s].calls \in Seq(Steps) /\ stream[s].search \in Steps
  BY WorkerTypes DEF States
<1>2. stream[s].emitted <= Len(Log(s))
  BY <1>1 DEF TypeOK, At, Log, Running
<1>3. stream[s].emitted <= Len(state.events)
  <2>1. CASE state.events = Log(s)
    BY <1>1, <1>2, <2>1
  <2>2. ASSUME NEW row \in Rows, state.events = Append(Log(s), row)
        PROVE  stream[s].emitted <= Len(state.events)
    BY <1>1, <1>2, <2>2
  <2>3. QED
    BY <2>1, <2>2
<1>4. Drains(s, state)
  BY <1>3, ShowStepFacts
<1>5. event \in Events /\ event.type \notin {"row", "token", "end"}
  <2>1. event = [type |-> "step", node |-> node, ordinal |-> state.steps,
                 calls |-> stream[s].calls, search |-> stream[s].search]
    BY DEF StepEvent
  <2>2. QED
    BY <1>1, <2>1, EventForms
<1> HIDE DEF event
<1>6. Append(NewRows(s, state.events), event) \in Seq(Events)
  BY <1>1, <1>3, <1>5, RowsThenEvent
<1>7. Puts(s, Append(NewRows(s, state.events), event))
  BY DEF ShowStep, Put, Puts, event
<1>8. QED
  BY <1>3, <1>4, <1>6, <1>7 DEF Drains, Sent, event

LEMMA LeavingTells ==
    ASSUME StreamInv, NEW s \in Segments, LeaveNode(s)
    PROVE  \E node, state : Tells(s, node, state)
<1> DEFINE node == NodeAtWork(State(s))
           row == Row(node, "node_exited")  state == With(State(s), row)
<1>1. TypeOK /\ NodeInv(s) /\ State(s) \in States
  BY WorkerTypes DEF StreamInv
<1>2. /\ At(s, {"leaving"}) /\ InNode(s) /\ ShowStep(s, node, state) /\ Elsewhere /\ Filing
      /\ worker' = [worker EXCEPT ![s].at = "loop", ![s].state = state, ![s].searches = 0]
  BY DEF LeaveNode, InNode, At
<1>3. node \in Nodes
  BY <1>1, <1>2, NodeAtWorkIsANode DEF NodeInv, Log
<1>4. node = NodeAtWork(State(s))
  OBVIOUS
<1> HIDE DEF node
<1>5. row \in Rows
  BY <1>3 DEF Rows, Row
<1>6. row = Row(node, "node_exited")
  OBVIOUS
<1> HIDE DEF row
<1>7. state \in States /\ state.events = Append(Log(s), row) /\ state.steps = State(s).steps
  BY <1>1, <1>5, WithFacts DEF Log
<1> HIDE DEF state
<1>8. ShownWhereMade(StepEvent(s, node, state))
  <2>1. node # "none"
    BY <1>3 DEF Nodes
  <2>2. QED
    BY <1>1, <1>2, <1>7, <2>1 DEF NodeInv, StepEvent, ShownWhereMade
<1>9. Alone(s) /\ worker'[s].at = "loop" /\ worker'[s].state = state
  <2> DEFINE w == [worker[s] EXCEPT !.at = "loop", !.state = state, !.searches = 0]
  <2>1. worker \in [Segments -> Workers] /\ worker[s] \in Workers
    BY <1>1, WorkerTypes DEF TypeOK
  <2>2. worker' = [worker EXCEPT ![s] = w]
    BY <1>2, <2>1
  <2>3. w \in Workers /\ w.at = "loop" /\ w.state = state
    <3>1. 0 \in 0..MaxQueries /\ "loop" \in Places
      BY StreamAssumption DEF Places, Running
    <3>2. QED
      BY <1>7, <2>1, <3>1 DEF Workers
  <2> HIDE DEF w
  <2>4. QED
    BY <1>1, <2>2, <2>3, Becomes
<1>10. /\ At(s, Running \ {"filing"}) /\ At(s, Running)' /\ ~InNode(s)' /\ State(s)' = state
       /\ At(s, Running)
  BY <1>2, <1>9 DEF At, Running, InNode, State
<1>11. /\ Append(NewRows(s, state.events), StepEvent(s, node, state)) \in Seq(Events)
       /\ Puts(s, Append(NewRows(s, state.events), StepEvent(s, node, state)))
       /\ Sent(s) <= Len(state.events) /\ Sent(s)' = Len(state.events)
       /\ \A r \in Segments \ {s} : Sent(r)' = Sent(r)
  BY <1>1, <1>2, <1>3, <1>5, <1>7, <1>8, <1>10, StepPut
<1>12. Tells(s, node, state)
  BY <1>2, <1>3, <1>4, <1>6, <1>7, <1>9, <1>10, <1>11 DEF Tells
<1>13. QED
  BY <1>12

\* A step outside the nodes.
LEMMA OutsideTells ==
    ASSUME StreamInv, NEW s \in Segments, NEW state \in States, NEW at,
           At(s, {"loop", "recording", "denying"}), at \in {"loop", "denying", "consolidating"},
           ShowStep(s, "none", state), Elsewhere, Filing,
           worker' = [worker EXCEPT ![s].at = at, ![s].state = state],
           \/ state.events = Log(s)
           \/ \E row \in Rows : /\ row.kind \in {"approval_recorded", "run_failed"}
                                /\ state.events = Append(Log(s), row)
    PROVE  Tells(s, "none", state)
<1>1. TypeOK /\ NodeInv(s)
  BY DEF StreamInv
<1>2. ShownWhereMade(StepEvent(s, "none", state))
  BY <1>1, NothingHeld
<1>3. Alone(s) /\ worker'[s].at = at /\ worker'[s].state = state
  BY <1>1, GoesWithFacts DEF Places, Running
<1>4. /\ At(s, Running \ {"filing"}) /\ At(s, Running)' /\ ~InNode(s)' /\ State(s)' = state
      /\ At(s, Running) /\ ~InNode(s)
  BY <1>3 DEF At, Running, InNode, State
<1>5. /\ Append(NewRows(s, state.events), StepEvent(s, "none", state)) \in Seq(Events)
      /\ Puts(s, Append(NewRows(s, state.events), StepEvent(s, "none", state)))
      /\ Sent(s) <= Len(state.events) /\ Sent(s)' = Len(state.events)
      /\ \A r \in Segments \ {s} : Sent(r)' = Sent(r)
  <2>1. "none" \in Nodes \cup {"none"}
    OBVIOUS
  <2>2. state.events = Log(s) \/ \E row \in Rows : state.events = Append(Log(s), row)
    OBVIOUS
  <2>3. QED
    BY <1>1, <1>2, <1>4, <2>1, <2>2, StepPut
<1>6. QED
  BY <1>3, <1>4, <1>5 DEF Tells

LEMMA ExhaustingTells ==
    ASSUME StreamInv, NEW s \in Segments, OutOfBudget(s)
    PROVE  \E node, state : Tells(s, node, state)
<1> DEFINE row == Row("engine", "run_failed")  new == With(State(s), row)
           state == [new EXCEPT !.route = "over"]
<1>1. State(s) \in States
  BY WorkerTypes DEF StreamInv
<1>2. /\ At(s, {"loop"}) /\ ShowStep(s, "none", state) /\ Elsewhere /\ Filing
      /\ worker' = [worker EXCEPT ![s].at = "consolidating", ![s].state = state]
  BY DEF OutOfBudget
<1>3. row \in Rows /\ row.kind = "run_failed"
  BY DEF Rows, Row
<1> HIDE DEF row
<1>4. new \in States /\ new.events = Append(Log(s), row)
  BY <1>1, <1>3, WithFacts DEF Log
<1> HIDE DEF new
<1>5. state \in States /\ state.events = Append(Log(s), row)
  BY <1>4 DEF States
<1> HIDE DEF state
<1>6. At(s, {"loop", "recording", "denying"})
  BY <1>2 DEF At
<1>7. Tells(s, "none", state)
  BY <1>2, <1>3, <1>5, <1>6, OutsideTells
<1>8. QED
  BY <1>7

LEMMA DenyingTells ==
    ASSUME StreamInv, NEW s \in Segments, Deny(s)
    PROVE  \E node, state : Tells(s, node, state)
<1> DEFINE state == [State(s) EXCEPT !.route = "over"]
<1>1. State(s) \in States
  BY WorkerTypes DEF StreamInv
<1>2. /\ At(s, {"denying"}) /\ ShowStep(s, "none", state) /\ Elsewhere /\ Filing
      /\ worker' = [worker EXCEPT ![s].at = "consolidating", ![s].state = state]
  BY DEF Deny
<1>3. state \in States /\ state.events = Log(s)
  BY <1>1 DEF States, Log
<1> HIDE DEF state
<1>4. At(s, {"loop", "recording", "denying"})
  BY <1>2 DEF At
<1>5. Tells(s, "none", state)
  BY <1>2, <1>3, <1>4, OutsideTells
<1>6. QED
  BY <1>5

LEMMA RecordingTells ==
    ASSUME StreamInv, NEW s \in Segments, RecordDecision(s)
    PROVE  \E node, state : Tells(s, node, state)
<1> DEFINE row == Row("approval", "approval_recorded")  new == With(State(s), row)
           state(verdict) == [new EXCEPT !.route = verdict]
<1>1. State(s) \in States
  BY WorkerTypes DEF StreamInv
<1>2. At(s, {"loop", "recording", "denying"}) /\ Elsewhere /\ Filing
  BY DEF RecordDecision, At
<1>3. PICK verdict \in {"call_tool", "denying"} :
        /\ ShowStep(s, "none", state(verdict))
        /\ worker' = [worker EXCEPT ![s].at = IF verdict = "denying" THEN "denying" ELSE "loop",
                                    ![s].state = state(verdict)]
  BY DEF RecordDecision
<1>4. row \in Rows /\ row.kind = "approval_recorded"
  BY DEF Rows, Row
<1> HIDE DEF row
<1>5. new \in States /\ new.events = Append(Log(s), row)
  BY <1>1, <1>4, WithFacts DEF Log
<1> HIDE DEF new
<1> DEFINE st == state(verdict)  at == IF verdict = "denying" THEN "denying" ELSE "loop"
<1>6. st \in States /\ st.events = Append(Log(s), row)
  BY <1>5 DEF States, Nodes
<1>7. ShowStep(s, "none", st) /\ worker' = [worker EXCEPT ![s].at = at, ![s].state = st]
  BY <1>3
<1>8. at \in {"loop", "denying", "consolidating"}
  OBVIOUS
<1> HIDE DEF st, at
<1>9. Tells(s, "none", st)
  BY <1>2, <1>4, <1>6, <1>7, <1>8, OutsideTells
<1>10. QED
  BY <1>9

(***************************************************************************)
(* The shape of the log is kept.                                           *)
(***************************************************************************)
LEMMA ShapeKept ==
    ASSUME ShapeInv, NEW s \in Segments, Alone(s), ShapeOf(s)', filed' = filed,
           pause' = pause \/ ~Paused(pause')
    PROVE  ShapeInv'
<1>1. ASSUME NEW r \in Segments PROVE ShapeOf(r)'
  <2>1. CASE r = s
    BY <2>1
  <2>2. CASE r # s
    <3>1. worker'[r] = worker[r] /\ ShapeOf(r)
      BY <2>2 DEF Alone, ShapeInv
    <3>2. QED
      BY <3>1 DEF ShapeOf, Log, State, At, InNode, Call
  <2>3. QED
    BY <2>1, <2>2
<1>2. QED
  BY <1>1 DEF ShapeInv

LEMMA NoLog == LogShape(<<>>) /\ \A kinds : ~EndsIn(<<>>, kinds)
<1>1. DOMAIN <<>> = {}
  OBVIOUS
<1>2. QED
  BY <1>1 DEF LogShape, EndsIn

\* A thread that does not have the run, or gives it up.
LEMMA IdleShape ==
    ASSUME ShapeInv, NEW s \in Segments, worker'[s].state.events = Log(s),
           worker'[s].at \notin Running
    PROVE  ShapeOf(s)'
<1>1. ShapeOf(s)
  BY DEF ShapeInv
<1>2. Log(s)' = Log(s) /\ ~At(s, Running)'
  BY DEF Log, State, At
<1>3. QED
  BY <1>1, <1>2 DEF ShapeOf

LEMMA GoesOnShape ==
    ASSUME ShapeInv, NEW s \in Segments, NEW put, GoesOn(s, put)
    PROVE  ShapeInv'
<1>1. ShapeOf(s)
  BY DEF ShapeInv
<1>2. /\ At(s, Running) /\ ~At(s, {"filing"})
  BY DEF GoesOn, At
<1>3. Log(s)' = Log(s) /\ InNode(s)' = InNode(s) /\ At(s, Running)' /\ Alone(s)
      /\ pause' = pause /\ filed' = filed
  BY DEF GoesOn, Filing
<1>4. ShapeOf(s)'
  BY <1>1, <1>2, <1>3 DEF ShapeOf
<1>5. QED
  BY <1>3, <1>4, ShapeKept

LEMMA AddsShape ==
    ASSUME TypeOK, ShapeInv, NEW s \in Segments, NEW row, Adds(s, row)
    PROVE  ShapeInv'
<1>1. ShapeOf(s) /\ Log(s) \in Seq(Rows)
  BY WorkerTypes DEF ShapeInv
<1>2. /\ Alone(s) /\ At(s, Running) /\ ~At(s, {"filing"}) /\ At(s, Running)' /\ row \in Rows
      /\ ~InNode(s) /\ row.kind \in {"contract_declared", "memory_written", "node_entered"}
      /\ Log(s)' = Append(Log(s), row)
      /\ InNode(s)' <=> row.kind = "node_entered"
      /\ row.kind = "memory_written" => At(s, {"filing"})' /\ ~Paused(State(s))'
      /\ pause' = pause /\ filed' = filed
  BY DEF Adds, At, Filing
<1>3. /\ LogShape(Log(s)) /\ ~EndsIn(Log(s), {"memory_written"})
      /\ ~EndsIn(Log(s), {"node_entered"})
  BY <1>1, <1>2 DEF ShapeOf
<1>4. LogShape(Append(Log(s), row))
  BY <1>1, <1>2, <1>3, ShapeGrows
<1>5. \A kinds : EndsIn(Append(Log(s), row), kinds) <=> row.kind \in kinds
  BY <1>1, <1>2, LogGrows
<1>6. ShapeOf(s)'
  <2>1. LogShape(Log(s))'
    BY <1>2, <1>4
  <2>2. EndsIn(Log(s), {"node_entered"})' <=> row.kind = "node_entered"
    BY <1>2, <1>5
  <2>3. EndsIn(Log(s), {"memory_written"})' <=> row.kind = "memory_written"
    BY <1>2, <1>5
  <2>4. QED
    BY <1>2, <2>1, <2>2, <2>3 DEF ShapeOf
<1>7. QED
  BY <1>2, <1>6, ShapeKept

\* The node at work is the one the last row entered.
LEMMA NodeEnteredLast ==
    ASSUME NEW state \in States, EndsIn(state.events, {"node_entered"})
    PROVE  state.events[Len(state.events)] = Row(NodeAtWork(state), "node_entered")
<1> DEFINE events == state.events  l == Len(events)
           entered == {i \in DOMAIN events : events[i].kind = "node_entered"}
<1>1. events \in Seq(Rows)
  BY DEF States
<1>2. l \in Nat /\ DOMAIN events = 1..l /\ events # <<>> /\ events[l].kind = "node_entered"
  BY <1>1 DEF EndsIn
<1>3. l # 0
  BY <1>1, <1>2
<1> HIDE DEF l
<1>4. l \in DOMAIN events /\ events[l] \in Rows
  BY <1>1, <1>2, <1>3
<1>5. l \in entered /\ entered \subseteq 1..l
  BY <1>2, <1>4
<1> HIDE DEF entered
<1>6. ASSUME NEW x \in entered, \A y \in entered : x >= y PROVE x = l
  <2>1. x \in 1..l /\ x >= l
    BY <1>5, <1>6
  <2>2. QED
    BY <1>2, <2>1
<1>7. l \in entered /\ \A y \in entered : l >= y
  BY <1>2, <1>5
<1>8. Max(entered) = l
  BY <1>6, <1>7 DEF Max
<1>9. NodeAtWork(state) = events[l].node
  BY <1>8, Zenon DEF NodeAtWork, entered
<1>10. events[l] = [node |-> events[l].node, kind |-> events[l].kind]
  BY <1>4 DEF Rows
<1>11. QED
  BY <1>2, <1>9, <1>10 DEF Row, l

LEMMA TellsShape ==
    ASSUME TypeOK, ShapeInv, NEW s \in Segments, NEW node, NEW state, Tells(s, node, state)
    PROVE  ShapeInv'
<1>1. ShapeOf(s) /\ Log(s) \in Seq(Rows) /\ State(s) \in States
  BY WorkerTypes DEF ShapeInv
<1>2. /\ Alone(s) /\ At(s, Running) /\ ~At(s, {"filing"}) /\ At(s, Running)' /\ ~InNode(s)'
      /\ Log(s)' = state.events /\ pause' = pause /\ filed' = filed
      /\ node \in Nodes \cup {"none"}
  BY DEF Tells, At, Filing, Log
<1>3. /\ LogShape(Log(s)) /\ ~EndsIn(Log(s), {"memory_written"})
      /\ EndsIn(Log(s), {"node_entered"}) <=> InNode(s)
  BY <1>1, <1>2 DEF ShapeOf
<1>4. ASSUME NEW row \in Rows, state.events = Append(Log(s), row),
             EndsIn(Log(s), {"node_entered"}) => row.kind = "node_exited",
             row.kind = "node_exited" =>
                Log(s) # <<>> /\ Log(s)[Len(Log(s))] = Row(row.node, "node_entered"),
             row.kind \notin {"node_entered", "memory_written"}
      PROVE  ShapeOf(s)'
  <2>1. LogShape(Append(Log(s), row))
    BY <1>1, <1>3, <1>4, ShapeGrows
  <2>2. \A kinds : EndsIn(Append(Log(s), row), kinds) <=> row.kind \in kinds
    BY <1>1, LogGrows
  <2>3. LogShape(Log(s))'
    BY <1>2, <1>4, <2>1
  <2>4. ~EndsIn(Log(s), {"node_entered"})' /\ ~EndsIn(Log(s), {"memory_written"})'
    BY <1>2, <1>4, <2>2
  <2>5. QED
    BY <1>2, <2>3, <2>4 DEF ShapeOf
<1>5. CASE /\ InNode(s) /\ node = NodeAtWork(State(s))
           /\ state.events = Append(Log(s), Row(node, "node_exited"))
  <2> DEFINE row == Row(node, "node_exited")
  <2>1. Log(s)[Len(Log(s))] = Row(node, "node_entered") /\ Log(s) # <<>>
    BY <1>1, <1>3, <1>5, NodeEnteredLast DEF Log, EndsIn
  <2>2. row.kind = "node_exited" /\ row.node = node
    BY DEF Row
  <2>3. row \in Rows
    <3>1. Log(s)[Len(Log(s))] \in Rows
      <4>1. Len(Log(s)) \in DOMAIN Log(s)
        BY <1>1, <2>1
      <4>2. QED
        BY <1>1, <4>1
    <3>2. node # "none" => node \in Nodes
      BY <1>2
    <3>3. Row(node, "node_entered").node = node /\ Row(node, "node_entered").kind = "node_entered"
      BY DEF Row
    <3>4. node \in Nodes
      BY <2>1, <3>1, <3>3 DEF Rows
    <3>5. QED
      BY <3>4 DEF Rows, Row
  <2>4. state.events = Append(Log(s), row)
    BY <1>5
  <2> HIDE DEF row
  <2>5. ShapeOf(s)'
    BY <1>4, <2>1, <2>2, <2>3, <2>4
  <2>6. QED
    BY <1>2, <2>5, ShapeKept
<1>6. CASE ~InNode(s) /\ state.events = Log(s)
  <2>1. ShapeOf(s)'
    BY <1>1, <1>2, <1>3, <1>6 DEF ShapeOf
  <2>2. QED
    BY <1>2, <2>1, ShapeKept
<1>7. CASE /\ ~InNode(s)
           /\ \E row \in Rows : /\ row.kind \in {"approval_recorded", "run_failed"}
                                /\ state.events = Append(Log(s), row)
  <2>1. PICK row \in Rows : /\ row.kind \in {"approval_recorded", "run_failed"}
                            /\ state.events = Append(Log(s), row)
    BY <1>7
  <2>2. ShapeOf(s)'
    BY <1>3, <1>4, <1>7, <2>1
  <2>3. QED
    BY <1>2, <2>2, ShapeKept
<1>8. QED
  BY <1>5, <1>6, <1>7 DEF Tells

\* A thread that has said its last, or does not have the run yet.
Stands(s) ==
    /\ Alone(s) /\ worker'[s].at \notin Running /\ worker'[s].state = State(s)
    /\ filed' = filed /\ (pause' = pause \/ ~Paused(pause'))

LEMMA StandsShape ==
    ASSUME ShapeInv, NEW s \in Segments, Stands(s)
    PROVE  ShapeInv'
<1>1. ShapeOf(s)'
  BY IdleShape DEF Stands, Log
<1>2. QED
  BY <1>1, ShapeKept DEF Stands

LEMMA ThreadStands ==
    ASSUME StreamInv, NEW s \in Segments,
           Breaks(s) \/ Finish(s) \/ Flush(s) \/ LoseClaim(s) \/ OpenDecision(s)
    PROVE  Stands(s)
<1>1. TypeOK
  BY DEF StreamInv
<1>2. PICK at \in {"closed", "tail", "setup"} : Goes(s, at)
  BY DEF Breaks, Finish, Flush, LoseClaim, OpenDecision
<1>3. at \in Places \ Running
  BY DEF Places, Running
<1>4. Alone(s) /\ worker'[s].at = at /\ worker'[s].state = State(s)
  BY <1>1, <1>2, <1>3, GoesFacts
<1>5. filed' = filed /\ (pause' = pause \/ ~Paused(pause'))
  BY DEF Breaks, Finish, Flush, LoseClaim, OpenDecision, Filing, Paused, NoPause
<1>6. QED
  BY <1>3, <1>4, <1>5 DEF Stands

LEMMA AskStands ==
    ASSUME StreamInv, Ask
    PROVE  Stands(1)
<1>1. TypeOK /\ 1 \in Segments
  BY StreamAssumption DEF StreamInv
<1>2. Goes(1, "setup") /\ Filing
  BY DEF Ask
<1>3. Alone(1) /\ worker'[1].at = "setup" /\ worker'[1].state = State(1)
  BY <1>1, <1>2, GoesFacts DEF Places
<1>4. QED
  BY <1>2, <1>3 DEF Stands, Running, Filing

\* The turn begins with its history, if the session has one.
Begins(s) ==
    /\ s = 1 /\ At(s, {"setup"}) /\ Alone(s) /\ worker'[s].at = "calling"
    /\ worker'[s].call.purpose = "declare"
    /\ Log(s)' \in {<<>>, Append(<<>>, Row("history", "history_recalled"))}
    /\ Log(s)' \in Seq(Rows)
    /\ Puts(s, <<Started(FALSE)>>) /\ UNCHANGED stream /\ Elsewhere /\ Filing

LEMMA BeginBegins ==
    ASSUME StreamInv, NEW s \in Segments, Begin(s)
    PROVE  Begins(s)
<1> DEFINE row == Row("history", "history_recalled")
           state == IF HasHistory THEN With(Fresh, row) ELSE Fresh
<1>1. TypeOK
  BY DEF StreamInv
<1>2. /\ s = 1 /\ At(s, {"setup"}) /\ Puts(s, <<Started(FALSE)>>)
      /\ CallModel(s, "declare", state) /\ UNCHANGED stream /\ Elsewhere /\ Filing
  BY DEF Begin, Put, Puts
<1>3. Fresh \in States /\ Fresh.events = <<>>
  <2>1. 0 \in Steps /\ <<>> \in Seq(Rows)
    BY StreamAssumption DEF Steps
  <2>2. QED
    BY <2>1 DEF Fresh, States, Nodes
<1>4. row \in Rows
  BY DEF Rows, Row
<1>5. state \in States /\ state.events \in {<<>>, Append(<<>>, row)}
  <2> HIDE DEF row
  <2>1. With(Fresh, row) \in States /\ With(Fresh, row).events = Append(<<>>, row)
    BY <1>3, <1>4, WithFacts
  <2>2. QED
    BY <1>3, <2>1
<1> HIDE DEF state
<1>6. /\ Alone(s) /\ worker'[s].at = "calling" /\ worker'[s].state = state
      /\ worker'[s].call = [purpose |-> "declare", attempt |-> 1, number |-> Call(s).number + 1]
  BY <1>1, <1>2, <1>5, CallModelFacts
<1>7. worker'[s].call.purpose = "declare"
  BY <1>6
<1>8. Log(s)' = state.events /\ Log(s)' \in Seq(Rows)
  BY <1>5, <1>6 DEF Log, State, States
<1>9. QED
  BY <1>2, <1>5, <1>6, <1>7, <1>8 DEF Begins

LEMMA BeginsShape ==
    ASSUME ShapeInv, NEW s \in Segments, Begins(s)
    PROVE  ShapeInv'
<1> DEFINE row == Row("history", "history_recalled")
<1>1. row \in Rows /\ row.kind = "history_recalled" /\ <<>> \in Seq(Rows)
  BY DEF Rows, Row
<1>2. Log(s)' \in {<<>>, Append(<<>>, row)} /\ ~InNode(s)' /\ Alone(s) /\ Filing
  BY DEF Begins, InNode, At, Call
<1> HIDE DEF row
<1>3. LogShape(Append(<<>>, row)) /\ \A kinds : EndsIn(Append(<<>>, row), kinds) <=> row.kind \in kinds
  BY <1>1, NoLog, ShapeGrows, LogGrows
<1>4. /\ LogShape(Log(s)') /\ ~EndsIn(Log(s)', {"node_entered"})
      /\ ~EndsIn(Log(s)', {"memory_written"})
  BY <1>1, <1>2, <1>3, NoLog
<1>5. ShapeOf(s)'
  BY <1>2, <1>4 DEF ShapeOf
<1>6. QED
  BY <1>2, <1>5, ShapeKept DEF Filing

\* An approver's thread takes the run that waits.
Claims(s) ==
    /\ s # 1 /\ At(s, {"setup"}) /\ Paused(pause) /\ Alone(s)
    /\ worker'[s].at = "recording" /\ Log(s)' = pause.events
    /\ pause.events = filed.events /\ pause.events \in Seq(Rows)
    /\ <<Started(TRUE), ContextEvent(s)>> \in Seq(Events)
    /\ Puts(s, <<Started(TRUE), ContextEvent(s)>>)
    /\ \A r \in Segments : Sent(r)' = Sent(r)
    /\ pause' = NoPause /\ filed' = filed /\ Elsewhere

LEMMA ClaimClaims ==
    ASSUME StreamInv, NEW s \in Segments, Claim(s)
    PROVE  Claims(s)
<1> DEFINE first == Started(TRUE)  second == ContextEvent(s)  put == <<first, second>>
           after == [emitted |-> stream[s].emitted, last |-> pause.steps,
                     calls |-> <<>>, search |-> 0]
<1>1. /\ TypeOK /\ LogInv /\ stream \in [Segments -> Streams] /\ stream[s].emitted \in Nat
      /\ stream[s].calls \in Seq(Steps)
  BY WorkerTypes DEF StreamInv, TypeOK
<1>2. /\ s # 1 /\ At(s, {"setup"}) /\ Paused(pause) /\ Puts(s, Append(<<first>>, second))
      /\ worker' = [worker EXCEPT ![s].at = "recording", ![s].state = pause]
      /\ stream' = [stream EXCEPT ![s] = after]
      /\ pause' = NoPause /\ filed' = filed /\ Elsewhere
  BY DEF Claim, ShowContext, Put, Puts
<1>3. pause \in States /\ pause.events \in Seq(Rows)
  <2>1. pause \in States
    BY <1>1, <1>2 DEF TypeOK, Waiting, Paused, NoPause
  <2>2. QED
    BY <2>1 DEF States
<1>4. first \in Events /\ second \in Events
  BY <1>1, EventForms DEF Started, ContextEvent
<1>5. \A r \in Segments : stream'[r].emitted = stream[r].emitted
  <2>1. after.emitted = stream[s].emitted
    OBVIOUS
  <2> HIDE DEF after
  <2>2. QED
    BY <1>1, <1>2, <2>1
<1> HIDE DEF first, second, after
<1>6. put \in Seq(Events) /\ put = Append(<<first>>, second)
  BY <1>4
<1>7. Alone(s) /\ worker'[s].at = "recording" /\ worker'[s].state = pause
  BY <1>1, <1>2, <1>3, GoesWithFacts DEF Places, Running
<1>8. Puts(s, put)
  BY <1>2, <1>6
<1>9. put \in Seq(Events)
  BY <1>6
<1>10. pause.events = filed.events
  BY <1>1, <1>2 DEF LogInv
<1>11. QED
  BY <1>2, <1>3, <1>5, <1>7, <1>8, <1>9, <1>10 DEF Claims, Sent, Log, State, first, second

LEMMA ClaimsShape ==
    ASSUME ShapeInv, NEW s \in Segments, Claims(s)
    PROVE  ShapeInv'
<1>1. /\ Log(s)' = filed.events /\ Log(s)' = pause.events /\ Paused(pause) /\ Alone(s)
      /\ filed' = filed /\ ~Paused(pause') /\ ~InNode(s)'
  BY DEF Claims, Paused, NoPause, InNode, At
<1>2. /\ LogShape(Log(s)') /\ ~EndsIn(Log(s)', {"node_entered"})
      /\ ~EndsIn(Log(s)', {"memory_written"})
  BY <1>1 DEF ShapeInv
<1>3. ShapeOf(s)'
  BY <1>1, <1>2 DEF ShapeOf
<1>4. QED
  BY <1>1, <1>3, ShapeKept

LEMMA FileShape ==
    ASSUME StreamInv, ShapeInv, NEW s \in Segments, File(s)
    PROVE  ShapeInv'
<1>1. TypeOK /\ HandoverInv /\ ShapeOf(s)
  BY DEF StreamInv, ShapeInv
<1>2. /\ At(s, {"filing"}) /\ At(s, Running) /\ ~InNode(s) /\ Goes(s, "filed")
      /\ filed' = [outcome |-> Outcome(State(s)), events |-> Log(s)]
      /\ pause' = IF Paused(State(s)) THEN State(s) ELSE pause
  BY DEF File, At, Running, Log, InNode
<1>3. Alone(s) /\ worker'[s].at = "filed" /\ worker'[s].state = State(s)
  BY <1>1, <1>2, GoesFacts DEF Places
<1>4. ShapeOf(s)'
  BY <1>3, IdleShape DEF Log, Running
<1>5. ASSUME NEW r \in Segments PROVE ShapeOf(r)'
  <2>1. CASE r = s
    BY <1>4, <2>1
  <2>2. CASE r # s
    <3>1. worker'[r] = worker[r] /\ ShapeOf(r)
      BY <1>3, <2>2 DEF Alone, ShapeInv
    <3>2. QED
      BY <3>1 DEF ShapeOf, Log, State, At, InNode, Call
  <2>3. QED
    BY <2>1, <2>2
<1>6. LogShape(filed'.events) /\ ~EndsIn(filed'.events, {"node_entered"})
  BY <1>1, <1>2 DEF ShapeOf
<1>7. ASSUME Paused(pause') PROVE ~EndsIn(pause'.events, {"memory_written"})
  <2>1. Paused(State(s)) /\ pause' = State(s)
    BY <1>1, <1>2, <1>7 DEF HandoverInv
  <2>2. QED
    BY <1>1, <1>2, <2>1 DEF ShapeOf, Log
<1>8. QED
  BY <1>5, <1>6, <1>7 DEF ShapeInv

LEMMA ShapeStays ==
    ASSUME ShapeInv, UNCHANGED <<worker, pause, filed>>
    PROVE  ShapeInv'
<1>1. ASSUME NEW r \in Segments PROVE ShapeOf(r)'
  <2>1. worker'[r] = worker[r] /\ ShapeOf(r)
    BY DEF ShapeInv
  <2>2. QED
    BY <2>1 DEF ShapeOf, Log, State, At, InNode, Call
<1>2. QED
  BY <1>1 DEF ShapeInv

\* Every step of a thread is of one of these forms.
LEMMA TurnForms ==
    ASSUME StreamInv, NEW s \in Segments, Turn(s)
    PROVE  \/ \E put : GoesOn(s, put)
           \/ \E row : Adds(s, row)
           \/ \E node, state : Tells(s, node, state)
           \/ Begins(s) \/ Claims(s)
           \/ Breaks(s) \/ Finish(s) \/ Flush(s) \/ LoseClaim(s) \/ File(s)
BY SpeakGoesOn, RetryGoesOn, DeclarationGoesOn, CallEndGoesOn, EnterAdds, StopGoesOn, NodeGoesOn,
   GateGoesOn, SearchGoesOn, IntroduceGoesOn, ConsolidateGoesOn, LeavingTells, ExhaustingTells,
   DenyingTells, RecordingTells, BeginBegins, ClaimClaims DEF Turn

LEMMA ShapeNext ==
    ASSUME StreamInv, ShapeInv, [Next]_vars
    PROVE  ShapeInv'
<1>1. TypeOK
  BY DEF StreamInv
<1>2. ASSUME NEW s \in Segments, Turn(s) PROVE ShapeInv'
  <2>1. \/ \E put : GoesOn(s, put)
        \/ \E row : Adds(s, row)
        \/ \E node, state : Tells(s, node, state)
        \/ Begins(s) \/ Claims(s)
        \/ Breaks(s) \/ Finish(s) \/ Flush(s) \/ LoseClaim(s) \/ File(s)
    BY <1>2, TurnForms
  <2>2. CASE Breaks(s) \/ Finish(s) \/ Flush(s) \/ LoseClaim(s)
    BY <2>2, ThreadStands, StandsShape
  <2>3. QED
    BY <1>1, <2>1, <2>2, GoesOnShape, AddsShape, TellsShape, BeginsShape, ClaimsShape, FileShape
<1>3. ASSUME NEW s \in Segments, OpenDecision(s) PROVE ShapeInv'
  BY <1>3, ThreadStands, StandsShape
<1>4. CASE Ask
  BY <1>4, AskStands, StandsShape, StreamAssumption
<1>5. ASSUME NEW s \in Segments, Show(s) \/ HangUp(s) PROVE ShapeInv'
  <2>1. UNCHANGED <<worker, pause, filed>>
    BY <1>5 DEF Show, HangUp, Filing
  <2>2. QED
    BY <2>1, ShapeStays
<1>6. CASE UNCHANGED vars
  BY <1>6, ShapeStays DEF vars
<1>7. QED
  BY <1>2, <1>3, <1>4, <1>5, <1>6 DEF Next

LEMMA ShapeInit == Init => ShapeInv
<1> SUFFICES ASSUME Init PROVE ShapeInv
  OBVIOUS
<1>1. ASSUME NEW s \in Segments PROVE ShapeOf(s)
  <2>1. worker[s].at = "idle" /\ Log(s) = <<>>
    BY DEF Init, NewWorker, Log, State, Fresh
  <2>2. ~At(s, Running)
    BY <2>1 DEF At, Running
  <2>3. QED
    BY <2>1, <2>2, NoLog DEF ShapeOf
<1>2. filed.events = <<>> /\ ~Paused(pause)
  BY DEF Init, Paused, NoPause
<1>3. QED
  BY <1>1, <1>2, NoLog DEF ShapeInv

(***************************************************************************)
(* Until its turn begins the requester's message is empty.                 *)
(***************************************************************************)
LEMMA TurnMoves ==
    ASSUME StreamInv, NEW s \in Segments, Turn(s)
    PROVE  /\ Alone(s) /\ ~At(s, {"idle", "closed"})
           /\ worker'[s].at \in Running \cup {"filed", "tail", "closed"}
<1>1. TypeOK
  BY DEF StreamInv
<1>2. \/ \E put : GoesOn(s, put)
      \/ \E row : Adds(s, row)
      \/ \E node, state : Tells(s, node, state)
      \/ Begins(s) \/ Claims(s)
      \/ Breaks(s) \/ Finish(s) \/ Flush(s) \/ LoseClaim(s) \/ File(s)
  BY TurnForms
<1>3. CASE \/ \E put : GoesOn(s, put)
           \/ \E row : Adds(s, row)
           \/ \E node, state : Tells(s, node, state)
  BY <1>3 DEF GoesOn, Adds, Tells, At, Running
<1>4. CASE Begins(s) \/ Claims(s)
  BY <1>4 DEF Begins, Claims, At, Running
<1>5. CASE Breaks(s) \/ Finish(s) \/ Flush(s) \/ LoseClaim(s) \/ File(s)
  <2>1. PICK at \in {"closed", "tail", "filed"} : Goes(s, at)
    BY <1>5 DEF Breaks, Finish, Flush, LoseClaim, File
  <2>2. at \in Places
    BY DEF Places
  <2>3. Alone(s) /\ worker'[s].at = at
    BY <1>1, <2>1, <2>2, GoesFacts
  <2>4. ~At(s, {"idle", "closed"})
    BY <1>5 DEF Breaks, Finish, Flush, LoseClaim, File, At
  <2>5. QED
    BY <2>3, <2>4
<1>6. QED
  BY <1>2, <1>3, <1>4, <1>5

LEMMA StartNext ==
    ASSUME StreamInv, StartInv, [Next]_vars
    PROVE  StartInv'
<1>1. TypeOK /\ HandoverInv /\ FeedInv /\ 1 \in Segments /\ QueueOK(1)
  BY StreamAssumption DEF StreamInv, TypeOK
<1>2. ASSUME NEW s \in Segments, Turn(s) PROVE ~Unsent(1)'
  <2>1. Alone(s) /\ ~At(s, {"idle"}) /\ worker'[s].at \notin {"idle", "setup"}
    BY <1>2, TurnMoves DEF At, Running
  <2>2. CASE s = 1
    BY <2>1, <2>2 DEF Unsent, At
  <2>3. CASE s # 1
    <3>1. ~Unsent(1)
      BY <1>1, <2>1, <2>3 DEF HandoverInv
    <3>2. QED
      BY <1>1, <2>1, <2>3, <3>1 DEF Alone, Unsent, At
  <2>4. QED
    BY <2>2, <2>3
<1>3. ASSUME NEW s \in Segments, OpenDecision(s) PROVE ~Unsent(1)'
  <2>1. Stands(s) /\ Paused(pause) /\ s # 1
    BY <1>3, ThreadStands DEF OpenDecision
  <2>2. ~Unsent(1) /\ worker'[1] = worker[1]
    BY <1>1, <2>1 DEF HandoverInv, Stands, Alone
  <2>3. QED
    BY <2>2 DEF Unsent, At
<1>4. CASE Ask
  <2>1. Unsent(1) /\ view' = view /\ queue' = queue
    BY <1>4 DEF Ask, Unsent, At
  <2>2. QED
    BY <2>1 DEF StartInv
<1>5. ASSUME NEW s \in Segments, Show(s) \/ HangUp(s) PROVE StartInv'
  <2> SUFFICES ASSUME Unsent(1)' PROVE view'[1] = InitialTurn /\ queue'[1] = <<>>
    BY DEF StartInv
  <2>1. worker' = worker /\ reader[s] = "reading"
    BY <1>5 DEF Show, HangUp
  <2>2. Unsent(1)
    BY <2>1 DEF Unsent, At
  <2>3. view[1] = InitialTurn /\ queue[1] = <<>> /\ \A r \in Segments \ {1} : At(r, {"idle"})
    BY <1>1, <2>2 DEF StartInv, HandoverInv
  <2>4. s = 1
    BY <1>1, <2>1, <2>3 DEF TypeOK, QueueOK
  <2>5. HangUp(s)
    BY <1>5, <2>3, <2>4 DEF Show
  <2>6. message[1] = 1
    BY <1>1 DEF FeedInv
  <2>7. queue' = [queue EXCEPT ![1] = <<>>] /\ view' = [view EXCEPT ![1] = InitialTurn]
    BY <2>4, <2>5, <2>6 DEF HangUp
  <2>8. QED
    BY <1>1, <2>7 DEF TypeOK
<1>6. CASE UNCHANGED vars
  BY <1>6 DEF vars, StartInv, Unsent, At
<1>7. QED
  BY <1>2, <1>3, <1>4, <1>5, <1>6 DEF Next, StartInv

LEMMA StartInit == Init => StartInv
BY StreamAssumption DEF Init, StartInv

(***************************************************************************)
(* The rows a stream has held back, and the event that lets them go.       *)
(***************************************************************************)
Released(log, sent, e) ==
    /\ ~IsRow(e)
    /\ \A n \in DOMAIN log : n > sent =>
          /\ log[n].kind = "node_exited" => n > sent + 1
          /\ log[n].kind = "node_entered" => n # Len(log)
          /\ log[n].kind \in {"node_exited", "approval_recorded", "run_failed"} => n = Len(log)
    /\ ClosesNode(e) => Len(log) > sent /\ log[Len(log)] = Row(e.node, "node_exited")
    /\ Len(log) > sent =>
          /\ log[Len(log)].kind = "node_exited" => ClosesNode(e)
          /\ log[Len(log)].kind \in {"approval_recorded", "run_failed"} => IsStep(e)

LEMMA RowsChained ==
    ASSUME TypeOK, NEW s \in Segments, NEW log \in Seq(Rows), Sent(s) <= Len(log),
           LogShape(log), NEW e \in Events, Released(log, Sent(s), e),
           NEW b, ~OfKind(b, Unclosed)
    PROVE  LET put == Append(NewRows(s, log), e) IN
           /\ Chained(b, put) /\ LastOf(put, b) = e /\ ~OfKind(e, Unclosed)
           /\ \A n \in 1..Len(log) : n > Sent(s) => \E i \in DOMAIN put : RowAt(put[i], n)
           /\ \A i \in DOMAIN put : put[i].type = "row" \/ (i = Len(put) /\ put[i] = e)
<1> DEFINE rows == NewRows(s, log)  put == Append(rows, e)  l == Len(rows)  len == Len(log)
           sent == Sent(s)
<1>1. /\ rows \in Seq(Events) /\ l \in Nat /\ l = len - sent
      /\ \A i \in DOMAIN rows :
            /\ rows[i].type = "row" /\ rows[i].seq = sent + i - 1
            /\ rows[i].row = log[sent + i]
  BY NewRowsFacts DEF Sent
<1>2. sent \in Nat /\ len \in Nat /\ DOMAIN log = 1..len /\ DOMAIN rows = 1..l
  BY <1>1, WorkerTypes DEF Sent
<1>3. /\ put \in Seq(Events) /\ Len(put) = l + 1 /\ put[l + 1] = e
      /\ \A i \in 1..l : put[i] = rows[i]
  BY <1>1, AppendProperties
<1> DEFINE lp == Len(put)
<1>4. DOMAIN put = 1..lp /\ lp = l + 1 /\ put # <<>>
  <2>1. DOMAIN put = 1..lp /\ lp = l + 1
    BY <1>3
  <2>2. lp # 0
    BY <1>1, <2>1
  <2> HIDE DEF put
  <2>3. put # <<>>
    BY <2>2
  <2>4. QED
    BY <2>1, <2>3
<1>5. /\ ~IsRow(e)
      /\ \A n \in DOMAIN log : n > sent =>
            /\ log[n].kind = "node_exited" => n > sent + 1
            /\ log[n].kind = "node_entered" => n # len
            /\ log[n].kind \in {"node_exited", "approval_recorded", "run_failed"} => n = len
      /\ ClosesNode(e) => len > sent /\ log[len] = Row(e.node, "node_exited")
      /\ len > sent =>
            /\ log[len].kind = "node_exited" => ClosesNode(e)
            /\ log[len].kind \in {"approval_recorded", "run_failed"} => IsStep(e)
  BY DEF Released
<1>6. \A n \in DOMAIN log :
        /\ log[n].kind = "node_exited" => n > 1 /\ log[n - 1] = Row(log[n].node, "node_entered")
        /\ log[n].kind = "node_entered" => n = len \/ log[n + 1].kind = "node_exited"
  BY DEF LogShape
<1> HIDE DEF rows, put, l, len, sent, lp
<1>7. ASSUME NEW i \in 1..l
      PROVE  /\ i \in DOMAIN put /\ IsRow(put[i]) /\ put[i].row = log[sent + i]
             /\ put[i].seq + 1 = sent + i /\ sent + i \in DOMAIN log /\ sent + i > sent
             /\ (sent + i = len <=> i = l)
  <2>1. i \in DOMAIN rows /\ put[i] = rows[i]
    BY <1>2, <1>3, <1>7
  <2>2. /\ rows[i].type = "row" /\ rows[i].seq = sent + i - 1 /\ rows[i].row = log[sent + i]
    BY <1>1, <2>1
  <2>3. (sent + i - 1) + 1 = sent + i /\ sent + i \in 1..len /\ sent + i > sent
        /\ (sent + i = len <=> i = l) /\ i \in 1..lp
    BY <1>1, <1>2, <1>4, <1>7
  <2>4. QED
    BY <1>2, <1>4, <2>1, <2>2, <2>3 DEF IsRow
<1>8. ASSUME NEW i \in DOMAIN put PROVE i \in 1..l \/ (i = l + 1 /\ put[i] = e)
  BY <1>1, <1>3, <1>4, <1>8
<1>9. ASSUME NEW y PROVE ~OfKind(e, {y})
  BY <1>5 DEF OfKind
<1>10. ~OfKind(e, Unclosed)
  BY <1>5 DEF OfKind
\* The first of them.
<1>11. ASSUME NEW i \in DOMAIN put, i = 1 PROVE Joins(b, put[i])
  <2>1. CASE i \in 1..l
    <3>1. /\ IsRow(put[i]) /\ put[i].row = log[sent + i] /\ sent + i \in DOMAIN log
          /\ sent + i > sent
      BY <1>7, <2>1
    <3>2. ~(sent + i > sent + 1)
      BY <1>2, <1>11
    <3>3. log[sent + i].kind # "node_exited"
      BY <1>5, <3>1, <3>2
    <3>4. ~IsStep(put[i])
      BY <3>1 DEF IsRow, IsStep
    <3>5. QED
      BY <3>1, <3>3, <3>4 DEF Joins, OfKind, Unclosed, ClosesNode
  <2>2. CASE i = l + 1 /\ put[i] = e
    <3>1. ~(len > sent)
      BY <1>1, <1>2, <1>11, <2>2
    <3>2. ~ClosesNode(e)
      BY <1>5, <3>1
    <3>3. QED
      BY <1>5, <2>2, <3>2 DEF Joins, OfKind, Unclosed
  <2>3. QED
    BY <1>8, <2>1, <2>2
\* Each of the others.
<1>12. ASSUME NEW i \in DOMAIN put, i # 1 PROVE Joins(put[i - 1], put[i])
  <2> DEFINE j == i - 1
  <2>1. j \in 1..l /\ j + 1 = i
    BY <1>1, <1>4, <1>12
  <2> HIDE DEF j
  <2>2. /\ IsRow(put[j]) /\ put[j].row = log[sent + j] /\ sent + j \in DOMAIN log
        /\ sent + j > sent /\ (sent + j = len <=> j = l)
    BY <1>7, <2>1
  <2>3. ~IsStep(put[j])
    BY <2>2 DEF IsRow, IsStep
  <2>4. CASE i \in 1..l
    <3>1. /\ IsRow(put[i]) /\ put[i].row = log[sent + i] /\ sent + i \in DOMAIN log
          /\ sent + i > sent
      BY <1>7, <2>4
    <3>2. ~IsStep(put[i])
      BY <3>1 DEF IsRow, IsStep
    <3>3. j # l /\ (sent + i) - 1 = sent + j /\ (sent + j) + 1 = sent + i
      BY <1>1, <1>2, <2>1, <2>4
    <3>4. log[sent + j].kind \notin {"node_exited", "approval_recorded", "run_failed"}
      BY <1>5, <2>2, <3>3
    <3>5. log[sent + j].kind = "node_entered" => log[sent + i].kind = "node_exited"
      BY <1>6, <2>2, <3>3
    <3>6. log[sent + i].kind = "node_exited" => log[sent + j] = Row(log[sent + i].node, "node_entered")
      BY <1>6, <3>1, <3>3
    <3>7. Joins(put[j], put[i])
      BY <2>2, <3>1, <3>2, <3>4, <3>5, <3>6 DEF Joins, OfKind, ClosesNode
    <3>8. QED
      BY <3>7 DEF j
  <2>5. CASE i = l + 1 /\ put[i] = e
    <3>1. j = l /\ sent + j = len /\ len > sent
      BY <1>1, <1>2, <2>1, <2>2, <2>5
    <3>2. log[len].kind # "node_entered" /\ put[j].row = log[len]
      BY <1>5, <2>2, <3>1
    <3>3. Joins(put[j], e)
      BY <1>5, <2>2, <2>3, <3>1, <3>2 DEF Joins, OfKind
    <3>4. QED
      BY <2>5, <3>3 DEF j
  <2>6. QED
    BY <1>8, <2>4, <2>5
<1>13. Chained(b, put)
  BY <1>11, <1>12 DEF Chained
<1>14. LastOf(put, b) = e
  BY <1>3, <1>4 DEF LastOf, lp
<1>15. ASSUME NEW n \in 1..len, n > sent PROVE \E i \in DOMAIN put : RowAt(put[i], n)
  <2>1. n - sent \in 1..l /\ sent + (n - sent) = n
    BY <1>1, <1>2, <1>15
  <2>2. QED
    BY <1>7, <2>1 DEF RowAt
<1>16. ASSUME NEW i \in DOMAIN put PROVE put[i].type = "row" \/ (i = lp /\ put[i] = e)
  BY <1>4, <1>7, <1>8 DEF IsRow
<1>17. QED
  BY <1>10, <1>13, <1>14, <1>15, <1>16 DEF put, rows, len, sent, lp

(***************************************************************************)
(* What a thread may put on the queue of a message that hears it all.      *)
(***************************************************************************)
\* The rows it counts as sent are there.
Sends(s, put) ==
    \A n \in 1..Sent(s)' : n > Sent(s) => \E i \in DOMAIN put : RowAt(put[i], n)

\* It can follow any event that is not open, and leaves none open.
Carries(put) ==
    \A b : ~OfKind(b, Unclosed) => Chained(b, put) /\ ~OfKind(LastOf(put, b), Unclosed)

\* It starts the view again only before anything else.
Restarts(s, put) ==
    \A i \in DOMAIN put : put[i] = Started(FALSE) =>
        i = 1 /\ queue[s] = <<>> /\ view[1].timeline = <<>>

NoVerdict(events) == \A i \in DOMAIN events : events[i].type \notin Verdicts

\* The queue of a message after a put.
LEMMA PutExtends ==
    ASSUME TypeOK, NEW s \in Segments, NEW put \in Seq(Events), Puts(s, put),
           reader[s] = "reading"
    PROVE  Extends(queue'[s], queue[s], put)
BY PutFacts DEF TypeOK, Extends

LEMMA ExtendsFacts ==
    ASSUME NEW n, NEW q, NEW put, Extends(n, q, put)
    PROVE  /\ \A i \in DOMAIN q : i \in DOMAIN n /\ n[i] = q[i]
           /\ \A i \in DOMAIN n : i \notin DOMAIN q =>
                 i - Len(q) \in DOMAIN put /\ n[i] = put[i - Len(q)] /\ i > Len(q)
           /\ \A i \in DOMAIN put : i + Len(q) \in DOMAIN n /\ n[i + Len(q)] = put[i]
           /\ (q # <<>> => 1 \in DOMAIN q /\ n # <<>>)
           /\ (q = <<>> => Len(q) = 0)
<1> DEFINE lq == Len(q)  ln == Len(n)  lp == Len(put)
<1>1. /\ lq \in Nat /\ DOMAIN q = 1..lq /\ ln \in Nat /\ DOMAIN n = 1..ln /\ ln = lq + lp
      /\ lp \in Nat /\ DOMAIN put = 1..lp
      /\ (q = <<>> <=> lq = 0) /\ (n = <<>> <=> ln = 0)
      /\ \A i \in DOMAIN q : n[i] = q[i]
      /\ \A i \in DOMAIN n : i \notin DOMAIN q => i - lq \in DOMAIN put /\ n[i] = put[i - lq]
  BY DEF Extends
<1> HIDE DEF lq, ln, lp
<1>2. \A i \in DOMAIN q : i \in DOMAIN n /\ n[i] = q[i]
  BY <1>1
<1>3. ASSUME NEW i \in DOMAIN n, i \notin DOMAIN q
      PROVE  i - lq \in DOMAIN put /\ n[i] = put[i - lq] /\ i > lq
  BY <1>1, <1>3
<1>4. ASSUME NEW i \in DOMAIN put PROVE i + lq \in DOMAIN n /\ n[i + lq] = put[i]
  <2>1. i + lq \in DOMAIN n /\ i + lq \notin DOMAIN q /\ (i + lq) - lq = i
    BY <1>1
  <2>2. QED
    BY <1>1, <2>1
<1>5. (q # <<>> => 1 \in DOMAIN q /\ n # <<>>) /\ (q = <<>> => lq = 0)
  BY <1>1
<1>6. QED
  BY <1>2, <1>3, <1>4, <1>5 DEF lq

LEMMA FeedingGrows ==
    ASSUME TypeOK, NEW s \in Segments, FeedingInv(s), reader[s] = "reading", Elsewhere,
           NEW put \in Seq(Events), Puts(s, put), worker'[s].at # "setup",
           Sends(s, put), Carries(put), Restarts(s, put), VerdictInv(s)', Local(s)',
           Sent(s)' \in Nat
    PROVE  FeedingInv(s)'
<1> DEFINE q == queue[s]  n == queue'[s]  b == LastShown
<1>1. Extends(n, q, put)
  BY PutExtends
<1>2. view' = view /\ reader' = reader /\ message' = message
  BY DEF Elsewhere
<1>3. LastShown' = b /\ (\A k : IsShown(k)' <=> IsShown(k))
  BY <1>2 DEF LastShown, IsShown
<1>4. Arrives(s) /\ Chained(b, q) /\ ~OfKind(LastOf(q, b), Unclosed)
  BY DEF FeedingInv
<1>5. /\ \A i \in DOMAIN q : i \in DOMAIN n /\ n[i] = q[i]
      /\ \A i \in DOMAIN n : i \notin DOMAIN q =>
            i - Len(q) \in DOMAIN put /\ n[i] = put[i - Len(q)] /\ i > Len(q)
      /\ \A i \in DOMAIN put : i + Len(q) \in DOMAIN n /\ n[i + Len(q)] = put[i]
      /\ (q = <<>> => Len(q) = 0)
  <2> HIDE DEF q, n
  <2>1. QED
    BY <1>1, ExtendsFacts
<1>6. Sent(s) \in Nat
  BY WorkerTypes DEF Sent
<1>7. Arrives(s)'
  <2> SUFFICES ASSUME NEW k \in 1..Sent(s)'
               PROVE  IsShown(k) \/ \E i \in DOMAIN n : RowAt(n[i], k)
    BY <1>3 DEF Arrives, Sent
  <2>1. CASE k > Sent(s)
    <3>1. PICK i \in DOMAIN put : RowAt(put[i], k)
      BY <2>1 DEF Sends
    <3>2. QED
      BY <1>5, <3>1
  <2>2. CASE ~(k > Sent(s))
    <3>1. k \in 1..Sent(s)
      BY <1>6, <2>2
    <3>2. IsShown(k) \/ \E i \in DOMAIN q : RowAt(q[i], k)
      BY <1>4, <3>1 DEF Arrives, Sent
    <3>3. QED
      BY <1>5, <3>2
  <2>3. QED
    BY <2>1, <2>2
<1>8. Chained(b, n) /\ ~OfKind(LastOf(n, b), Unclosed)
  <2> HIDE DEF q, n, b
  <2>1. Chained(LastOf(q, b), put) /\ ~OfKind(LastOf(put, LastOf(q, b)), Unclosed)
    BY <1>4 DEF Carries
  <2>2. Chained(b, n) /\ LastOf(n, b) = LastOf(put, LastOf(q, b))
    BY <1>1, <1>4, <2>1, ChainedJoin
  <2>3. QED
    BY <2>1, <2>2
<1>9. ASSUME NEW i \in DOMAIN n, n[i] = Started(FALSE) PROVE i = 1 /\ view[1].timeline = <<>>
  <2>1. CASE i \in DOMAIN q
    <3>1. q[i] = Started(FALSE)
      BY <1>5, <1>9, <2>1
    <3>2. QED
      BY <2>1, <3>1 DEF FeedingInv
  <2>2. CASE i \notin DOMAIN q
    <3>1. /\ i - Len(q) \in DOMAIN put /\ put[i - Len(q)] = Started(FALSE)
      BY <1>5, <1>9, <2>2
    <3>2. i - Len(q) = 1 /\ q = <<>> /\ view[1].timeline = <<>>
      BY <3>1 DEF Restarts
    <3>3. Len(q) = 0
      BY <1>5, <3>2
    <3>4. i \in Nat
      BY <1>1 DEF Extends
    <3> HIDE DEF q, n
    <3>5. i = 1
      BY <3>2, <3>3, <3>4
    <3>6. QED
      BY <3>2, <3>5
  <2>3. QED
    BY <2>1, <2>2
<1>10. ~At(s, {"setup"})'
  BY DEF At
<1>11. QED
  BY <1>2, <1>3, <1>7, <1>8, <1>9, <1>10 DEF FeedingInv

\* Until a thread is done its message has no verdict to come.
LEMMA StillOpen ==
    ASSUME TypeOK, NEW s \in Segments, VerdictInv(s), ~At(s, {"tail", "closed"}),
           reader[s] = "reading", NEW put \in Seq(Events), Puts(s, put), NoVerdict(put)
    PROVE  VerdictInv(s)' /\ NoVerdict(queue[s])
<1> DEFINE q == queue[s]  n == queue'[s]
<1>1. Extends(n, q, put)
  BY PutExtends
<1>2. NoVerdict(q)
  BY DEF VerdictInv, NoVerdict
<1>3. /\ \A i \in DOMAIN q : n[i] = q[i]
      /\ \A i \in DOMAIN n : i \notin DOMAIN q => i - Len(q) \in DOMAIN put /\ n[i] = put[i - Len(q)]
  BY <1>1 DEF Extends
<1>4. NoVerdict(n)
  BY <1>2, <1>3 DEF NoVerdict
<1>5. QED
  BY <1>2, <1>4 DEF VerdictInv, NoVerdict

LEMMA RowlessCarries ==
    ASSUME NEW put \in Seq(Events), Rowless(put)
    PROVE  Carries(put)
BY PlainChained DEF Carries

(***************************************************************************)
(* A thread feeds its message.                                             *)
(***************************************************************************)
\* Plain events, of a thread that is not done.
LEMMA PlainFeeds ==
    ASSUME TypeOK, NEW s \in Segments, FeedingInv(s), reader[s] = "reading", Elsewhere,
           ~At(s, {"tail", "closed"}), NEW put \in Seq(Events), Puts(s, put), Plain(put),
           worker'[s].at # "setup", Sent(s)' = Sent(s), Local(s)'
    PROVE  FeedingInv(s)'
<1>1. Rowless(put) /\ NoVerdict(put) /\ Restarts(s, put)
  BY DEF Plain, IsPlain, Rowless, NoVerdict, Restarts
<1>2. Carries(put)
  BY <1>1, RowlessCarries
<1>3. VerdictInv(s)'
  BY <1>1, StillOpen DEF FeedingInv
<1>4. Sent(s) \in Nat
  BY WorkerTypes DEF Sent
<1>5. Sends(s, put)
  BY <1>4 DEF Sends
<1>6. QED
  BY <1>1, <1>2, <1>3, <1>4, <1>5, FeedingGrows

LEMMA GoesOnFeeds ==
    ASSUME TypeOK, NEW s \in Segments, FeedingInv(s), reader[s] = "reading",
           NEW put, GoesOn(s, put)
    PROVE  FeedingInv(s)'
<1>1. /\ At(s, Running) /\ At(s, Running)' /\ Log(s)' = Log(s) /\ InNode(s)' = InNode(s)
      /\ Sent(s)' = Sent(s) /\ put \in Seq(Events) /\ Puts(s, put) /\ Plain(put) /\ Elsewhere
  BY DEF GoesOn, At
<1>2. /\ ~At(s, {"tail", "closed"}) /\ worker'[s].at # "setup" /\ ~At(s, {"filed"})'
      /\ At(s, Running \cup {"filed"})
  BY <1>1 DEF At, Running
<1>3. HoldsBack(Log(s), Sent(s)) /\ (InNode(s) => Sent(s) < Len(Log(s)))
  BY <1>2 DEF FeedingInv, Local, Sent
<1>4. HoldsBack(Log(s), Sent(s))' /\ (InNode(s)' => (Sent(s) < Len(Log(s)))')
  BY <1>1, <1>3
<1>5. Local(s)'
  BY <1>2, <1>4 DEF Local, Sent
<1>6. QED
  BY <1>1, <1>2, <1>5, PlainFeeds

\* The row added is held back.
LEMMA AddsFeeds ==
    ASSUME TypeOK, ShapeInv, NEW s \in Segments, FeedingInv(s), reader[s] = "reading",
           NEW row, Adds(s, row)
    PROVE  FeedingInv(s)'
<1>1. /\ At(s, Running \ {"filing"}) /\ At(s, Running)' /\ row \in Rows
      /\ Log(s)' = Append(Log(s), row) /\ ~InNode(s)
      /\ row.kind \in {"contract_declared", "memory_written", "node_entered"}
      /\ Sent(s)' = Sent(s) /\ UNCHANGED queue /\ Elsewhere
  BY DEF Adds
<1>2. /\ ~At(s, {"tail", "closed"}) /\ worker'[s].at # "setup" /\ ~At(s, {"filed"})'
      /\ At(s, Running \cup {"filed"}) /\ At(s, Running) /\ ~At(s, {"setup", "closed"})
  BY <1>1 DEF At, Running
<1>3. Puts(s, <<>>) /\ <<>> \in Seq(Events) /\ Plain(<<>>)
  BY <1>1, SaysNothing
<1>4. HoldsBack(Log(s), Sent(s)) /\ ~EndsIn(Log(s), {"node_entered"})
  BY <1>1, <1>2 DEF FeedingInv, Local, Sent, ShapeInv, ShapeOf
<1>5. Log(s) \in Seq(Rows) /\ Sent(s) \in Nat /\ Sent(s) <= Len(Log(s))
  BY <1>2, WorkerTypes DEF TypeOK, Sent, Log
<1> DEFINE log == Log(s)  n == Append(log, row)  l == Len(log)  sent == Sent(s)
<1>6. /\ Len(n) = l + 1 /\ DOMAIN n = 1..(l + 1) /\ n[l + 1] = row
      /\ \A i \in DOMAIN log : n[i] = log[i]
      /\ l \in Nat /\ DOMAIN log = 1..l /\ (log = <<>> <=> l = 0)
      /\ sent \in Nat /\ sent <= l
  BY <1>1, <1>5, LogGrows
<1>7. ~(l # 0 /\ log[l].kind = "node_entered")
  BY <1>4, <1>6 DEF EndsIn
<1> HIDE DEF log, n, l, sent
<1>8. ASSUME NEW k \in DOMAIN n, k > sent
      PROVE  \/ n[k].kind \in PreludeKinds \cup {"memory_written"}
             \/ n[k].kind = "node_entered" /\ k = Len(n)
  <2>1. CASE k = l + 1
    BY <1>1, <1>6, <2>1 DEF PreludeKinds
  <2>2. CASE k # l + 1
    <3>1. k \in DOMAIN log /\ l # 0 /\ n[k] = log[k]
      BY <1>6, <2>2
    <3>2. \/ log[k].kind \in PreludeKinds \cup {"memory_written"}
          \/ log[k].kind = "node_entered" /\ k = l
      BY <1>4, <1>8, <3>1 DEF HoldsBack, log, l, sent
    <3>3. QED
      BY <1>7, <3>1, <3>2
  <2>3. QED
    BY <2>1, <2>2
<1>9. HoldsBack(n, sent) /\ sent < Len(n)
  BY <1>6, <1>8 DEF HoldsBack
<1>10. Log(s)' = n /\ Sent(s)' = sent
  BY <1>1 DEF n, log, sent
<1>11. Local(s)'
  BY <1>2, <1>9, <1>10 DEF Local, Sent
<1>12. QED
  BY <1>1, <1>2, <1>3, <1>11, PlainFeeds

LEMMA BeginsFeeds ==
    ASSUME TypeOK, StartInv, NEW s \in Segments, FeedingInv(s), reader[s] = "reading", Begins(s)
    PROVE  FeedingInv(s)'
<1> DEFINE put == <<Started(FALSE)>>
<1>1. /\ s = 1 /\ At(s, {"setup"}) /\ worker'[s].at = "calling"
      /\ worker'[s].call.purpose = "declare"
      /\ Log(s)' \in {<<>>, Append(<<>>, Row("history", "history_recalled"))}
      /\ Puts(s, put) /\ UNCHANGED stream /\ Elsewhere
  BY DEF Begins
<1>2. queue[s] = <<>> /\ view[1].timeline = <<>> /\ ~At(s, {"tail", "closed"})
  BY <1>1 DEF StartInv, Unsent, At, InitialTurn
<1>3. Started(FALSE) \in Events /\ Started(FALSE).type = "started"
  BY EventForms DEF Started
<1>4. put \in Seq(Events) /\ DOMAIN put = {1} /\ put[1] = Started(FALSE)
  BY <1>3, OneEvent
<1> HIDE DEF put
<1>5. Rowless(put) /\ NoVerdict(put) /\ Restarts(s, put)
  BY <1>2, <1>3, <1>4 DEF Rowless, NoVerdict, Restarts, IsRow, IsStep, Verdicts
<1>6. Carries(put)
  BY <1>4, <1>5, RowlessCarries
<1>7. VerdictInv(s)'
  BY <1>1, <1>2, <1>4, <1>5, StillOpen DEF FeedingInv
<1>8. Sent(s) \in Nat /\ Sent(s)' = Sent(s)
  BY <1>1, WorkerTypes DEF Sent
<1>9. Sends(s, put)
  BY <1>8 DEF Sends
<1>10. HoldsBack(Log(s)', Sent(s)')
  <2> DEFINE row == Row("history", "history_recalled")
  <2>1. DOMAIN <<>> = {} /\ <<>> \in Seq(Rows) /\ Len(<<>>) = 0
    OBVIOUS
  <2>2. row \in Rows /\ row.kind = "history_recalled"
    BY DEF Row, Rows
  <2>3. DOMAIN Append(<<>>, row) = 1..1 /\ Append(<<>>, row)[1] = row
    <3> HIDE DEF row
    <3>1. QED
      BY <2>1, <2>2, LogGrows
  <2> HIDE DEF row
  <2>4. \A k \in DOMAIN Append(<<>>, row) : Append(<<>>, row)[k].kind = "history_recalled"
    BY <2>2, <2>3
  <2>5. \A k \in DOMAIN Log(s)' : Log(s)'[k].kind = "history_recalled"
    BY <1>1, <2>1, <2>4 DEF row
  <2>6. QED
    BY <2>5 DEF HoldsBack, PreludeKinds
<1>11. Local(s)'
  BY <1>1, <1>10 DEF Local, Sent, InNode, At, Call
<1>12. QED
  BY <1>1, <1>4, <1>5, <1>6, <1>7, <1>8, <1>9, <1>11, FeedingGrows

LEMMA ClaimsFeeds ==
    ASSUME TypeOK, NEW s \in Segments, FeedingInv(s), reader[s] = "reading", Claims(s)
    PROVE  FeedingInv(s)'
<1> DEFINE put == <<Started(TRUE), ContextEvent(s)>>
<1>1. /\ s # 1 /\ At(s, {"setup"}) /\ Paused(pause) /\ worker'[s].at = "recording"
      /\ Log(s)' = pause.events /\ pause.events \in Seq(Rows) /\ put \in Seq(Events)
      /\ Puts(s, put) /\ Sent(s)' = Sent(s) /\ Elsewhere
  BY DEF Claims
<1>2. s > 1
  BY <1>1, StreamAssumption
<1>3. Sent(s) = Len(pause.events) /\ ~At(s, {"tail", "closed"})
  BY <1>1, <1>2 DEF FeedingInv, Sent, At
<1>4. Plain(put)
  <2>1. DOMAIN put = {1, 2} /\ put[1] = Started(TRUE) /\ put[2] = ContextEvent(s)
    OBVIOUS
  <2> HIDE DEF put
  <2>2. /\ IsPlain(Started(TRUE)) /\ IsPlain(ContextEvent(s))
        /\ Started(TRUE) # Started(FALSE) /\ ContextEvent(s) # Started(FALSE)
    BY DEF IsPlain, IsRow, IsStep, Verdicts, Started, ContextEvent
  <2>3. QED
    BY <2>1, <2>2 DEF Plain
<1> HIDE DEF put
<1>5. HoldsBack(Log(s)', Sent(s)')
  <2> DEFINE log == pause.events  l == Len(log)
  <2>1. l \in Nat /\ DOMAIN log = 1..l
    BY <1>1
  <2> HIDE DEF log, l
  <2>2. HoldsBack(log, l)
    BY <2>1 DEF HoldsBack
  <2>3. QED
    BY <1>1, <1>3, <2>2 DEF log, l
<1>6. Local(s)'
  BY <1>1, <1>5 DEF Local, Sent, InNode, At
<1>7. QED
  BY <1>1, <1>3, <1>4, <1>6, PlainFeeds

LEMMA FileFeeds ==
    ASSUME TypeOK, NEW s \in Segments, FeedingInv(s), reader[s] = "reading", File(s)
    PROVE  FeedingInv(s)'
<1>1. /\ At(s, {"filing"}) /\ filed' = [outcome |-> Outcome(State(s)), events |-> Log(s)]
      /\ Goes(s, "filed") /\ UNCHANGED <<stream, queue>> /\ Elsewhere
  BY DEF File, Log, Quietly
<1>2. worker'[s].at = "filed" /\ worker'[s].state = State(s)
  BY <1>1, GoesFacts DEF Places
<1>3. Puts(s, <<>>) /\ <<>> \in Seq(Events) /\ Plain(<<>>)
  BY <1>1, SaysNothing
<1>4. HoldsBack(Log(s), Sent(s)) /\ ~At(s, {"tail", "closed"})
  BY <1>1 DEF FeedingInv, Local, At, Running, Sent
<1>5. Log(s)' = Log(s) /\ State(s)' = State(s) /\ Sent(s)' = Sent(s)
  BY <1>1, <1>2 DEF Log, State, Sent
<1>6. HoldsBack(Log(s)', Sent(s)')
  BY <1>4, <1>5
<1>7. Filed(s)'
  <2>1. Outcome(State(s)') = Outcome(State(s))
    BY <1>5
  <2>2. QED
    BY <1>1, <1>5, <2>1 DEF Filed
<1>8. Local(s)'
  BY <1>2, <1>6, <1>7 DEF Local, Sent, InNode, At
<1>9. QED
  BY <1>1, <1>2, <1>3, <1>4, <1>5, <1>8, PlainFeeds

(***************************************************************************)
(* A thread sends the rows it held back.                                   *)
(***************************************************************************)
LEMMA RowsFeed ==
    ASSUME TypeOK, NEW s \in Segments, FeedingInv(s), reader[s] = "reading", Elsewhere,
           NEW log \in Seq(Rows), Sent(s) <= Len(log), LogShape(log),
           NEW e \in Events, Released(log, Sent(s), e), e.type # "started",
           Append(NewRows(s, log), e) \in Seq(Events), Puts(s, Append(NewRows(s, log), e)),
           worker'[s].at # "setup", Sent(s)' = Len(log), VerdictInv(s)', Local(s)'
    PROVE  FeedingInv(s)'
<1> DEFINE put == Append(NewRows(s, log), e)
<1>1. ASSUME NEW b, ~OfKind(b, Unclosed)
      PROVE  /\ Chained(b, put) /\ ~OfKind(LastOf(put, b), Unclosed)
             /\ \A n \in 1..Len(log) : n > Sent(s) => \E i \in DOMAIN put : RowAt(put[i], n)
             /\ \A i \in DOMAIN put : put[i].type = "row" \/ (i = Len(put) /\ put[i] = e)
  <2>1. /\ Chained(b, put) /\ LastOf(put, b) = e /\ ~OfKind(e, Unclosed)
        /\ \A n \in 1..Len(log) : n > Sent(s) => \E i \in DOMAIN put : RowAt(put[i], n)
        /\ \A i \in DOMAIN put : put[i].type = "row" \/ (i = Len(put) /\ put[i] = e)
    BY <1>1, RowsChained
  <2> HIDE DEF put
  <2>2. QED
    BY <2>1
<1>2. ~OfKind(LastOf(queue[s], LastShown), Unclosed)
  BY DEF FeedingInv
<1>3. put \in Seq(Events) /\ Puts(s, put)
  OBVIOUS
<1> HIDE DEF put
<1>4. Carries(put)
  BY <1>1 DEF Carries
<1>5. Sends(s, put)
  BY <1>1, <1>2 DEF Sends
<1>6. Restarts(s, put)
  <2>1. \A i \in DOMAIN put : put[i].type # "started"
    BY <1>1, <1>2
  <2>2. QED
    BY <2>1 DEF Restarts, Started
<1>7. Len(log) \in Nat
  OBVIOUS
<1>8. QED
  BY <1>3, <1>4, <1>5, <1>6, <1>7, FeedingGrows

\* What a step lets go: a node it leaves, a row of no node, or nothing open.
LEMMA StepReleases ==
    ASSUME TypeOK, ShapeInv, NEW s \in Segments, FeedingInv(s),
           NEW node, NEW state, Tells(s, node, state)
    PROVE  Released(state.events, Sent(s), StepEvent(s, node, state))
<1> DEFINE old == Log(s)  log == state.events  e == StepEvent(s, node, state)
           l == Len(old)  len == Len(log)  sent == Sent(s)
<1>1. /\ At(s, Running \ {"filing"}) /\ state \in States /\ node \in Nodes \cup {"none"}
      /\ \/ /\ InNode(s) /\ node = NodeAtWork(State(s))
            /\ log = Append(old, Row(node, "node_exited"))
         \/ ~InNode(s) /\ node = "none" /\ log = old
         \/ /\ ~InNode(s) /\ node = "none"
            /\ \E row \in Rows : /\ row.kind \in {"approval_recorded", "run_failed"}
                                 /\ log = Append(old, row)
  BY DEF Tells
<1>2. At(s, Running) /\ At(s, Running \cup {"filed"}) /\ ~At(s, {"setup", "closed"})
  BY <1>1 DEF At, Running
<1>3. HoldsBack(old, sent) /\ (InNode(s) => sent < l)
  BY <1>2 DEF FeedingInv, Local, Sent
<1>4. old \in Seq(Rows) /\ sent \in Nat /\ sent <= l /\ State(s) \in States
  BY <1>2, WorkerTypes DEF TypeOK, Sent, Log
<1>5. EndsIn(old, {"node_entered"}) <=> InNode(s)
  BY <1>2 DEF ShapeInv, ShapeOf
<1>6. /\ e.type = "step" /\ e.node = node /\ ~IsRow(e) /\ IsStep(e)
      /\ (ClosesNode(e) <=> node # "none")
  BY DEF StepEvent, IsRow, IsStep, ClosesNode
<1>7. l \in Nat /\ DOMAIN old = 1..l /\ (old = <<>> <=> l = 0)
  BY <1>4
<1>8. /\ \A k \in DOMAIN old : k > sent =>
            \/ old[k].kind \in PreludeKinds \cup {"memory_written"}
            \/ old[k].kind = "node_entered" /\ k = l
      /\ (InNode(s) <=> l # 0 /\ old[l].kind = "node_entered")
  BY <1>3, <1>5, <1>7 DEF HoldsBack, EndsIn
<1>9. \A k \in DOMAIN old : k > sent =>
        old[k].kind \notin {"node_exited", "approval_recorded", "run_failed"}
  BY <1>8 DEF PreludeKinds
<1>10. CASE InNode(s) /\ node = NodeAtWork(State(s)) /\ log = Append(old, Row(node, "node_exited"))
  <2> DEFINE row == Row(node, "node_exited")
  <2>1. EndsIn(State(s).events, {"node_entered"})
    BY <1>5, <1>10 DEF Log
  <2>2. old[l] = Row(node, "node_entered")
    BY <1>4, <1>10, <2>1, NodeEnteredLast DEF Log
  <2>3. l \in DOMAIN old
    BY <1>7, <1>8, <1>10
  <2>4. old[l] \in Rows
    BY <1>4, <2>3
  <2>5. node \in Nodes
    BY <2>2, <2>4 DEF Row, Rows
  <2>6. row \in Rows /\ row.kind = "node_exited"
    BY <2>5 DEF Row, Rows
  <2>7. /\ len = l + 1 /\ DOMAIN log = 1..(l + 1) /\ log[l + 1] = row
        /\ \A i \in DOMAIN old : log[i] = old[i]
    <3> HIDE DEF row
    <3>1. QED
      BY <1>4, <1>10, <2>6, LogGrows DEF row
  <2>8. node # "none" /\ sent < l
    BY <1>3, <1>10, <2>5 DEF Nodes
  <2> HIDE DEF old, log, e, l, len, sent
  <2>9. ASSUME NEW k \in DOMAIN log, k > sent
        PROVE  /\ log[k].kind = "node_exited" => k > sent + 1
               /\ log[k].kind = "node_entered" => k # len
               /\ log[k].kind \in {"node_exited", "approval_recorded", "run_failed"} => k = len
    <3>1. CASE k = l + 1
      BY <1>4, <1>7, <2>6, <2>7, <2>8, <3>1
    <3>2. CASE k # l + 1
      <4>1. k \in DOMAIN old /\ log[k] = old[k] /\ k # len
        BY <1>7, <2>7, <3>2
      <4>2. QED
        BY <1>9, <2>9, <4>1
    <3>3. QED
      BY <3>1, <3>2
  <2>10. len > sent /\ log[len] = Row(e.node, "node_exited")
    BY <1>4, <1>6, <1>7, <2>7, <2>8
  <2>11. log[len].kind = "node_exited" /\ ClosesNode(e)
    BY <1>6, <2>6, <2>7, <2>8
  <2>12. Released(log, sent, e)
    BY <1>6, <2>9, <2>10, <2>11 DEF Released, len
  <2>13. QED
    BY <2>12 DEF log, sent, e
<1>11. CASE ~InNode(s) /\ node = "none" /\ log = old
  <2> HIDE DEF old, log, e, l, sent
  <2>1. len = l
    BY <1>11 DEF l
  <2> HIDE DEF len
  <2>2. ASSUME NEW k \in DOMAIN log, k > sent
        PROVE  /\ log[k].kind \notin {"node_exited", "approval_recorded", "run_failed"}
               /\ log[k].kind = "node_entered" => k # len
    <3>1. k \in DOMAIN old /\ k \in 1..l
      BY <1>7, <1>11
    <3>2. log[k].kind \notin {"node_exited", "approval_recorded", "run_failed"}
      BY <1>9, <1>11, <2>2, <3>1
    <3>3. k = l => log[k].kind # "node_entered"
      BY <1>7, <1>8, <1>11, <3>1
    <3>4. QED
      BY <2>1, <3>2, <3>3
  <2>3. len > sent => len \in DOMAIN log
    BY <1>4, <1>7, <1>11, <2>1
  <2>4. len > sent =>
          log[len].kind \notin {"node_exited", "approval_recorded", "run_failed"}
    BY <2>2, <2>3
  <2>5. Released(log, sent, e)
    BY <1>6, <1>11, <2>2, <2>4 DEF Released, len
  <2>6. QED
    BY <2>5 DEF log, sent, e
<1>12. ASSUME ~InNode(s), node = "none",
              NEW row \in Rows, row.kind \in {"approval_recorded", "run_failed"},
              log = Append(old, row)
       PROVE  Released(log, sent, e)
  <2>1. /\ len = l + 1 /\ DOMAIN log = 1..(l + 1) /\ log[l + 1] = row
        /\ \A i \in DOMAIN old : log[i] = old[i]
    BY <1>4, <1>12, LogGrows
  <2> HIDE DEF old, log, e, l, len, sent
  <2>2. ASSUME NEW k \in DOMAIN log, k > sent
        PROVE  /\ log[k].kind # "node_exited"
               /\ log[k].kind = "node_entered" => k # len
               /\ log[k].kind \in {"approval_recorded", "run_failed"} => k = len
    <3>1. CASE k = l + 1
      BY <1>12, <2>1, <3>1
    <3>2. CASE k # l + 1
      <4>1. k \in DOMAIN old /\ log[k] = old[k] /\ k # len
        BY <1>7, <2>1, <3>2
      <4>2. QED
        BY <1>9, <2>2, <4>1
    <3>3. QED
      BY <3>1, <3>2
  <2>3. log[len].kind # "node_exited" /\ ~ClosesNode(e)
    BY <1>6, <1>12, <2>1
  <2>4. QED
    BY <1>6, <2>2, <2>3 DEF Released, len
<1>13. QED
  BY <1>1, <1>10, <1>11, <1>12

LEMMA TellsFeeds ==
    ASSUME TypeOK, ShapeInv, NEW s \in Segments, FeedingInv(s), reader[s] = "reading",
           NEW node, NEW state, Tells(s, node, state)
    PROVE  FeedingInv(s)'
<1> DEFINE log == state.events  e == StepEvent(s, node, state)  put == Append(NewRows(s, log), e)
<1>1. /\ At(s, Running) /\ At(s, Running)' /\ ~InNode(s)' /\ state \in States
      /\ State(s)' = state /\ put \in Seq(Events) /\ Puts(s, put)
      /\ Sent(s) <= Len(log) /\ Sent(s)' = Len(log) /\ Elsewhere
  BY DEF Tells, At
<1>2. log \in Seq(Rows) /\ Log(s)' = log
  BY <1>1 DEF States, Log
<1>3. ShapeInv'
  BY TellsShape
<1>4. LogShape(log)
  BY <1>2, <1>3 DEF ShapeInv, ShapeOf
<1>5. Released(log, Sent(s), e)
  BY StepReleases
<1>6. e.type = "step"
  BY DEF StepEvent
<1> HIDE DEF e
<1>7. e \in Events /\ \A i \in DOMAIN put : put[i].type = "row" \/ put[i] = e
  <2> DEFINE rows == NewRows(s, log)  l == Len(rows)  E == Events  T == Events \cup {e}
  <2>1. rows \in Seq(E) /\ l \in Nat /\ \A i \in DOMAIN rows : rows[i].type = "row"
    BY <1>1, <1>2, NewRowsFacts DEF Sent
  <2>2. put \in Seq(E)
    BY <1>1
  <2> HIDE DEF rows, E
  <2>3. rows \in Seq(T) /\ DOMAIN rows = 1..l
    BY <2>1 DEF E
  <2>4. e \in T
    OBVIOUS
  <2> HIDE DEF T
  <2>5. /\ Append(rows, e) \in Seq(T) /\ Len(Append(rows, e)) = l + 1
        /\ \A i \in 1..l : Append(rows, e)[i] = rows[i]
        /\ Append(rows, e)[l + 1] = e
    BY <2>3, <2>4, AppendProperties
  <2>6. put = Append(rows, e)
    BY DEF rows
  <2> HIDE DEF put
  <2>7. Len(put) = l + 1 /\ DOMAIN put = 1..Len(put)
    BY <2>5, <2>6
  <2> HIDE DEF l
  <2>8. l + 1 \in DOMAIN put /\ put[l + 1] = e
    BY <2>1, <2>5, <2>6, <2>7
  <2>9. e \in E
    BY <2>2, <2>8
  <2>10. \A i \in DOMAIN put : i \in 1..l \/ i = l + 1
    BY <2>1, <2>7
  <2>11. QED
    BY <2>1, <2>3, <2>5, <2>6, <2>9, <2>10 DEF E
<1>8. ~At(s, {"tail", "closed"}) /\ worker'[s].at # "setup" /\ ~At(s, {"filed"})'
  BY <1>1 DEF At, Running
<1>9. VerdictInv(s)'
  <2>1. NoVerdict(put)
    BY <1>6, <1>7 DEF NoVerdict, Verdicts
  <2> HIDE DEF put
  <2>2. QED
    BY <1>1, <1>8, <2>1, StillOpen DEF FeedingInv
<1>10. Local(s)'
  <2> DEFINE len == Len(log)
  <2>1. len \in Nat /\ DOMAIN log = 1..len
    BY <1>2
  <2> HIDE DEF log, len
  <2>2. HoldsBack(log, len)
    BY <2>1 DEF HoldsBack
  <2>3. HoldsBack(Log(s)', Sent(s)')
    BY <1>1, <1>2, <2>2 DEF len
  <2>4. QED
    BY <1>1, <1>8, <2>3 DEF Local, Sent
<1>11. QED
  <2> HIDE DEF log
  <2>1. QED
    BY <1>1, <1>2, <1>4, <1>5, <1>6, <1>7, <1>8, <1>9, <1>10, RowsFeed

LEMMA FlushFeeds ==
    ASSUME StreamInv, ShapeInv, NEW s \in Segments, FeedingInv(s), reader[s] = "reading", Flush(s)
    PROVE  FeedingInv(s)'
<1> DEFINE log == Log(s)  e == Verdict(State(s))  put == Append(NewRows(s, log), e)
           sent == Sent(s)  rows == NewRows(s, log)
<1>1. TypeOK /\ log \in Seq(Rows) /\ Sent(s) \in Nat /\ stream \in [Segments -> Streams]
  BY WorkerTypes DEF StreamInv, TypeOK, Sent
<1>2. /\ At(s, {"filed"}) /\ Puts(s, put) /\ Goes(s, "tail") /\ Elsewhere /\ Filing
      /\ stream' = [stream EXCEPT ![s].emitted = stream[s].emitted + Len(rows)]
  BY <1>1 DEF Flush, Put, Puts, Log
<1>3. sent <= Len(log)
  BY <1>1, <1>2 DEF TypeOK, At, Log, Sent
<1>4. e \in Events /\ e.type \in Verdicts
  BY EventForms DEF Verdict, PlainTypes, Verdicts
<1>5. Sent(s)' = Len(log)
  <2>1. stream'[s].emitted = stream[s].emitted + Len(rows)
    BY <1>1, <1>2 DEF Streams
  <2> DEFINE a == stream[s].emitted  b == Len(log)  c == Len(rows)
  <2>2. c = b - a /\ a \in Nat /\ b \in Nat
    BY <1>1, <1>3, NewRowsFacts DEF Sent
  <2> HIDE DEF a, b, c
  <2>3. a + c = b
    BY <2>2
  <2>4. QED
    BY <2>1, <2>3 DEF a, b, c, Sent
<1>6. worker'[s].at = "tail" /\ worker'[s].state = State(s)
  BY <1>1, <1>2, GoesFacts DEF Places
<1>7. /\ Filed(s) /\ HoldsBack(log, sent) /\ LogShape(log) /\ ~EndsIn(log, {"node_entered"})
  <2>1. Filed(s) /\ HoldsBack(log, sent)
    BY <1>2 DEF FeedingInv, Local, At, Sent
  <2>2. filed.events = log
    BY <2>1 DEF Filed
  <2>3. QED
    BY <2>1, <2>2 DEF ShapeInv
<1>8. put \in Seq(Events) /\ \A i \in DOMAIN put : put[i].type = "row" \/ (put[i] = e /\ i = Len(put))
  <2> DEFINE l == Len(rows)
  <2>1. rows \in Seq(Events) /\ l \in Nat /\ \A i \in DOMAIN rows : rows[i].type = "row"
    BY <1>1, <1>3, NewRowsFacts DEF Sent
  <2> DEFINE E == Events
  <2>2. rows \in Seq(E) /\ e \in E /\ DOMAIN rows = 1..l
    BY <1>4, <2>1
  <2> HIDE DEF rows, E, e
  <2>3. /\ Append(rows, e) \in Seq(E) /\ Len(Append(rows, e)) = l + 1
        /\ \A i \in 1..l : Append(rows, e)[i] = rows[i]
        /\ Append(rows, e)[l + 1] = e
    BY <2>2, AppendProperties
  <2>4. put = Append(rows, e)
    BY DEF rows
  <2> HIDE DEF put
  <2>5. Len(put) = l + 1 /\ DOMAIN put = 1..Len(put)
    BY <2>3, <2>4
  <2> HIDE DEF l
  <2>6. \A i \in DOMAIN put : i \in 1..l \/ i = l + 1
    BY <2>1, <2>5
  <2>7. QED
    BY <2>1, <2>2, <2>3, <2>4, <2>5, <2>6 DEF E
<1>9. Released(log, sent, e)
  <2> DEFINE len == Len(log)
  <2>1. len \in Nat /\ DOMAIN log = 1..len /\ (log = <<>> <=> len = 0)
    BY <1>1
  <2>2. len # 0 => log[len].kind # "node_entered"
    BY <1>7, <2>1 DEF EndsIn
  <2> HIDE DEF log, len, sent
  <2>3. ASSUME NEW k \in DOMAIN log, k > sent
        PROVE  log[k].kind \notin {"node_exited", "approval_recorded", "run_failed", "node_entered"}
    <3>1. \/ log[k].kind \in PreludeKinds \cup {"memory_written"}
          \/ log[k].kind = "node_entered" /\ k = Len(log)
      BY <1>7, <2>3 DEF HoldsBack
    <3>2. k = Len(log) => log[k].kind # "node_entered"
      BY <2>1, <2>2, <2>3 DEF len
    <3>3. QED
      BY <3>1, <3>2 DEF PreludeKinds
  <2>4. len > sent => len \in DOMAIN log
    BY <1>1, <2>1 DEF sent
  <2>5. ~IsRow(e) /\ ~ClosesNode(e)
    BY <1>4 DEF IsRow, IsStep, ClosesNode, Verdicts
  <2>6. len > sent => log[len].kind \notin {"node_exited", "approval_recorded", "run_failed"}
    BY <2>3, <2>4
  <2> HIDE DEF e
  <2>7. QED
    BY <2>3, <2>5, <2>6 DEF Released, len
<1> HIDE DEF put
<1>10. VerdictInv(s)'
  <2> DEFINE q == queue[s]  n == queue'[s]
  <2>1. Extends(n, q, put)
    BY <1>1, <1>2, <1>8, PutExtends
  <2>2. /\ \A i \in DOMAIN q : i \in DOMAIN n /\ n[i] = q[i]
        /\ \A i \in DOMAIN n : i \notin DOMAIN q =>
              i - Len(q) \in DOMAIN put /\ n[i] = put[i - Len(q)] /\ i > Len(q)
    <3> HIDE DEF q, n
    <3>1. QED
      BY <2>1, ExtendsFacts
  <2>3. Len(n) = Len(q) + Len(put) /\ DOMAIN n = 1..Len(n) /\ Len(n) \in Nat /\ Len(q) \in Nat
        /\ Len(put) \in Nat
    BY <2>1 DEF Extends
  <2>4. ~At(s, {"tail", "closed"})
    BY <1>2 DEF At
  <2>5. \A i \in DOMAIN q : q[i].type \notin Verdicts
    BY <2>4 DEF FeedingInv, VerdictInv
  <2>6. Filed(s)' /\ (Sent(s) = Len(Log(s)))' /\ Log(s)' = log /\ State(s)' = State(s)
    <3>1. Log(s)' = log /\ State(s)' = State(s) /\ filed' = filed
      BY <1>2, <1>6 DEF Log, State, Filing
    <3>2. Outcome(State(s)') = Outcome(State(s))
      BY <3>1
    <3>3. Filed(s)'
      BY <1>7, <3>1, <3>2 DEF Filed
    <3>4. QED
      BY <1>5, <3>1, <3>3
  <2> HIDE DEF q, n
  <2>7. ASSUME NEW i \in DOMAIN n, n[i].type \in Verdicts
        PROVE  n[i] = e /\ \A j \in DOMAIN n : ~(j > i)
    <3>1. i \notin DOMAIN q
      BY <2>2, <2>5, <2>7
    <3>2. i - Len(q) \in DOMAIN put /\ n[i] = put[i - Len(q)]
      BY <2>2, <3>1
    <3>3. n[i] = e /\ i - Len(q) = Len(put)
      BY <1>8, <2>7, <3>2 DEF Verdicts
    <3>4. \A j \in DOMAIN n : ~(j > i)
      BY <2>3, <3>3
    <3>5. QED
      BY <3>3, <3>4
  <2>8. e = Verdict(State(s)')
    BY <2>6
  <2>9. At(s, {"tail", "closed"})'
    BY <1>6 DEF At
  <2> HIDE DEF e
  <2>10. QED
    BY <2>6, <2>7, <2>8, <2>9 DEF VerdictInv, Sent, n
<1>11. Local(s)'
  BY <1>6 DEF Local, InNode, At, Running
<1>12. e.type # "started"
  BY <1>4 DEF Verdicts
<1>13. QED
  <2> HIDE DEF log, e
  <2>1. QED
    BY <1>1, <1>2, <1>3, <1>4, <1>5, <1>6, <1>7, <1>8, <1>9, <1>10, <1>11, <1>12, RowsFeed
       DEF put, sent

(***************************************************************************)
(* A thread says its last.                                                 *)
(***************************************************************************)
\* Events that close a stream, whatever became of its turn.
Lasts(put) == \A i \in DOMAIN put : put[i].type \in Trailing

LEMMA ClosingLasts ==
    ASSUME NEW why \in {"finished", "error"}
    PROVE  /\ Closing(why) \in Seq(Events) /\ Lasts(Closing(why)) /\ Rowless(Closing(why))
           /\ Closing(why) # <<>> /\ Closing(why)[1].type = why
<1>1. [type |-> why] \in Events /\ EndOfStream \in Events
  BY EventForms DEF PlainTypes, EndOfStream
<1> DEFINE a == [type |-> why]  b == EndOfStream  c == <<a, b>>
<1>2. a.type = why /\ b.type = "end"
  BY DEF EndOfStream
<1> HIDE DEF a, b
<1>3. c \in Seq(Events) /\ DOMAIN c = {1, 2} /\ c[1] = a /\ c[2] = b /\ c # <<>>
  BY <1>1 DEF a, b
<1> HIDE DEF c
<1>4. Lasts(c) /\ Rowless(c)
  BY <1>2, <1>3 DEF Lasts, Rowless, Trailing, IsRow, IsStep
<1>5. Closing(why) = c
  BY DEF Closing, a, b, c
<1>6. QED
  BY <1>2, <1>3, <1>4, <1>5

LEMMA LastsFeed ==
    ASSUME TypeOK, NEW s \in Segments, FeedingInv(s), reader[s] = "reading",
           NEW put \in Seq(Events), Puts(s, put), Rowless(put), Elsewhere,
           At(s, {"tail", "closed"}) => Lasts(put), NoVerdict(put), Restarts(s, put),
           worker'[s].at = "closed", worker'[s].state = State(s), stream' = stream, filed' = filed
    PROVE  FeedingInv(s)'
<1> DEFINE q == queue[s]  n == queue'[s]
<1>1. Extends(n, q, put)
  BY PutExtends
<1>2. /\ \A i \in DOMAIN q : i \in DOMAIN n /\ n[i] = q[i]
      /\ \A i \in DOMAIN n : i \notin DOMAIN q => i - Len(q) \in DOMAIN put /\ n[i] = put[i - Len(q)]
  <2> HIDE DEF q, n
  <2>1. QED
    BY <1>1, ExtendsFacts
<1>3. Log(s)' = Log(s) /\ State(s)' = State(s) /\ Sent(s)' = Sent(s) /\ At(s, {"tail", "closed"})'
  BY DEF Log, State, Sent, At
<1>4. Filed(s) => Filed(s)'
  <2>1. Outcome(State(s)') = Outcome(State(s))
    BY <1>3
  <2>2. QED
    BY <1>3, <2>1 DEF Filed
<1>5. VerdictInv(s)
  BY DEF FeedingInv
<1>6. ASSUME NEW i \in DOMAIN n, n[i].type \in Verdicts
      PROVE  /\ Filed(s)' /\ Sent(s)' = Len(Log(s)') /\ n[i] = Verdict(State(s)')
             /\ \A j \in DOMAIN n : j > i => n[j].type \in Trailing
  <2>1. i \in DOMAIN q /\ q[i].type \in Verdicts /\ n[i] = q[i]
    BY <1>2, <1>6 DEF NoVerdict
  <2>2. /\ At(s, {"tail", "closed"}) /\ Filed(s) /\ Sent(s) = Len(Log(s))
        /\ q[i] = Verdict(State(s))
        /\ \A j \in DOMAIN q : j > i => q[j].type \in Trailing
    BY <1>5, <2>1 DEF VerdictInv, Sent
  <2>3. \A j \in DOMAIN n : j > i => n[j].type \in Trailing
    BY <1>2, <2>2 DEF Lasts
  <2>4. QED
    BY <1>3, <1>4, <2>1, <2>2, <2>3
<1>7. VerdictInv(s)'
  BY <1>3, <1>6 DEF VerdictInv, Sent
<1>8. Local(s)'
  BY DEF Local, InNode, At, Running
<1>9. Sent(s) \in Nat
  BY WorkerTypes DEF Sent
<1>10. Sends(s, put)
  BY <1>3, <1>9 DEF Sends
<1>11. Carries(put)
  BY RowlessCarries
<1>12. QED
  BY <1>3, <1>7, <1>8, <1>9, <1>10, <1>11, FeedingGrows

LEMMA ClosingFeeds ==
    ASSUME TypeOK, NEW s \in Segments, FeedingInv(s), reader[s] = "reading",
           Breaks(s) \/ Finish(s)
    PROVE  FeedingInv(s)'
<1>1. /\ At(s, {"setup", "call_tool", "filing", "tail"}) /\ Goes(s, "closed")
      /\ UNCHANGED stream /\ Elsewhere /\ Filing
      /\ \E why \in {"finished", "error"} : Puts(s, Closing(why))
  BY DEF Breaks, Finish, Put, Puts, At
<1>2. PICK why \in {"finished", "error"} : Puts(s, Closing(why))
  BY <1>1
<1> DEFINE put == Closing(why)
<1>3. put \in Seq(Events) /\ Lasts(put) /\ Rowless(put)
  BY ClosingLasts
<1> HIDE DEF put
<1>4. NoVerdict(put) /\ Restarts(s, put)
  BY <1>3 DEF Lasts, NoVerdict, Restarts, Trailing, Verdicts, Started
<1>5. worker'[s].at = "closed" /\ worker'[s].state = State(s)
  BY <1>1, GoesFacts DEF Places
<1>6. QED
  BY <1>1, <1>2, <1>3, <1>4, <1>5, LastsFeed DEF put, Filing

\* A stream that lost the race for its pause.
LEMMA LostFacts ==
    LET put == <<Started(TRUE)>> \o Closing("error") IN
    /\ put \in Seq(Events) /\ Rowless(put) /\ put # <<>> /\ put[1].type = "started"
    /\ \A i \in DOMAIN put : put[i] = Started(TRUE) \/ put[i].type \in Trailing
<1> DEFINE a == <<Started(TRUE)>>  b == Closing("error")  put == a \o b  E == Events
<1>1. Started(TRUE) \in Events /\ Started(TRUE).type = "started"
  BY EventForms DEF Started
<1>2. a \in Seq(E) /\ DOMAIN a = {1} /\ a[1] = Started(TRUE) /\ Len(a) = 1
  BY <1>1, OneEvent
<1>3. b \in Seq(E) /\ Lasts(b)
  BY ClosingLasts
<1> HIDE DEF a, b, E
<1>4. /\ put \in Seq(E) /\ Len(put) = Len(a) + Len(b)
      /\ \A i \in DOMAIN a : put[i] = a[i]
      /\ \A i \in DOMAIN put : i \notin DOMAIN a =>
            i - Len(a) \in DOMAIN b /\ put[i] = b[i - Len(a)]
  BY <1>2, <1>3, Joined, ConcatProperties
<1>5. Len(b) \in Nat
  BY <1>3
<1> HIDE DEF put
<1>6. put # <<>>
  <2>1. Len(put) # 0
    BY <1>2, <1>4, <1>5
  <2>2. QED
    BY <2>1
<1>7. put[1] = Started(TRUE)
  BY <1>2, <1>4
<1>8. \A i \in DOMAIN put : put[i] = Started(TRUE) \/ put[i].type \in Trailing
  BY <1>2, <1>3, <1>4 DEF Lasts
<1>9. Rowless(put)
  BY <1>1, <1>8 DEF Rowless, Trailing, IsRow, IsStep
<1>10. put \in Seq(Events)
  BY <1>4 DEF E
<1>11. QED
  BY <1>1, <1>6, <1>7, <1>8, <1>9, <1>10 DEF put, a, b

LEMMA LosingFeeds ==
    ASSUME TypeOK, NEW s \in Segments, FeedingInv(s), reader[s] = "reading", LoseClaim(s)
    PROVE  FeedingInv(s)'
<1> DEFINE put == <<Started(TRUE)>> \o Closing("error")
<1>1. /\ At(s, {"setup"}) /\ Goes(s, "closed") /\ UNCHANGED <<stream, filed>> /\ Elsewhere
      /\ Puts(s, put)
  BY DEF LoseClaim, Put, Puts
<1>2. /\ put \in Seq(Events) /\ Rowless(put)
      /\ \A i \in DOMAIN put : put[i] = Started(TRUE) \/ put[i].type \in Trailing
  BY LostFacts
<1> HIDE DEF put
<1>3. NoVerdict(put) /\ Restarts(s, put)
  BY <1>2 DEF NoVerdict, Restarts, Trailing, Verdicts, Started
<1>4. worker'[s].at = "closed" /\ worker'[s].state = State(s)
  BY <1>1, GoesFacts DEF Places
<1>5. ~At(s, {"tail", "closed"})
  BY <1>1 DEF At
<1>6. QED
  BY <1>1, <1>2, <1>3, <1>4, <1>5, LastsFeed

LEMMA TurnFeeds ==
    ASSUME StreamInv, ShapeInv, StartInv, NEW s \in Segments, FeedingInv(s),
           reader[s] = "reading", Turn(s)
    PROVE  FeedingInv(s)'
<1>1. TypeOK
  BY DEF StreamInv
<1>2. \/ \E put : GoesOn(s, put)
      \/ \E row : Adds(s, row)
      \/ \E node, state : Tells(s, node, state)
      \/ Begins(s) \/ Claims(s)
      \/ Breaks(s) \/ Finish(s) \/ Flush(s) \/ LoseClaim(s) \/ File(s)
  BY TurnForms
<1>3. ASSUME NEW put, GoesOn(s, put) PROVE FeedingInv(s)'
  BY <1>1, <1>3, GoesOnFeeds
<1>4. ASSUME NEW row, Adds(s, row) PROVE FeedingInv(s)'
  BY <1>1, <1>4, AddsFeeds
<1>5. ASSUME NEW node, NEW state, Tells(s, node, state) PROVE FeedingInv(s)'
  BY <1>1, <1>5, TellsFeeds
<1>6. QED
  BY <1>1, <1>2, <1>3, <1>4, <1>5, BeginsFeeds, ClaimsFeeds, ClosingFeeds, FlushFeeds,
     LosingFeeds, FileFeeds

(***************************************************************************)
(* A thread steps while somebody watches.                                  *)
(***************************************************************************)
LEMMA TurnElsewhere ==
    ASSUME StreamInv, NEW s \in Segments, Turn(s)
    PROVE  Elsewhere /\ s \in Opened /\ Alone(s) /\ ~At(s, {"closed"})
<1>1. Elsewhere
  <2>1. ASSUME \/ Breaks(s) \/ Begin(s) \/ Introduce(s) \/ Speak(s) \/ Retry(s)
               \/ DeclarationEnds(s) \/ DecisionArrives(s) \/ CallSettlesTurn(s)
               \/ EnterNode(s) \/ OutOfBudget(s) \/ EngineStops(s) \/ Decide(s)
        PROVE  Elsewhere
    BY <2>1, Zenon DEF Breaks, Begin, Introduce, Speak, Retry, DeclarationEnds, DecisionArrives,
       CallSettlesTurn, EnterNode, OutOfBudget, EngineStops, Decide
  <2>2. ASSUME \/ Preflight(s) \/ RunTool(s) \/ SearchOnce(s) \/ Retrieved(s) \/ LeaveNode(s)
               \/ Consolidate(s) \/ File(s) \/ Flush(s) \/ Finish(s)
               \/ Claim(s) \/ LoseClaim(s) \/ RecordDecision(s) \/ Deny(s)
        PROVE  Elsewhere
    BY <2>2, Zenon DEF Preflight, RunTool, SearchOnce, Retrieved, LeaveNode, Consolidate, File,
       Flush, Finish, Claim, LoseClaim, RecordDecision, Deny
  <2>3. QED
    BY <2>1, <2>2, Zenon DEF Turn
<1>2. Alone(s) /\ ~At(s, {"idle", "closed"})
  BY TurnMoves
<1>3. reader[s] # "none"
  BY <1>2 DEF StreamInv, TypeOK, QueueOK, At
<1>4. QED
  BY <1>1, <1>2, <1>3 DEF Opened, At

\* After the verdict there is only the end of the stream to come.
LEMMA FromTail ==
    ASSUME StreamInv, NEW s \in Segments, Turn(s), At(s, {"tail"})
    PROVE  /\ worker'[s].at = "closed" /\ UNCHANGED stream /\ Filing
           /\ \E why \in {"finished", "error"} : Puts(s, Closing(why))
<1>1. TypeOK
  BY DEF StreamInv
<1>2. \/ \E put : GoesOn(s, put)
      \/ \E row : Adds(s, row)
      \/ \E node, state : Tells(s, node, state)
      \/ Begins(s) \/ Claims(s)
      \/ Breaks(s) \/ Finish(s) \/ Flush(s) \/ LoseClaim(s) \/ File(s)
  BY TurnForms
<1>3. ~At(s, Running) /\ ~At(s, {"setup"}) /\ ~At(s, {"filed"}) /\ ~At(s, {"filing"})
      /\ ~At(s, Running \ {"filing"})
  BY DEF At, Running
<1>4. Breaks(s) \/ Finish(s)
  BY <1>2, <1>3 DEF GoesOn, Adds, Tells, Begins, Claims, Flush, LoseClaim, File
<1>5. /\ Goes(s, "closed") /\ UNCHANGED stream /\ Filing
      /\ \E why \in {"finished", "error"} : Puts(s, Closing(why))
  BY <1>4 DEF Breaks, Finish, Put, Puts, At
<1>6. worker'[s].at = "closed"
  BY <1>1, <1>5, GoesFacts DEF Places
<1>7. QED
  BY <1>5, <1>6

\* An approver's stream first says that it started, or that it failed.
LEMMA FromSetup ==
    ASSUME StreamInv, NEW s \in Segments, Turn(s), At(s, {"setup"}), s > 1
    PROVE  \E put \in Seq(Events) :
             Puts(s, put) /\ put # <<>> /\ put[1].type \in {"started", "error"}
<1>1. \/ \E put : GoesOn(s, put)
      \/ \E row : Adds(s, row)
      \/ \E node, state : Tells(s, node, state)
      \/ Begins(s) \/ Claims(s)
      \/ Breaks(s) \/ Finish(s) \/ Flush(s) \/ LoseClaim(s) \/ File(s)
  BY TurnForms
<1>2. ~At(s, Running \ {"filing"}) /\ ~At(s, {"filed"}) /\ ~At(s, {"filing"}) /\ ~At(s, {"tail"})
  BY DEF At, Running
<1>0. s # 1
  OBVIOUS
<1>3. Claims(s) \/ Breaks(s) \/ LoseClaim(s)
  BY <1>0, <1>1, <1>2 DEF GoesOn, Adds, Tells, Begins, Flush, Finish, File
<1>4. CASE Claims(s)
  <2> DEFINE put == <<Started(TRUE), ContextEvent(s)>>
  <2>1. Puts(s, put) /\ put \in Seq(Events)
    BY <1>4 DEF Claims
  <2>2. put # <<>> /\ put[1] = Started(TRUE)
    OBVIOUS
  <2> HIDE DEF put
  <2>3. put[1].type = "started"
    BY <2>2 DEF Started
  <2>4. QED
    BY <2>1, <2>2, <2>3
<1>5. CASE Breaks(s)
  <2>1. Puts(s, Closing("error"))
    BY <1>5 DEF Breaks, Put, Puts
  <2>2. /\ Closing("error") \in Seq(Events) /\ Closing("error") # <<>>
        /\ Closing("error")[1].type = "error"
    BY ClosingLasts
  <2>3. QED
    BY <2>1, <2>2
<1>6. CASE LoseClaim(s)
  <2> DEFINE put == <<Started(TRUE)>> \o Closing("error")
  <2>1. Puts(s, put)
    BY <1>6 DEF LoseClaim, Put, Puts
  <2>2. put \in Seq(Events) /\ put # <<>> /\ put[1].type = "started"
    BY LostFacts
  <2> HIDE DEF put
  <2>3. QED
    BY <2>1, <2>2
<1>7. QED
  BY <1>3, <1>4, <1>5, <1>6

\* A message that another thread feeds.
LEMMA FeedsOn ==
    ASSUME TypeOK, NEW r \in Segments, FeedingInv(r), view' = view,
           worker'[r] = worker[r], stream'[r] = stream[r], queue'[r] = queue[r],
           pause' = pause, filed' = filed
    PROVE  FeedingInv(r)'
<1>1. /\ State(r)' = State(r) /\ Log(r)' = Log(r) /\ Sent(r)' = Sent(r)
      /\ InNode(r)' = InNode(r) /\ LastShown' = LastShown
      /\ (\A places : At(r, places)' = At(r, places))
      /\ (\A n : IsShown(n)' = IsShown(n))
  BY DEF State, Log, Sent, InNode, At, Call, LastShown, IsShown
<1>2. Filed(r)' = Filed(r)
  <2>1. Outcome(State(r)') = Outcome(State(r))
    BY <1>1
  <2>2. QED
    BY <1>1, <2>1 DEF Filed
<1>3. Arrives(r)'
  BY <1>1 DEF FeedingInv, Arrives
<1>4. VerdictInv(r)'
  <2>1. VerdictInv(r)
    BY DEF FeedingInv
  <2>2. Verdict(State(r))' = Verdict(State(r))
    BY <1>1
  <2>3. At(r, {"tail", "closed"})' = At(r, {"tail", "closed"})
    BY <1>1
  <2>4. (stream[r].emitted = Len(Log(r)))' = (stream[r].emitted = Len(Log(r)))
    BY <1>1
  <2>5. QED
    BY <1>2, <2>1, <2>2, <2>3, <2>4 DEF VerdictInv
<1>5. Local(r)'
  <2>1. Local(r)
    BY DEF FeedingInv
  <2>2. HoldsBack(Log(r), stream[r].emitted)' = HoldsBack(Log(r), stream[r].emitted)
    BY <1>1
  <2>3. QED
    BY <1>1, <1>2, <2>1, <2>2 DEF Local
<1>6. QED
  BY <1>1, <1>3, <1>4, <1>5 DEF FeedingInv

\* A thread puts on its own queue.
LEMMA TurnPuts ==
    ASSUME StreamInv, NEW s \in Segments, Turn(s)
    PROVE  \E put \in Seq(Events) : Puts(s, put)
<1>1. TypeOK
  BY DEF StreamInv
<1>2. \/ \E put : GoesOn(s, put)
      \/ \E row : Adds(s, row)
      \/ \E node, state : Tells(s, node, state)
      \/ Begins(s) \/ Claims(s)
      \/ Breaks(s) \/ Finish(s) \/ Flush(s) \/ LoseClaim(s) \/ File(s)
  BY TurnForms
<1>3. CASE \/ \E put : GoesOn(s, put)
           \/ \E node, state : Tells(s, node, state)
  BY <1>3 DEF GoesOn, Tells
<1>4. CASE (\E row : Adds(s, row)) \/ File(s)
  <2>1. UNCHANGED queue
    BY <1>4 DEF Adds, File, Quietly
  <2>2. QED
    BY <1>1, <2>1, Silence
<1>5. CASE Begins(s)
  <2>1. Started(FALSE) \in Events
    BY EventForms DEF Started
  <2>2. <<Started(FALSE)>> \in Seq(Events) /\ Puts(s, <<Started(FALSE)>>)
    BY <1>5, <2>1, OneEvent DEF Begins
  <2>3. QED
    BY <2>2
<1>6. CASE Claims(s)
  BY <1>6 DEF Claims
<1>7. CASE Breaks(s) \/ Finish(s)
  <2>1. \E why \in {"finished", "error"} : Puts(s, Closing(why))
    BY <1>7 DEF Breaks, Finish, Put, Puts
  <2>2. QED
    BY <2>1, ClosingLasts
<1>8. CASE Flush(s)
  <2> DEFINE log == Log(s)  e == Verdict(State(s))  put == Append(NewRows(s, log), e)
  <2>1. Puts(s, put) /\ At(s, {"filed"})
    BY <1>8 DEF Flush, Put, Puts, Log
  <2>2. log \in Seq(Rows) /\ stream[s].emitted <= Len(log)
    BY <1>1, <2>1, WorkerTypes DEF TypeOK, At, Log
  <2>3. e \in Events /\ e.type \notin {"row", "token", "end"}
    BY EventForms DEF Verdict, PlainTypes
  <2>4. put \in Seq(Events)
    <3> HIDE DEF log, e
    <3>1. QED
      BY <1>1, <2>2, <2>3, RowsThenEvent
  <2>5. QED
    BY <2>1, <2>4
<1>9. CASE LoseClaim(s)
  <2> DEFINE put == <<Started(TRUE)>> \o Closing("error")
  <2>1. Puts(s, put)
    BY <1>9 DEF LoseClaim, Put, Puts
  <2>2. put \in Seq(Events)
    BY LostFacts
  <2> HIDE DEF put
  <2>3. QED
    BY <2>1, <2>2
<1>10. QED
  BY <1>2, <1>3, <1>4, <1>5, <1>6, <1>7, <1>8, <1>9

LEMMA WholeTurn ==
    ASSUME StreamInv, ShapeInv, StartInv, WholeInv, NEW s \in Segments, Turn(s)
    PROVE  WholeInv'
<1> SUFFICES ASSUME Whole'
             PROVE  /\ (\A r \in Opened : reader[r] # "reading" => At(r, {"tail", "closed"}))'
                    /\ (view[1].status \in {"paused", "done"} =>
                          \/ Settled /\ \A r \in Opened : AtRest(r)
                          \/ \E r \in Opened : Pending(r))'
                    /\ Chained(Nothing, view[1].timeline)'
                    /\ (\A r \in Opened : Feeds(r) => FeedingInv(r))'
  BY DEF WholeInv
<1>1. TypeOK /\ FeedInv /\ \A r \in Segments : QueueOK(r)
  BY DEF StreamInv, TypeOK
<1>2. Elsewhere /\ s \in Opened /\ Alone(s) /\ ~At(s, {"closed"})
  BY TurnElsewhere
<1>3. view' = view /\ reader' = reader /\ message' = message
  BY <1>2 DEF Elsewhere
<1>4. /\ Opened' = Opened /\ (\A r : Feeds(r)' = Feeds(r)) /\ Whole /\ Opened \subseteq Segments
  BY <1>3 DEF Opened, Feeds, Whole
<1>5. /\ \A r \in Opened : reader[r] # "reading" => At(r, {"tail", "closed"})
      /\ view[1].status \in {"paused", "done"} =>
            \/ Settled /\ \A r \in Opened : AtRest(r)
            \/ \E r \in Opened : Pending(r)
      /\ Chained(Nothing, view[1].timeline)
      /\ \A r \in Opened : Feeds(r) => FeedingInv(r)
  BY <1>4 DEF WholeInv
<1>6. ASSUME At(s, {"tail"})
      PROVE  /\ worker'[s].at = "closed" /\ UNCHANGED stream /\ pause' = pause /\ filed' = filed
             /\ \E why \in {"finished", "error"} : Puts(s, Closing(why))
  BY <1>6, FromTail DEF Filing
<1>7. \A r \in Segments \ {s} : worker'[r] = worker[r]
  BY <1>2 DEF Alone
<1>8. \A r \in Segments \ {s} : queue'[r] = queue[r]
  BY <1>1, TurnPuts, PutFacts
<1>9. ASSUME NEW r \in Opened, reader'[r] # "reading" PROVE At(r, {"tail", "closed"})'
  <2>1. At(r, {"tail", "closed"})
    BY <1>3, <1>5, <1>9
  <2>2. CASE r = s
    BY <1>2, <1>6, <2>1, <2>2 DEF At
  <2>3. CASE r # s
    BY <1>4, <1>7, <2>1, <2>3 DEF At
  <2>4. QED
    BY <2>2, <2>3
<1>10. ASSUME view'[1].status \in {"paused", "done"}
       PROVE  \/ Settled' /\ \A r \in Opened : AtRest(r)'
              \/ \E r \in Opened : Pending(r)'
  <2>1. view[1].status \in {"paused", "done"}
    BY <1>3, <1>10
  <2>2. CASE Settled /\ \A r \in Opened : AtRest(r)
    <3>1. At(s, {"tail"}) /\ \A i \in DOMAIN queue[s] : queue[s][i].type \in Trailing
      BY <1>2, <2>2 DEF AtRest, At
    <3>2. /\ worker'[s].at = "closed" /\ pause' = pause /\ filed' = filed
          /\ \E why \in {"finished", "error"} : Puts(s, Closing(why))
      BY <1>6, <3>1
    <3>3. PICK why \in {"finished", "error"} : Puts(s, Closing(why))
      BY <3>2
    <3> DEFINE put == Closing(why)
    <3>4. put \in Seq(Events) /\ Lasts(put)
      BY ClosingLasts
    <3> HIDE DEF put
    <3>5. \A i \in DOMAIN queue'[s] : queue'[s][i].type \in Trailing
      <4>1. CASE reader[s] = "reading"
        <5>1. Extends(queue'[s], queue[s], put)
          BY <1>1, <3>3, <3>4, <4>1, PutExtends DEF put
        <5>2. /\ \A i \in DOMAIN queue[s] : queue'[s][i] = queue[s][i]
              /\ \A i \in DOMAIN queue'[s] : i \notin DOMAIN queue[s] =>
                    i - Len(queue[s]) \in DOMAIN put /\ queue'[s][i] = put[i - Len(queue[s])]
          BY <5>1 DEF Extends
        <5>3. QED
          BY <3>1, <3>4, <5>2 DEF Lasts
      <4>2. CASE reader[s] # "reading"
        BY <3>1, <3>3, <4>2 DEF Puts
      <4>3. QED
        BY <4>1, <4>2
    <3>6. AtRest(s)'
      BY <3>2, <3>5 DEF AtRest, At
    <3>7. ASSUME NEW r \in Opened, r # s PROVE AtRest(r)'
      <4>1. worker'[r] = worker[r] /\ queue'[r] = queue[r] /\ AtRest(r)
        BY <1>4, <1>7, <1>8, <2>2, <3>7
      <4>2. QED
        BY <4>1 DEF AtRest, At
    <3>8. Settled'
      BY <1>3, <2>2, <3>2 DEF Settled, IsShown, LastShown
    <3>9. QED
      BY <3>6, <3>7, <3>8
  <2>3. ASSUME NEW p \in Opened, Pending(p) PROVE Pending(p)'
    <3>1. /\ p > 1 /\ Feeds(p) /\ Feeds(p)' /\ p \in Segments
          /\ queue[p] = <<>> => At(p, {"setup"})
          /\ queue[p] # <<>> => queue[p][1].type \in {"started", "error"}
      BY <1>4, <2>3 DEF Pending
    <3>2. CASE p # s
      <4>1. worker'[p] = worker[p] /\ queue'[p] = queue[p]
        BY <1>7, <1>8, <3>1, <3>2
      <4>2. QED
        BY <3>1, <4>1 DEF Pending, At
    <3>3. CASE p = s /\ queue[s] # <<>>
      <4>1. PICK put \in Seq(Events) : Puts(s, put)
        BY TurnPuts
      <4>2. Extends(queue'[s], queue[s], put)
        BY <1>1, <3>1, <3>3, <4>1, PutExtends DEF Feeds
      <4>3. queue'[s] # <<>> /\ queue'[s][1] = queue[s][1]
        BY <3>3, <4>2, ExtendsFacts
      <4>4. QED
        BY <3>1, <3>3, <4>3 DEF Pending
    <3>4. CASE p = s /\ queue[s] = <<>>
      <4>1. PICK put \in Seq(Events) :
               Puts(s, put) /\ put # <<>> /\ put[1].type \in {"started", "error"}
        BY <3>1, <3>4, FromSetup
      <4>2. Extends(queue'[s], queue[s], put)
        BY <1>1, <3>1, <3>4, <4>1, PutExtends DEF Feeds
      <4>3. 1 \in DOMAIN put
        BY <4>1
      <4>4. 1 + Len(queue[s]) \in DOMAIN queue'[s] /\ queue'[s][1 + Len(queue[s])] = put[1]
            /\ Len(queue[s]) = 0
        BY <3>4, <4>2, <4>3, ExtendsFacts
      <4>5. 1 \in DOMAIN queue'[s] /\ queue'[s][1] = put[1]
        BY <4>4
      <4>6. DOMAIN <<>> = {}
        OBVIOUS
      <4>7. queue'[s] # <<>>
        BY <4>5, <4>6
      <4>8. QED
        BY <3>1, <3>4, <4>1, <4>5, <4>7 DEF Pending
    <3>5. QED
      BY <3>2, <3>3, <3>4
  <2>4. QED
    BY <1>5, <2>1, <2>2, <2>3
<1>11. ASSUME NEW r \in Opened, Feeds(r) PROVE FeedingInv(r)'
  <2>1. FeedingInv(r) /\ r \in Segments /\ reader[r] = "reading" /\ message[r] = 1
    BY <1>4, <1>5, <1>11 DEF Feeds
  <2>2. CASE r = s
    BY <2>1, <2>2, TurnFeeds
  <2>3. CASE r # s
    <3>1. message[s] = 1
      BY <1>2, <1>4 DEF Whole
    <3>2. reader[s] # "reading"
      BY <1>1, <2>1, <2>3, <3>1 DEF FeedInv
    <3>3. At(s, {"tail"})
      BY <1>2, <1>5, <3>2 DEF At
    <3>4. UNCHANGED stream /\ pause' = pause /\ filed' = filed
      BY <1>6, <3>3
    <3>5. worker'[r] = worker[r] /\ queue'[r] = queue[r] /\ stream'[r] = stream[r]
      BY <1>7, <1>8, <2>1, <2>3, <3>4
    <3>6. QED
      BY <1>1, <1>3, <2>1, <3>4, <3>5, FeedsOn
  <2>4. QED
    BY <2>2, <2>3
<1>12. Chained(Nothing, view[1].timeline)'
  BY <1>3, <1>5
<1>13. QED
  BY <1>3, <1>4, <1>9, <1>10, <1>11, <1>12

(***************************************************************************)
(* A response is opened, written to, and closed.                           *)
(***************************************************************************)
LEMMA WholeAsk ==
    ASSUME StreamInv, StartInv, Ask
    PROVE  WholeInv'
<1>1. TypeOK /\ HandoverInv /\ 1 \in Segments /\ \A r \in Segments : QueueOK(r)
  BY StreamAssumption DEF StreamInv, TypeOK
<1>2. /\ At(1, {"idle"}) /\ Goes(1, "setup") /\ reader' = [reader EXCEPT ![1] = "reading"]
      /\ stream' = stream /\ queue' = queue /\ message' = message /\ view' = view
      /\ pause' = pause /\ filed' = filed
  BY DEF Ask, At, Filing
<1>3. worker'[1].at = "setup"
  BY <1>1, <1>2, GoesFacts DEF Places
<1>4. Unsent(1) /\ reader[1] = "none"
  BY <1>1, <1>2 DEF Unsent, At, QueueOK
<1>5. view[1] = InitialTurn /\ queue[1] = <<>> /\ stream[1].emitted = 0
  BY <1>1, <1>4 DEF StartInv, HandoverInv
<1>6. ASSUME NEW r \in Segments, r # 1 PROVE reader'[r] = "none"
  <2>1. At(r, {"idle"})
    BY <1>1, <1>4, <1>6 DEF HandoverInv
  <2>2. reader[r] = "none"
    BY <1>1, <2>1 DEF QueueOK
  <2>3. QED
    BY <1>1, <1>2, <1>6, <2>2 DEF TypeOK
<1>7. reader'[1] = "reading"
  BY <1>1, <1>2 DEF TypeOK
<1>8. Opened' = {1}
  BY <1>1, <1>6, <1>7 DEF Opened
<1>9. /\ view'[1].timeline = <<>> /\ view'[1].status = "starting" /\ queue'[1] = <<>>
      /\ stream'[1].emitted = 0 /\ DOMAIN <<>> = {}
  BY <1>2, <1>5 DEF InitialTurn
<1>10. Chained(Nothing, view'[1].timeline)
  BY <1>9 DEF Chained
<1>11. FeedingInv(1)'
  <2>1. LastShown' = Nothing
    BY <1>9 DEF LastShown, LastOf
  <2>2. Chained(LastShown', queue'[1]) /\ ~OfKind(LastOf(queue'[1], LastShown'), Unclosed)
    BY <1>9, <2>1 DEF Chained, LastOf, OfKind, IsRow, Nothing
  <2>3. Arrives(1)'
    BY <1>9 DEF Arrives
  <2>4. VerdictInv(1)'
    BY <1>9 DEF VerdictInv
  <2>5. Local(1)'
    BY <1>3 DEF Local, InNode, At, Running
  <2>6. QED
    BY <1>9, <2>2, <2>3, <2>4, <2>5 DEF FeedingInv
<1>12. QED
  BY <1>7, <1>8, <1>9, <1>10, <1>11 DEF WholeInv

\* A message that was hung up on, or a decision taken elsewhere, does not
\* hear the whole run.
LEMMA WholeLeft ==
    ASSUME StreamInv, NEW s \in Segments, HangUp(s)
    PROVE  WholeInv'
<1>1. reader'[s] = "stopped"
  BY DEF StreamInv, TypeOK, HangUp
<1>2. ~Whole'
  BY <1>1 DEF Whole, Opened
<1>3. QED
  BY <1>2 DEF WholeInv

LEMMA WholeDecision ==
    ASSUME StreamInv, WholeInv, NEW s \in Segments, OpenDecision(s)
    PROVE  WholeInv'
<1>1. TypeOK /\ HandoverInv /\ LogInv /\ 1 \in Segments /\ \A r \in Segments : QueueOK(r)
  BY StreamAssumption DEF StreamInv, TypeOK
<1>2. PICK m \in DecideFrom(s) :
        /\ message' = [message EXCEPT ![s] = m]
        /\ reader' = [r \in Segments |->
                        IF r = s THEN "reading"
                        ELSE IF m = 1 /\ message[r] = 1 /\ reader[r] = "reading"
                             THEN "replaced" ELSE reader[r]]
  BY DEF OpenDecision
<1>3. /\ s > 1 /\ s # 1 /\ At(s, {"idle"}) /\ Paused(pause) /\ Goes(s, "setup")
      /\ stream' = [stream EXCEPT ![s].emitted = Len(pause.events)]
      /\ queue' = [r \in Segments |-> IF reader'[r] = "replaced" THEN <<>> ELSE queue[r]]
      /\ view' = view /\ pause' = pause /\ filed' = filed
  BY DEF OpenDecision, AlreadySeen, Filing
<1>4. SUFFICES ASSUME Whole' PROVE WholeInv'
  BY DEF WholeInv
<1>5. reader'[s] = "reading" /\ message'[s] = m /\ reader[s] = "none" /\ queue[s] = <<>>
  BY <1>1, <1>2, <1>3 DEF TypeOK, QueueOK
<1>6. m = 1
  BY <1>4, <1>5 DEF Whole, Opened
<1>7. view[1].status = "paused" /\ \A r \in Segments : r > 1 /\ message[r] = 1 => reader[r] # "reading"
  BY <1>2, <1>3, <1>6 DEF DecideFrom, BeingDecided
<1>8. ASSUME NEW r \in Segments, r # s
      PROVE  /\ message'[r] = message[r] /\ (reader'[r] = "none" <=> reader[r] = "none")
             /\ (reader'[r] = "stopped" <=> reader[r] = "stopped")
             /\ (reader'[r] = "reading" <=> reader[r] = "reading" /\ message[r] # 1)
             /\ (queue'[r] = queue[r] \/ queue'[r] = <<>>)
  BY <1>1, <1>2, <1>3, <1>6, <1>8 DEF TypeOK
<1>9. Opened' = Opened \cup {s} /\ s \notin Opened /\ Opened \subseteq Segments
  BY <1>5, <1>8 DEF Opened
<1>10. Whole
  BY <1>4, <1>8, <1>9 DEF Whole
<1>11. ~\E p \in Opened : Pending(p)
  BY <1>7, <1>9 DEF Pending, Feeds
<1>12. Settled /\ (\A r \in Opened : AtRest(r)) /\ Chained(Nothing, view[1].timeline)
  BY <1>7, <1>10, <1>11 DEF WholeInv
<1>13. worker'[s].at = "setup" /\ Alone(s)
  BY <1>1, <1>3, GoesFacts DEF Places
<1>14. \A r \in Opened : reader'[r] # "reading" /\ At(r, {"tail", "closed"})'
  <2> SUFFICES ASSUME NEW r \in Opened
               PROVE  reader'[r] # "reading" /\ At(r, {"tail", "closed"})'
    OBVIOUS
  <2>1. r \in Segments /\ r # s /\ message[r] = 1
    BY <1>9, <1>10 DEF Whole
  <2>2. At(r, {"tail", "closed"}) /\ worker'[r] = worker[r]
    BY <1>12, <1>13, <2>1 DEF AtRest, Alone
  <2>3. QED
    BY <1>8, <2>1, <2>2 DEF At
<1>15. queue'[s] = <<>> /\ stream'[s].emitted = Len(pause.events)
  <2>1. queue'[s] = <<>>
    BY <1>3, <1>5
  <2>2. stream[s] \in Streams /\ stream \in [Segments -> Streams]
    BY <1>1 DEF TypeOK
  <2>3. QED
    BY <1>3, <2>1, <2>2 DEF Streams
<1>16. pause.events = filed.events /\ filed.events \in Seq(Rows)
  BY <1>1, <1>3 DEF LogInv, TypeOK
<1>17. LastShown' = LastShown /\ (\A n : IsShown(n)' = IsShown(n))
  BY <1>3 DEF LastShown, IsShown
<1>18. DOMAIN <<>> = {}
  OBVIOUS
<1>19. Pending(s)'
  BY <1>3, <1>5, <1>6, <1>13, <1>15 DEF Pending, Feeds, At
<1>20. FeedingInv(s)'
  <2>1. Arrives(s)'
    <3>1. \A n \in 1..Len(filed.events) : IsShown(n)
      BY <1>12, <1>16 DEF Settled
    <3>2. QED
      BY <1>15, <1>16, <1>17, <3>1 DEF Arrives
  <2>2. VerdictInv(s)'
    BY <1>15, <1>18 DEF VerdictInv
  <2>3. Local(s)'
    BY <1>13 DEF Local, InNode, At, Running
  <2>4. Chained(LastShown', queue'[s]) /\ ~OfKind(LastOf(queue'[s], LastShown'), Unclosed)
    BY <1>12, <1>15, <1>17, <1>18 DEF Chained, LastOf, Settled
  <2>5. QED
    BY <1>3, <1>15, <1>18, <2>1, <2>2, <2>3, <2>4 DEF FeedingInv
<1>21. \A r \in Opened' : reader'[r] # "reading" => At(r, {"tail", "closed"})'
  BY <1>5, <1>9, <1>14
<1>22. \A r \in Opened' : Feeds(r)' => FeedingInv(r)'
  BY <1>9, <1>14, <1>20 DEF Feeds
<1>23. Chained(Nothing, view[1].timeline)'
  BY <1>3, <1>12
<1>24. s \in Opened'
  BY <1>9
<1>25. QED
  BY <1>19, <1>21, <1>22, <1>23, <1>24 DEF WholeInv

LEMMA WholeEnd ==
    ASSUME StreamInv, WholeInv, NEW s \in Segments, Show(s), Head(queue[s]).type = "end"
    PROVE  WholeInv'
<1>1. TypeOK /\ \A r \in Segments : QueueOK(r)
  BY DEF StreamInv, TypeOK
<1>2. /\ UNCHANGED <<worker, stream, message, view, pause, filed>> /\ reader[s] = "reading"
      /\ queue[s] # <<>> /\ queue' = [queue EXCEPT ![s] = Tail(@)]
      /\ reader' = [reader EXCEPT ![s] = "ended"]
  BY DEF Show, Filing
<1>3. /\ queue' \in [Segments -> Seq(Events)]
      /\ \A r \in Segments \ {s} : queue'[r] = queue[r]
      /\ Head(queue[s]) = queue[s][1] /\ 1 \in DOMAIN queue[s]
      /\ Len(queue'[s]) \in Nat /\ Len(queue[s]) = Len(queue'[s]) + 1
  BY <1>1, <1>2, Popped
<1>4. queue'[s] = <<>> /\ DOMAIN <<>> = {} /\ At(s, {"closed"})
  <2>1. 1 = Len(queue[s]) /\ At(s, {"closed"})
    BY <1>1, <1>3 DEF QueueOK
  <2>2. Len(queue'[s]) = 0 /\ queue'[s] \in Seq(Events)
    BY <1>3, <2>1
  <2>3. QED
    BY <2>1, <2>2, EmptySeq
<1>5. reader'[s] = "ended" /\ \A r \in Segments \ {s} : reader'[r] = reader[r]
  BY <1>1, <1>2 DEF TypeOK
<1>6. SUFFICES ASSUME Whole' PROVE WholeInv'
  BY DEF WholeInv
<1>7. Opened' = Opened /\ Opened \subseteq Segments /\ s \in Opened
  BY <1>2, <1>5 DEF Opened
<1>8. Whole
  BY <1>2, <1>5, <1>6, <1>7 DEF Whole
<1>9. /\ \A r \in Opened : reader[r] # "reading" => At(r, {"tail", "closed"})
      /\ view[1].status \in {"paused", "done"} =>
            \/ Settled /\ \A r \in Opened : AtRest(r)
            \/ \E r \in Opened : Pending(r)
      /\ Chained(Nothing, view[1].timeline)
      /\ \A r \in Opened : Feeds(r) => FeedingInv(r)
  BY <1>8 DEF WholeInv
<1>10. \A r \in Opened : reader'[r] # "reading" => At(r, {"tail", "closed"})'
  BY <1>2, <1>4, <1>5, <1>7, <1>9 DEF At
<1>11. ASSUME Settled, \A r \in Opened : AtRest(r)
       PROVE  Settled' /\ \A r \in Opened : AtRest(r)'
  <2>1. Settled'
    BY <1>2, <1>11 DEF Settled, IsShown, LastShown
  <2>2. ASSUME NEW r \in Opened PROVE AtRest(r)'
    <3>1. CASE r = s
      BY <1>2, <1>4, <3>1 DEF AtRest, At
    <3>2. CASE r # s
      <4>1. queue'[r] = queue[r] /\ AtRest(r)
        BY <1>3, <1>7, <1>11, <3>2
      <4>2. QED
        BY <1>2, <4>1 DEF AtRest, At
    <3>3. QED
      BY <3>1, <3>2
  <2>3. QED
    BY <2>1, <2>2
<1>12. ASSUME NEW p \in Opened, Pending(p) PROVE Pending(p)'
  <2>1. p # s
    BY <1>2, <1>3, <1>12 DEF Pending
  <2>2. queue'[p] = queue[p] /\ reader'[p] = reader[p]
    BY <1>3, <1>5, <1>7, <2>1
  <2>3. QED
    BY <1>2, <1>12, <2>2 DEF Pending, Feeds, At
<1>13. view'[1].status \in {"paused", "done"} =>
          \/ Settled' /\ \A r \in Opened : AtRest(r)'
          \/ \E r \in Opened : Pending(r)'
  BY <1>2, <1>9, <1>11, <1>12
<1>14. ASSUME NEW r \in Opened, Feeds(r)' PROVE FeedingInv(r)'
  <2>1. r # s /\ r \in Segments
    BY <1>5, <1>7, <1>14 DEF Feeds
  <2>2. Feeds(r) /\ queue'[r] = queue[r]
    BY <1>2, <1>3, <1>5, <1>14, <2>1 DEF Feeds
  <2>3. FeedingInv(r)
    BY <1>9, <2>2
  <2>4. QED
    BY <1>1, <1>2, <2>1, <2>2, <2>3, FeedsOn
<1>15. Chained(Nothing, view[1].timeline)'
  BY <1>2, <1>9
<1>16. QED
  BY <1>7, <1>10, <1>13, <1>14, <1>15 DEF WholeInv

(***************************************************************************)
(* A response is written an event.                                         *)
(***************************************************************************)
\* What a view makes of an event that does not start it again.
LEMMA NextView ==
    ASSUME NEW v \in Views, NEW e \in Events
    PROVE  /\ e \in Timed => Reduced(v, e).timeline = Append(v.timeline, e)
           /\ e \notin Timed /\ e # Started(FALSE) => Reduced(v, e).timeline = v.timeline
           /\ v.timeline = <<>> /\ e \notin Timed => Reduced(v, e).timeline = <<>>
           /\ e.type \in {"started", "error"} => Reduced(v, e).status \in {"running", "error"}
           /\ e.type = "approval" => Reduced(v, e).status = "paused"
           /\ e.type = "answer" => Reduced(v, e).status = "done"
           /\ e.type \notin {"started", "error", "approval", "answer"} =>
                 Reduced(v, e).status = v.status
<1>1. /\ e \in Timed => Reduced(v, e).timeline = Append(v.timeline, e)
      /\ e \notin Timed => Reduced(v, e).timeline \in {v.timeline, <<>>}
  BY ReducedFacts
<1>2. e.type = "started" /\ ~e.resumed => e = Started(FALSE)
  <2> SUFFICES ASSUME e.type = "started", ~e.resumed PROVE e = Started(FALSE)
    OBVIOUS
  <2>1. e \in [type : {"started"}, resumed : BOOLEAN]
    BY DEF Events, Timed
  <2>2. e = [type |-> "started", resumed |-> FALSE]
    BY <2>1
  <2>3. QED
    BY <2>2 DEF Started
<1>3. e # Started(FALSE) => Before(v, e) = v
  BY <1>2 DEF Before
<1>4. e.type \in {"row", "live", "step"} <=> e \in Timed
  BY EventFields
<1>5. Reduced(v, e).timeline =
        IF e.type \in {"row", "live", "step"} THEN Append(Before(v, e).timeline, e)
        ELSE Before(v, e).timeline
  BY DEF Reduced
<1>6. Reduced(v, e).status =
        IF e.type \in DOMAIN Status THEN Status[e.type] ELSE Before(v, e).status
  BY DEF Reduced
<1>7. /\ DOMAIN Status = {"started", "approval", "answer", "error"}
      /\ Status["started"] = "running" /\ Status["approval"] = "paused"
      /\ Status["answer"] = "done" /\ Status["error"] = "error"
  BY DEF Status
<1>8. e.type # "started" => e # Started(FALSE)
  BY DEF Started
<1>9. e \notin Timed /\ e # Started(FALSE) => Reduced(v, e).timeline = v.timeline
  BY <1>3, <1>4, <1>5
<1>10. v.timeline = <<>> /\ e \notin Timed => Reduced(v, e).timeline = <<>>
  BY <1>1
<1>11. QED
  BY <1>1, <1>3, <1>6, <1>7, <1>8, <1>9, <1>10

\* What became of the queue and of the timeline.
ShownOne(s, e) ==
    LET q == queue[s]
        n == queue'[s]
        t == view[1].timeline
        u == view'[1].timeline
    IN  /\ e = q[1] /\ e \in Events /\ 1 \in DOMAIN q /\ q \in Seq(Events)
        /\ n \in Seq(Events) /\ RestOf(n, q)
        /\ \A i \in DOMAIN q : i # 1 => i - 1 \in DOMAIN n /\ n[i - 1] = q[i]
        /\ \A i \in DOMAIN n : i \in Nat /\ i > 0
        /\ t \in Seq(Timed) /\ u = IF e \in Timed THEN Append(t, e) ELSE t

LEMMA ShowsOne ==
    ASSUME StreamInv, NEW s \in Segments, FeedingInv(s), NEW e, Shows(s, 1, e)
    PROVE  ShownOne(s, e)
<1> DEFINE q == queue[s]  n == queue'[s]  t == view[1].timeline  u == view'[1].timeline
           lq == Len(q)  ln == Len(n)
<1>1. TypeOK /\ 1 \in Segments
  BY StreamAssumption DEF StreamInv
<1>2. /\ queue[s] # <<>> /\ queue' = [queue EXCEPT ![s] = Tail(@)] /\ e = q[1] /\ e \in Events
      /\ view' = [view EXCEPT ![1] = Reduced(view[1], e)]
  BY DEF Shows
<1>3. /\ queue' \in [Segments -> Seq(Events)]
      /\ 1 \in DOMAIN q /\ lq \in Nat /\ DOMAIN q = 1..lq /\ ln \in Nat /\ DOMAIN n = 1..ln
      /\ lq = ln + 1
      /\ \A i \in DOMAIN n : i \in Nat /\ i > 0 /\ i + 1 \in DOMAIN q /\ n[i] = q[i + 1]
  BY <1>1, <1>2, Popped
<1>4. q \in Seq(Events) /\ n \in Seq(Events) /\ view[1] \in Views /\ t \in Seq(Timed)
  BY <1>1, <1>3 DEF TypeOK, Views
<1>5. RestOf(n, q)
  BY <1>3, <1>4 DEF RestOf
<1>6. u = Reduced(view[1], e).timeline
  BY <1>1, <1>2 DEF TypeOK
<1>7. e = Started(FALSE) => t = <<>>
  BY <1>2, <1>3 DEF FeedingInv
<1>8. u = IF e \in Timed THEN Append(t, e) ELSE t
  BY <1>2, <1>4, <1>6, <1>7, NextView
<1> HIDE DEF q, n, lq, ln
<1>9. ASSUME NEW i \in DOMAIN q, i # 1 PROVE i - 1 \in DOMAIN n /\ n[i - 1] = q[i]
  <2>1. i - 1 \in DOMAIN n /\ (i - 1) + 1 = i
    BY <1>3, <1>9
  <2>2. QED
    BY <1>3, <2>1
<1>10. QED
  BY <1>2, <1>3, <1>4, <1>5, <1>8, <1>9 DEF ShownOne, q, n

LEMMA ShowingFeeds ==
    ASSUME StreamInv, NEW s \in Segments, FeedingInv(s), NEW e, Shows(s, 1, e), ShownOne(s, e),
           Chained(Nothing, view[1].timeline)
    PROVE  /\ FeedingInv(s)' /\ Chained(Nothing, view[1].timeline)'
           /\ \A k : IsShown(k) => IsShown(k)'
           /\ ~IsRow(e) /\ ~IsStep(e) => ~OfKind(LastShown', Unclosed)
<1> DEFINE q == queue[s]  n == queue'[s]  t == view[1].timeline  u == view'[1].timeline
           b == LastShown
<1>1. /\ e = q[1] /\ e \in Events /\ 1 \in DOMAIN q /\ q \in Seq(Events)
      /\ n \in Seq(Events) /\ RestOf(n, q)
      /\ \A i \in DOMAIN q : i # 1 => i - 1 \in DOMAIN n /\ n[i - 1] = q[i]
      /\ \A i \in DOMAIN n : i \in Nat /\ i > 0
      /\ t \in Seq(Timed) /\ u = IF e \in Timed THEN Append(t, e) ELSE t
  BY DEF ShownOne
<1>2. \A i \in DOMAIN n : i + 1 \in DOMAIN q /\ n[i] = q[i + 1]
  BY <1>1 DEF RestOf
<1>3. UNCHANGED <<worker, stream, message, reader, pause, filed>> /\ q # <<>>
  BY DEF Shows
<1>4. /\ Arrives(s) /\ VerdictInv(s) /\ Local(s) /\ Chained(b, q)
      /\ ~OfKind(LastOf(q, b), Unclosed)
      /\ At(s, {"setup"}) => q = <<>>
      /\ \A i \in DOMAIN q : q[i] = Started(FALSE) => i = 1 /\ t = <<>>
  BY DEF FeedingInv
<1>5. e.type \in {"row", "live", "step"} <=> e \in Timed
  BY <1>1, EventFields
<1>6. b = LastOf(t, Nothing) /\ LastShown' = LastOf(u, Nothing)
  BY DEF LastShown
<1>7. Joins(b, e) /\ Chained(e, n) /\ LastOf(n, e) = LastOf(q, b)
  <2> HIDE DEF q, n, b
  <2>1. Joins(b, q[1]) /\ Chained(q[1], n) /\ LastOf(n, q[1]) = LastOf(q, b)
    BY <1>1, <1>4, ChainedTail
  <2>2. QED
    BY <1>1, <2>1
<1>8. ASSUME e \in Timed
      PROVE  /\ Chained(Nothing, u) /\ LastShown' = e /\ \A k : IsShown(k) => IsShown(k)'
             /\ \A k : RowAt(e, k) => IsShown(k)'
  <2> DEFINE T == Timed  l == Len(t)
  <2>1. t \in Seq(T) /\ e \in T /\ u = Append(t, e) /\ Chained(Nothing, t) /\ Joins(LastOf(t, Nothing), e)
    BY <1>1, <1>6, <1>7, <1>8
  <2> HIDE DEF T, t, u
  <2>2. Chained(Nothing, Append(t, e)) /\ LastOf(Append(t, e), Nothing) = e
    BY <2>1, ChainedAppend
  <2>3. /\ Append(t, e) \in Seq(T) /\ Len(Append(t, e)) = l + 1 /\ l \in Nat /\ DOMAIN t = 1..l
        /\ \A i \in 1..l : Append(t, e)[i] = t[i]
        /\ Append(t, e)[l + 1] = e
    BY <2>1, AppendProperties
  <2> HIDE DEF l
  <2>4. DOMAIN u = 1..(l + 1) /\ (\A i \in DOMAIN t : u[i] = t[i]) /\ u[l + 1] = e /\ l \in Nat
        /\ DOMAIN t = 1..l
    BY <2>1, <2>3
  <2>5. l + 1 \in DOMAIN u /\ \A i \in DOMAIN t : i \in DOMAIN u /\ u[i] = t[i]
    BY <2>4
  <2>6. (\A k : IsShown(k) => IsShown(k)') /\ \A k : RowAt(e, k) => IsShown(k)'
    BY <2>4, <2>5 DEF IsShown, t, u
  <2>7. QED
    BY <1>6, <2>1, <2>2, <2>6
<1>9. ASSUME e \notin Timed
      PROVE  /\ Chained(Nothing, u) /\ LastShown' = b /\ (\A k : IsShown(k) => IsShown(k)')
             /\ ~IsRow(e) /\ ~IsStep(e)
  BY <1>1, <1>5, <1>6, <1>9 DEF IsShown, IsRow, IsStep
<1>10. /\ Chained(LastShown', n) /\ ~OfKind(LastOf(n, LastShown'), Unclosed)
       /\ ~IsRow(e) /\ ~IsStep(e) => ~OfKind(LastShown', Unclosed)
  <2>1. CASE e \in Timed
    <3>1. LastShown' = e
      BY <1>8, <2>1
    <3> HIDE DEF q, n, b
    <3>2. Chained(LastShown', n) /\ ~OfKind(LastOf(n, LastShown'), Unclosed)
      BY <1>4, <1>7, <3>1
    <3>3. ~IsRow(e) => ~OfKind(LastShown', Unclosed)
      BY <3>1 DEF OfKind
    <3>4. QED
      BY <3>2, <3>3
  <2>2. CASE e \notin Timed
    <3> HIDE DEF q, n, b
    <3>1. LastShown' = b /\ ~IsRow(e) /\ ~IsStep(e)
      BY <1>9, <2>2
    <3>2. ~OfKind(LastOf(n, e), Unclosed)
      BY <1>4, <1>7
    <3>3. Chained(b, n) /\ ~OfKind(LastOf(n, b), Unclosed) /\ ~OfKind(b, Unclosed)
      BY <1>1, <1>7, <3>1, <3>2, ChainedSkip
    <3>4. QED
      BY <3>1, <3>3
  <2>3. QED
    BY <2>1, <2>2
<1>11. Chained(Nothing, u) /\ \A k : IsShown(k) => IsShown(k)'
  BY <1>8, <1>9
<1>12. Arrives(s)'
  <2> SUFFICES ASSUME NEW k \in 1..Sent(s)
               PROVE  IsShown(k)' \/ \E i \in DOMAIN n : RowAt(n[i], k)
    BY <1>3 DEF Arrives, Sent
  <2>1. IsShown(k) \/ \E i \in DOMAIN q : RowAt(q[i], k)
    BY <1>4 DEF Arrives, Sent
  <2>2. CASE IsShown(k)
    BY <1>11, <2>2
  <2>3. ASSUME NEW i \in DOMAIN q, RowAt(q[i], k)
        PROVE  IsShown(k)' \/ \E j \in DOMAIN n : RowAt(n[j], k)
    <3>1. CASE i = 1
      <4>1. RowAt(e, k) /\ e \in Timed
        BY <1>1, <1>5, <2>3, <3>1 DEF RowAt, IsRow
      <4>2. QED
        BY <1>8, <4>1
    <3>2. CASE i # 1
      BY <1>1, <2>3, <3>2
    <3>3. QED
      BY <3>1, <3>2
  <2>4. QED
    BY <2>1, <2>2, <2>3
<1>13. VerdictInv(s)'
  <2> SUFFICES ASSUME NEW i \in DOMAIN n, n[i].type \in Verdicts
               PROVE  /\ At(s, {"tail", "closed"}) /\ Filed(s) /\ stream[s].emitted = Len(Log(s))
                      /\ n[i] = Verdict(State(s))
                      /\ \A j \in DOMAIN n : j > i => n[j].type \in Trailing
    BY <1>3 DEF VerdictInv, At, Filed, Outcome, Log, State
  <2>1. i + 1 \in DOMAIN q /\ n[i] = q[i + 1] /\ i \in Nat
    BY <1>1, <1>2
  <2>2. /\ At(s, {"tail", "closed"}) /\ Filed(s) /\ stream[s].emitted = Len(Log(s))
        /\ q[i + 1] = Verdict(State(s))
        /\ \A j \in DOMAIN q : j > i + 1 => q[j].type \in Trailing
    BY <1>4, <2>1 DEF VerdictInv
  <2>3. ASSUME NEW j \in DOMAIN n, j > i PROVE n[j].type \in Trailing
    <3>1. j + 1 \in DOMAIN q /\ n[j] = q[j + 1] /\ j \in Nat
      BY <1>1, <1>2
    <3>2. j + 1 > i + 1
      BY <2>1, <2>3, <3>1
    <3>3. QED
      BY <2>2, <3>1, <3>2
  <2>4. QED
    BY <2>1, <2>2, <2>3
<1>14. Local(s)'
  <2>1. /\ worker' = worker /\ stream' = stream /\ filed' = filed /\ Local(s)
    BY <1>3, <1>4
  <2>2. /\ Log(s)' = Log(s) /\ Filed(s)' = Filed(s) /\ InNode(s)' = InNode(s)
        /\ At(s, Running \cup {"filed"})' = At(s, Running \cup {"filed"})
        /\ At(s, {"filed"})' = At(s, {"filed"})
    BY <2>1 DEF Log, State, Filed, Outcome, InNode, At, Call
  <2>3. HoldsBack(Log(s), stream[s].emitted)' = HoldsBack(Log(s), stream[s].emitted)
    BY <2>1, <2>2
  <2>4. QED
    BY <2>1, <2>2, <2>3 DEF Local
<1>15. ~At(s, {"setup"})'
  BY <1>3, <1>4 DEF At
<1>16. \A i \in DOMAIN n : n[i] # Started(FALSE)
  <2> SUFFICES ASSUME NEW i \in DOMAIN n, n[i] = Started(FALSE) PROVE FALSE
    OBVIOUS
  <2>1. i + 1 \in DOMAIN q /\ q[i + 1] = Started(FALSE) /\ i > 0 /\ i \in Nat
    BY <1>1, <1>2
  <2>2. i + 1 = 1
    BY <1>4, <2>1
  <2>3. QED
    BY <2>1, <2>2
<1>17. FeedingInv(s)'
  BY <1>10, <1>12, <1>13, <1>14, <1>15, <1>16 DEF FeedingInv
<1>18. QED
  BY <1>10, <1>11, <1>17

\* The verdict comes last, and everything it is about has come before it.
LEMMA VerdictSettles ==
    ASSUME StreamInv, NEW s \in Segments, FeedingInv(s), NEW e, Shows(s, 1, e), ShownOne(s, e),
           e.type \in Verdicts, FeedingInv(s)', ~OfKind(LastShown', Unclosed), RowsInv(s)'
    PROVE  Settled' /\ AtRest(s)'
<1> DEFINE q == queue[s]  n == queue'[s]
<1>1. /\ e = q[1] /\ e \in Events /\ 1 \in DOMAIN q
      /\ \A i \in DOMAIN n : i \in Nat /\ i > 0 /\ i + 1 \in DOMAIN q /\ n[i] = q[i + 1]
  BY DEF ShownOne, RestOf
<1>2. /\ UNCHANGED <<worker, stream, message, reader, pause, filed>>
      /\ reader[s] = "reading" /\ message[s] = 1
      /\ view' = [view EXCEPT ![1] = Reduced(view[1], e)]
  BY DEF Shows
<1>3. /\ At(s, {"tail", "closed"}) /\ Filed(s) /\ stream[s].emitted = Len(Log(s))
      /\ e = Verdict(State(s))
      /\ \A j \in DOMAIN q : j > 1 => q[j].type \in Trailing
  BY <1>1 DEF FeedingInv, VerdictInv
<1>4. \A i \in DOMAIN n : n[i].type \in Trailing
  <2> SUFFICES ASSUME NEW i \in DOMAIN n PROVE n[i].type \in Trailing
    OBVIOUS
  <2>1. i + 1 \in DOMAIN q /\ n[i] = q[i + 1] /\ i \in Nat /\ i > 0
    BY <1>1
  <2>2. i + 1 > 1
    BY <2>1
  <2>3. QED
    BY <1>3, <2>1, <2>2
<1>5. AtRest(s)'
  BY <1>2, <1>3, <1>4 DEF AtRest, At
<1>6. /\ TypeOK /\ 1 \in Segments /\ filed.events = Log(s) /\ filed.outcome = Outcome(State(s))
      /\ filed.events \in Seq(Rows) /\ stream[s].emitted = Len(filed.events)
  BY <1>3, StreamAssumption DEF StreamInv, TypeOK, Filed
<1>7. view[1] \in Views /\ view'[1].status = Reduced(view[1], e).status
  BY <1>2, <1>6 DEF TypeOK
<1>8. view'[1].status = "paused" <=> filed.outcome = "paused"
  <2>1. e.type = IF Paused(State(s)) THEN "approval" ELSE "answer"
    BY <1>3 DEF Verdict
  <2>2. filed.outcome = IF Paused(State(s)) THEN "paused" ELSE "terminal"
    BY <1>6 DEF Outcome
  <2>3. /\ e.type = "approval" => view'[1].status = "paused"
        /\ e.type = "answer" => view'[1].status = "done"
    BY <1>1, <1>7, NextView
  <2>4. QED
    BY <2>1, <2>2, <2>3
<1>9. ASSUME NEW k \in DOMAIN filed.events PROVE IsShown(k)'
  <2>1. k \in 1..stream[s].emitted
    BY <1>6
  <2>2. \A i \in DOMAIN n : ~IsRow(n[i])
    BY <1>4 DEF Trailing, IsRow
  <2>3. Arrives(s)'
    BY DEF FeedingInv
  <2>4. QED
    BY <1>2, <2>1, <2>2, <2>3 DEF Arrives, RowAt
<1>10. ASSUME NEW k \in DOMAIN view'[1].timeline, IsRow(view'[1].timeline[k])
       PROVE  view'[1].timeline[k].seq < Len(filed.events)
  BY <1>2, <1>6, <1>10 DEF RowsInv
<1>11. Settled'
  BY <1>2, <1>8, <1>9, <1>10 DEF Settled
<1>12. QED
  BY <1>5, <1>11

LEMMA WholeShow ==
    ASSUME StreamInv, WholeInv, NEW s \in Segments, Show(s), Head(queue[s]).type # "end"
    PROVE  WholeInv'
<1> DEFINE e == Head(queue[s])
<1>1. TypeOK /\ FeedInv /\ 1 \in Segments /\ \A r \in Segments : QueueOK(r)
  BY StreamAssumption DEF StreamInv, TypeOK
<1> PICK m \in Segments : m = message[s]
  BY <1>1 DEF TypeOK
<1>2. queue[s] # <<>> /\ queue' = [queue EXCEPT ![s] = Tail(@)] /\ reader[s] = "reading"
  BY DEF Show
<1>3. e \in Events /\ e = queue[s][1] /\ \A r \in Segments \ {s} : queue'[r] = queue[r]
  BY <1>1, <1>2, Popped
<1>4. Shows(s, m, e)
  BY <1>2, <1>3 DEF Show, Shows, Filing
<1> HIDE DEF e
<1>5. UNCHANGED <<worker, stream, message, reader, pause, filed>> /\ e.type # "end"
  BY <1>4 DEF Shows
<1>6. SUFFICES ASSUME Whole' PROVE WholeInv'
  BY DEF WholeInv
<1>7. Opened' = Opened /\ Opened \subseteq Segments /\ s \in Opened /\ (\A r : Feeds(r)' = Feeds(r))
  BY <1>2, <1>5 DEF Opened, Feeds
<1>8. Whole
  BY <1>5, <1>6, <1>7 DEF Whole
<1>9. /\ \A r \in Opened : reader[r] # "reading" => At(r, {"tail", "closed"})
      /\ view[1].status \in {"paused", "done"} =>
            \/ Settled /\ \A r \in Opened : AtRest(r)
            \/ \E r \in Opened : Pending(r)
      /\ Chained(Nothing, view[1].timeline)
      /\ \A r \in Opened : Feeds(r) => FeedingInv(r)
  BY <1>8 DEF WholeInv
<1>10. m = 1 /\ Feeds(s) /\ FeedingInv(s)
  BY <1>2, <1>7, <1>8, <1>9 DEF Whole, Feeds
<1>11. Shows(s, 1, e) /\ ShownOne(s, e)
  BY <1>4, <1>10, ShowsOne
<1>12. /\ FeedingInv(s)' /\ Chained(Nothing, view[1].timeline)'
       /\ \A k : IsShown(k) => IsShown(k)'
       /\ ~IsRow(e) /\ ~IsStep(e) => ~OfKind(LastShown', Unclosed)
  BY <1>9, <1>10, <1>11, ShowingFeeds
<1>13. \A r \in Opened : reader[r] # "reading" => At(r, {"tail", "closed"})'
  BY <1>5, <1>9 DEF At
<1>14. ASSUME NEW r \in Opened, Feeds(r) PROVE FeedingInv(r)'
  <2>1. r = s
    BY <1>1, <1>7, <1>10, <1>14 DEF FeedInv, Feeds
  <2>2. QED
    BY <1>12, <2>1
<1>15. ASSUME NEW r \in Opened, r # s PROVE AtRest(r)'
  <2>1. reader[r] # "reading" /\ r \in Segments
    BY <1>1, <1>2, <1>7, <1>8, <1>10, <1>15 DEF Whole, FeedInv, Feeds
  <2>2. At(r, {"tail", "closed"}) /\ queue[r] = <<>>
    BY <1>1, <1>9, <2>1 DEF QueueOK
  <2>3. queue'[r] = <<>> /\ DOMAIN <<>> = {}
    BY <1>3, <1>15, <2>1, <2>2
  <2>4. QED
    BY <1>5, <2>2, <2>3 DEF AtRest, At
<1>16. view[1] \in Views /\ view'[1].status = Reduced(view[1], e).status
  BY <1>1, <1>11 DEF TypeOK, Shows
<1>17. ASSUME view'[1].status \in {"paused", "done"}
       PROVE  Settled' /\ \A r \in Opened : AtRest(r)'
  <2>1. e.type \notin {"started", "error"}
    BY <1>3, <1>16, <1>17, NextView
  <2>2. CASE e.type \in Verdicts
    <3>1. RowsInv(s)'
      BY <1>10, <1>11, RowsShown
    <3>2. ~OfKind(LastShown', Unclosed)
      BY <1>12, <2>2 DEF Verdicts, IsRow, IsStep
    <3>3. Settled' /\ AtRest(s)'
      BY <1>10, <1>11, <1>12, <2>2, <3>1, <3>2, VerdictSettles
    <3>4. QED
      BY <1>15, <3>3
  <2>3. CASE e.type \notin Verdicts
    <3>1. view'[1].status = view[1].status
      BY <1>3, <1>16, <2>1, <2>3, NextView DEF Verdicts
    <3>2. ~\E p \in Opened : Pending(p)
      <4> SUFFICES ASSUME NEW p \in Opened, Pending(p) PROVE FALSE
        OBVIOUS
      <4>1. p = s
        BY <1>1, <1>7, <1>10 DEF Pending, FeedInv, Feeds
      <4>2. QED
        BY <1>2, <1>3, <2>1, <4>1 DEF Pending
    <3>3. Settled /\ \A r \in Opened : AtRest(r)
      BY <1>9, <1>17, <3>1, <3>2
    <3>4. AtRest(s)
      BY <1>7, <3>3
    <3> DEFINE q == queue[s]  n == queue'[s]
    <3>5. /\ e = q[1] /\ 1 \in DOMAIN q
          /\ \A i \in DOMAIN n : i + 1 \in DOMAIN q /\ n[i] = q[i + 1]
          /\ view'[1].timeline =
                IF e \in Timed THEN Append(view[1].timeline, e) ELSE view[1].timeline
      BY <1>11 DEF ShownOne, RestOf
    <3>6. e.type \in Trailing
      BY <3>4, <3>5 DEF AtRest
    <3>7. AtRest(s)'
      BY <1>5, <3>4, <3>5 DEF AtRest, At
    <3>8. view'[1].timeline = view[1].timeline
      BY <1>3, <3>5, <3>6, EventFields DEF Trailing
    <3>9. Settled'
      BY <1>5, <3>1, <3>3, <3>8 DEF Settled, IsShown, LastShown
    <3>10. QED
      BY <1>15, <3>7, <3>9
  <2>4. QED
    BY <2>2, <2>3
<1>18. QED
  BY <1>5, <1>7, <1>12, <1>13, <1>14, <1>17 DEF WholeInv

LEMMA WholeStays ==
    ASSUME TypeOK, WholeInv, UNCHANGED vars
    PROVE  WholeInv'
<1>1. UNCHANGED <<worker, stream, queue, reader, message, view, pause, filed>>
  BY DEF vars
<1> SUFFICES ASSUME Whole' PROVE WholeInv'
  BY DEF WholeInv
<1>2. Opened' = Opened /\ Whole /\ (\A r : Feeds(r)' = Feeds(r)) /\ Opened \subseteq Segments
  BY <1>1 DEF Opened, Whole, Feeds
<1>3. ASSUME NEW r \in Opened, Feeds(r), FeedingInv(r) PROVE FeedingInv(r)'
  BY <1>1, <1>2, <1>3, FeedsOn
<1>4. /\ Settled' = Settled /\ (\A r : AtRest(r)' = AtRest(r)) /\ (\A r : Pending(r)' = Pending(r))
      /\ (\A r : At(r, {"tail", "closed"})' = At(r, {"tail", "closed"}))
  BY <1>1 DEF Settled, IsShown, LastShown, AtRest, Pending, Feeds, At
<1>5. QED
  BY <1>1, <1>2, <1>3, <1>4 DEF WholeInv

LEMMA WholeInit == Init => WholeInv
<1> SUFFICES ASSUME Init PROVE WholeInv
  OBVIOUS
<1>1. Opened = {} /\ 1 \in Segments
  BY StreamAssumption DEF Init, Opened
<1>2. view[1].timeline = <<>> /\ view[1].status = "starting" /\ DOMAIN <<>> = {}
  BY <1>1 DEF Init, InitialTurn
<1>3. QED
  BY <1>1, <1>2 DEF WholeInv, Chained

\* Everything that is shown of a run was sent, and everything sent is shown or
\* on its way, in whole nodes.
WatchInv == ShapeInv /\ StartInv /\ WholeInv

LEMMA WatchNext ==
    ASSUME StreamInv, WatchInv, [Next]_vars
    PROVE  WatchInv'
<1>1. ShapeInv /\ StartInv /\ WholeInv /\ TypeOK
  BY DEF WatchInv, StreamInv
<1>2. ShapeInv' /\ StartInv'
  BY <1>1, ShapeNext, StartNext
<1>3. ASSUME Ask PROVE WholeInv'
  BY <1>1, <1>3, WholeAsk
<1>4. ASSUME NEW s \in Segments, Turn(s) \/ OpenDecision(s) \/ Show(s) \/ HangUp(s)
      PROVE  WholeInv'
  BY <1>1, <1>4, WholeTurn, WholeDecision, WholeEnd, WholeShow, WholeLeft
<1>5. ASSUME UNCHANGED vars PROVE WholeInv'
  BY <1>1, <1>5, WholeStays
<1>6. WholeInv'
  BY <1>3, <1>4, <1>5 DEF Next
<1>7. QED
  BY <1>2, <1>6 DEF WatchInv

(***************************************************************************)
(* A timeline that holds the whole of a filed run, in whole nodes.         *)
(***************************************************************************)
Faithful(t, log) ==
    /\ t \in Seq(Timed) /\ log \in Seq(Rows) /\ LogShape(log) /\ ~EndsIn(log, {"node_entered"})
    /\ Chained(Nothing, t) /\ ~OfKind(LastOf(t, Nothing), Unclosed)
    /\ \A n \in DOMAIN log : \E k \in DOMAIN t : RowAt(t[k], n)
    /\ \A k \in DOMAIN t : IsRow(t[k]) =>
          t[k].seq \in Nat /\ t[k].seq + 1 \in DOMAIN log /\ t[k].row = log[t[k].seq + 1]
    /\ \A k, l \in DOMAIN t : IsRow(t[k]) /\ IsRow(t[l]) /\ k < l => t[k].seq < t[l].seq

LEMMA FaithfulLens ==
    ASSUME NEW t, NEW log, Faithful(t, log)
    PROVE  /\ Len(t) \in Nat /\ DOMAIN t = 1..Len(t) /\ Len(log) \in Nat /\ DOMAIN log = 1..Len(log)
           /\ (t = <<>> <=> Len(t) = 0) /\ (log = <<>> <=> Len(log) = 0)
           /\ \A n \in DOMAIN log : log[n] \in Rows
BY DEF Faithful

\* An enumeration of the rows is the log itself.
LEMMA RowsInOrder ==
    ASSUME NEW t, NEW log, Faithful(t, log)
    PROVE  RowsAt(t, {p \in DOMAIN t : IsRow(t[p])}) = log
<1> DEFINE P == {p \in DOMAIN t : IsRow(t[p])}  shown == Picked(t, P)  m == Cardinality(P)
           M == Len(log)  T == Timed
<1>1. /\ M \in Nat /\ DOMAIN log = 1..M /\ log \in Seq(Rows)
      /\ \A n \in DOMAIN log : \E k \in DOMAIN t : RowAt(t[k], n)
      /\ \A k \in P :
            t[k].seq \in Nat /\ t[k].seq + 1 \in DOMAIN log /\ t[k].row = log[t[k].seq + 1]
      /\ \A k, l \in P : k < l => t[k].seq < t[l].seq
  BY FaithfulLens DEF Faithful
<1>2. t \in Seq(T) /\ P \in SUBSET DOMAIN t
  BY DEF Faithful
<1> HIDE DEF T
<1>3. /\ IsFiniteSet(P) /\ shown \in Seq(T) /\ Len(shown) = m
      /\ \A i \in DOMAIN shown : Nth(P, i) \in P /\ shown[i] = t[Nth(P, i)]
      /\ \A k \in P : \E i \in DOMAIN shown : Nth(P, i) = k
      /\ \A i, j \in DOMAIN shown : i < j => Nth(P, i) < Nth(P, j)
  <2> HIDE DEF P
  <2>1. QED
    BY <1>2, PickedKeepsOrder
<1>4. m \in Nat /\ DOMAIN shown = 1..m
  BY <1>3, FS_CardinalityType
<1> HIDE DEF shown, m, M
<1> DEFINE g == [i \in 1..m |-> t[Nth(P, i)].seq + 1]
<1>5. g \in [1..m -> 1..M]
  BY <1>1, <1>3, <1>4
<1>6. \A i, j \in 1..m : i < j => g[i] < g[j]
  <2> SUFFICES ASSUME NEW i \in 1..m, NEW j \in 1..m, i < j PROVE g[i] < g[j]
    OBVIOUS
  <2>1. Nth(P, i) \in P /\ Nth(P, j) \in P /\ Nth(P, i) < Nth(P, j)
    BY <1>3, <1>4
  <2>2. /\ t[Nth(P, i)].seq < t[Nth(P, j)].seq
        /\ t[Nth(P, i)].seq \in Nat /\ t[Nth(P, j)].seq \in Nat
    BY <1>1, <2>1
  <2>3. QED
    BY <2>2
<1>7. \A n \in 1..M : \E i \in 1..m : g[i] = n
  <2> SUFFICES ASSUME NEW n \in 1..M PROVE \E i \in 1..m : g[i] = n
    OBVIOUS
  <2>1. PICK k \in DOMAIN t : RowAt(t[k], n)
    BY <1>1
  <2>2. k \in P /\ t[k].seq + 1 = n
    BY <2>1 DEF RowAt
  <2>3. PICK i \in 1..m : Nth(P, i) = k
    BY <1>3, <1>4, <2>2
  <2>4. QED
    BY <2>2, <2>3
<1> HIDE DEF g
<1>8. m = M /\ \A i \in 1..m : g[i] = i
  <2>1. Enumerates(g, m, 1..M)
    BY <1>5, <1>6, <1>7 DEF Enumerates
  <2>2. QED
    BY <1>1, <1>4, <2>1, IncreasingOnto
<1>9. ASSUME NEW i \in DOMAIN shown PROVE shown[i].row = log[i]
  <2>1. Nth(P, i) \in P /\ shown[i] = t[Nth(P, i)]
    BY <1>3
  <2>2. t[Nth(P, i)].row = log[t[Nth(P, i)].seq + 1]
    BY <1>1, <2>1
  <2>3. t[Nth(P, i)].seq + 1 = i
    BY <1>4, <1>8 DEF g
  <2>4. QED
    BY <2>1, <2>2, <2>3
<1>10. [i \in DOMAIN shown |-> shown[i].row] = log
  BY <1>1, <1>4, <1>8, <1>9
<1>11. QED
  BY <1>10 DEF RowsAt, shown

\* A node's entry is shown with its exit and the step that closes it.
LEMMA EntryIsClosed ==
    ASSUME NEW t, NEW log, Faithful(t, log), NEW n \in DOMAIN log, log[n].kind = "node_entered",
           NEW k \in DOMAIN t, RowAt(t[k], n)
    PROVE  /\ n + 1 \in DOMAIN log /\ log[n + 1] = Row(log[n].node, "node_exited")
           /\ k + 1 \in DOMAIN t /\ RowAt(t[k + 1], n + 1)
           /\ k + 2 \in DOMAIN t /\ ClosesNode(t[k + 2]) /\ t[k + 2].node = log[n].node
           /\ t[k].row = log[n] /\ t[k + 1].row = log[n + 1]
<1> DEFINE M == Len(log)  L == Len(t)
<1>1. /\ L \in Nat /\ DOMAIN t = 1..L /\ M \in Nat /\ DOMAIN log = 1..M
      /\ (t = <<>> <=> L = 0) /\ (log = <<>> <=> M = 0)
      /\ \A i \in DOMAIN log : log[i] \in Rows
  BY FaithfulLens
<1>2. /\ ~(M # 0 /\ log[M].kind = "node_entered") /\ (L # 0 => ~OfKind(t[L], Unclosed))
  BY <1>1 DEF Faithful, EndsIn, LastOf
<1>3. \A i \in DOMAIN t : IsRow(t[i]) =>
         t[i].seq \in Nat /\ t[i].seq + 1 \in DOMAIN log /\ t[i].row = log[t[i].seq + 1]
  BY DEF Faithful
<1>18. \A i, l \in DOMAIN t : IsRow(t[i]) /\ IsRow(t[l]) /\ i < l => t[i].seq < t[l].seq
  BY DEF Faithful
<1>19. \A i \in DOMAIN log : \E j \in DOMAIN t : RowAt(t[j], i)
  BY DEF Faithful
<1>20. \A i \in DOMAIN t : Joins(IF i = 1 THEN Nothing ELSE t[i - 1], t[i])
  BY DEF Faithful, Chained
<1>21. \A i \in DOMAIN log :
         log[i].kind = "node_exited" => i > 1 /\ log[i - 1] = Row(log[i].node, "node_entered")
  BY DEF Faithful, LogShape
<1>22. log[n].kind = "node_entered" => n = M \/ log[n + 1].kind = "node_exited"
  BY DEF Faithful, LogShape
<1> HIDE DEF M, L
<1>4. n # M /\ n + 1 \in DOMAIN log /\ log[n + 1].kind = "node_exited"
  <2>1. n # M
    BY <1>1, <1>2
  <2>2. QED
    BY <1>1, <1>22, <2>1
<1>5. log[n + 1] = Row(log[n].node, "node_exited")
  <2>1. (n + 1) - 1 = n
    BY <1>1
  <2>2. log[n] = Row(log[n + 1].node, "node_entered")
    BY <1>4, <1>21, <2>1
  <2>3. log[n + 1] \in Rows
    BY <1>1, <1>4
  <2>4. log[n + 1] = [node |-> log[n + 1].node, kind |-> log[n + 1].kind]
    BY <2>3 DEF Rows
  <2>5. QED
    BY <1>4, <2>2, <2>4 DEF Row
<1>6. IsRow(t[k]) /\ t[k].seq + 1 = n /\ t[k].row = log[n] /\ t[k].seq \in Nat
  BY <1>3 DEF RowAt
<1>7. OfKind(t[k], {"node_entered"}) /\ OfKind(t[k], Unclosed)
  BY <1>6 DEF OfKind, Unclosed
<1>8. k # L /\ k + 1 \in DOMAIN t
  BY <1>1, <1>2, <1>7
<1>9. Joins(t[k], t[k + 1])
  <2>1. k + 1 # 1 /\ (k + 1) - 1 = k
    BY <1>1
  <2>2. QED
    BY <1>8, <1>20, <2>1
<1>10. OfKind(t[k + 1], {"node_exited"})
  BY <1>7, <1>9 DEF Joins
<1>11. RowAt(t[k + 1], n + 1)
  <2>1. PICK j \in DOMAIN t : RowAt(t[j], n + 1)
    BY <1>4, <1>19
  <2>2. IsRow(t[j]) /\ t[j].seq + 1 = n + 1 /\ t[j].seq \in Nat
    BY <1>3, <2>1 DEF RowAt
  <2>3. IsRow(t[k + 1]) /\ t[k + 1].seq \in Nat
    BY <1>3, <1>8, <1>10 DEF OfKind
  <2>4. k \in Nat /\ j \in Nat /\ k < k + 1 /\ n \in Nat
    BY <1>1
  <2>5. t[k].seq < t[k + 1].seq
    BY <1>6, <1>8, <1>18, <2>3, <2>4
  <2>6. k + 1 < j => t[k + 1].seq < t[j].seq
    BY <1>8, <1>18, <2>2, <2>3
  <2>7. j < k => t[j].seq < t[k].seq
    BY <1>6, <1>18, <2>2
  <2>8. t[j].seq = t[k].seq + 1
    BY <1>6, <2>2, <2>4
  <2>9. ~(k + 1 < j) /\ ~(j < k) /\ j # k
    BY <1>6, <2>2, <2>3, <2>5, <2>6, <2>7, <2>8
  <2>10. j = k + 1
    BY <2>4, <2>9
  <2>11. QED
    BY <2>1, <2>10
<1>12. t[k + 1].row = log[n + 1]
  BY <1>3, <1>8, <1>11 DEF RowAt
<1>13. k + 2 \in DOMAIN t
  <2>1. OfKind(t[k + 1], Unclosed)
    BY <1>10 DEF OfKind, Unclosed
  <2>2. k + 1 # L
    BY <1>1, <1>2, <1>8, <2>1
  <2>3. QED
    BY <1>1, <1>8, <2>2
<1>14. Joins(t[k + 1], t[k + 2])
  <2>1. k + 2 # 1 /\ (k + 2) - 1 = k + 1
    BY <1>1
  <2>2. QED
    BY <1>13, <1>20, <2>1
<1>15. ClosesNode(t[k + 2]) /\ t[k + 1].row = Row(t[k + 2].node, "node_exited")
  BY <1>10, <1>14 DEF Joins
<1>16. t[k + 2].node = log[n].node
  BY <1>5, <1>12, <1>15 DEF Row
<1>17. QED
  BY <1>4, <1>5, <1>6, <1>8, <1>11, <1>12, <1>13, <1>15, <1>16

\* And a step that closes a node comes after its entry and its exit.
LEMMA ClosingIsOfAnEntry ==
    ASSUME NEW t, NEW log, Faithful(t, log), NEW p \in DOMAIN t, ClosesNode(t[p])
    PROVE  \E n \in DOMAIN log : \E k \in DOMAIN t :
              log[n].kind = "node_entered" /\ RowAt(t[k], n) /\ p = k + 2
<1>1. /\ Len(t) \in Nat /\ DOMAIN t = 1..Len(t)
      /\ \A i \in DOMAIN t : Joins(IF i = 1 THEN Nothing ELSE t[i - 1], t[i])
      /\ \A i \in DOMAIN t : IsRow(t[i]) =>
            t[i].seq \in Nat /\ t[i].seq + 1 \in DOMAIN log /\ t[i].row = log[t[i].seq + 1]
  BY FaithfulLens DEF Faithful, Chained
<1> DEFINE L == Len(t)
<1>2. L \in Nat /\ DOMAIN t = 1..L
  BY <1>1
<1> HIDE DEF L
<1>3. ~IsRow(Nothing)
  BY DEF IsRow, Nothing
<1>4. Joins(IF p = 1 THEN Nothing ELSE t[p - 1], t[p])
  BY <1>1
<1>5. p # 1 /\ IsRow(t[p - 1]) /\ t[p - 1].row = Row(t[p].node, "node_exited")
  BY <1>3, <1>4 DEF Joins
<1>6. p - 1 \in DOMAIN t /\ OfKind(t[p - 1], {"node_exited"})
  BY <1>2, <1>5 DEF OfKind, Row
<1>7. Joins(IF p - 1 = 1 THEN Nothing ELSE t[(p - 1) - 1], t[p - 1])
  BY <1>1, <1>6
<1>8. /\ p - 1 # 1 /\ IsRow(t[(p - 1) - 1])
      /\ t[(p - 1) - 1].row = Row(t[p - 1].row.node, "node_entered")
  BY <1>3, <1>6, <1>7 DEF Joins
<1> DEFINE k == (p - 1) - 1
<1>9. k \in DOMAIN t /\ p = k + 2
  BY <1>2, <1>6, <1>8
<1>10. IsRow(t[k]) /\ t[k].row.kind = "node_entered"
  BY <1>8 DEF Row
<1> HIDE DEF k
<1> DEFINE n == t[k].seq + 1
<1>11. n \in DOMAIN log /\ log[n].kind = "node_entered" /\ RowAt(t[k], n)
  BY <1>1, <1>9, <1>10 DEF RowAt
<1>12. QED
  BY <1>9, <1>11

\* Whatever came before a node's entry, a step has closed it.
LEMMA StepBefore ==
    ASSUME NEW t, NEW log, Faithful(t, log), NEW n \in DOMAIN log,
           NEW k \in DOMAIN t, RowAt(t[k], n),
           NEW j \in DOMAIN t, IsRow(t[j]), t[j].row.kind \notin PreludeKinds, j < k
    PROVE  \E r \in DOMAIN t : j < r /\ r < k + 2 /\ IsStep(t[r])
<1> DEFINE M == Len(log)  L == Len(t)
<1>1. L \in Nat /\ DOMAIN t = 1..L /\ M \in Nat /\ DOMAIN log = 1..M
      /\ \A i \in DOMAIN log : log[i] \in Rows
  BY FaithfulLens
<1>2. \A i \in DOMAIN t : IsRow(t[i]) =>
         t[i].seq \in Nat /\ t[i].seq + 1 \in DOMAIN log /\ t[i].row = log[t[i].seq + 1]
  BY DEF Faithful
<1>3. \A i, l \in DOMAIN t : IsRow(t[i]) /\ IsRow(t[l]) /\ i < l => t[i].seq < t[l].seq
  BY DEF Faithful
<1>4. \A i \in DOMAIN t : Joins(IF i = 1 THEN Nothing ELSE t[i - 1], t[i])
  BY DEF Faithful, Chained
<1>5. \A i \in DOMAIN log : log[i].kind = "memory_written" => i = M
  BY DEF Faithful, LogShape
<1> HIDE DEF M, L
<1> DEFINE w == t[j].seq + 1
<1>6. w \in DOMAIN log /\ t[j].row = log[w] /\ RowAt(t[j], w) /\ t[j].seq \in Nat
  BY <1>2 DEF RowAt
<1>7. IsRow(t[k]) /\ t[k].seq + 1 = n /\ t[k].seq \in Nat /\ t[j].seq < t[k].seq
  BY <1>2, <1>3 DEF RowAt
<1>8. w < n
  BY <1>6, <1>7
<1> HIDE DEF w
<1>9. /\ j + 1 \in DOMAIN t /\ j < j + 1 /\ j + 1 < k + 2 /\ j < j + 2 /\ j + 2 < k + 2
      /\ j + 1 # 1 /\ (j + 1) - 1 = j
  BY <1>1
<1>10. Joins(t[j], t[j + 1])
  BY <1>4, <1>9
<1>11. log[w].kind \in {"node_entered", "node_exited", "approval_recorded", "run_failed",
                        "memory_written"}
  <2>1. log[w] \in Rows /\ log[w].kind \notin PreludeKinds
    BY <1>1, <1>6
  <2>2. QED
    BY <2>1 DEF Rows, PreludeKinds
<1>12. CASE log[w].kind = "node_entered"
  <2>1. j + 2 \in DOMAIN t /\ ClosesNode(t[j + 2])
    BY <1>6, <1>12, EntryIsClosed
  <2>2. QED
    BY <1>9, <2>1 DEF ClosesNode
<1>13. CASE log[w].kind = "node_exited"
  <2>1. ClosesNode(t[j + 1])
    BY <1>6, <1>10, <1>13 DEF Joins, OfKind
  <2>2. QED
    BY <1>9, <2>1 DEF ClosesNode
<1>14. CASE log[w].kind \in {"approval_recorded", "run_failed"}
  <2>1. IsStep(t[j + 1])
    BY <1>6, <1>10, <1>14 DEF Joins, OfKind
  <2>2. QED
    BY <1>9, <2>1
<1>15. CASE log[w].kind = "memory_written"
  BY <1>1, <1>5, <1>6, <1>8, <1>15
<1>16. QED
  BY <1>11, <1>12, <1>13, <1>14, <1>15

\* Two places next to each other, in order.
LEMMA PickedPair ==
    ASSUME NEW T, NEW t \in Seq(T), NEW k \in DOMAIN t, k + 1 \in DOMAIN t
    PROVE  Picked(t, {k, k + 1}) = <<t[k], t[k + 1]>>
<1> DEFINE P == {k, k + 1}  pick == Picked(t, P)  m == Cardinality(P)
<1>1. k \in Nat
  OBVIOUS
<1>2. m = 2
  <2>1. IsFiniteSet({k}) /\ Cardinality({k}) = 1
    BY FS_Singleton
  <2>2. k + 1 \notin {k} /\ {k} \cup {k + 1} = P
    BY <1>1
  <2>3. Cardinality({k} \cup {k + 1}) = Cardinality({k}) + 1
    BY <2>1, <2>2, FS_AddElement
  <2>4. m = Cardinality({k} \cup {k + 1})
    BY <2>2
  <2> HIDE DEF m
  <2>5. QED
    BY <2>1, <2>3, <2>4
<1>3. P \in SUBSET DOMAIN t
  OBVIOUS
<1>4. /\ pick \in Seq(T) /\ Len(pick) = m
      /\ \A i \in DOMAIN pick : Nth(P, i) \in P /\ pick[i] = t[Nth(P, i)]
      /\ \A i, j \in DOMAIN pick : i < j => Nth(P, i) < Nth(P, j)
  <2> HIDE DEF P
  <2>1. QED
    BY <1>3, PickedKeepsOrder
<1>5. DOMAIN pick = {1, 2}
  <2> HIDE DEF pick, m
  <2>1. QED
    BY <1>2, <1>4
<1> HIDE DEF pick
<1>6. Nth(P, 1) \in {k, k + 1} /\ Nth(P, 2) \in {k, k + 1} /\ Nth(P, 1) < Nth(P, 2)
  BY <1>4, <1>5
<1>7. Nth(P, 1) = k /\ Nth(P, 2) = k + 1
  BY <1>1, <1>6
<1>8. pick[1] = t[k] /\ pick[2] = t[k + 1]
  BY <1>4, <1>5, <1>7
<1>9. pick = <<pick[1], pick[2]>>
  BY <1>2, <1>4, <1>5
<1>10. QED
  BY <1>8, <1>9 DEF pick

\* The entry of a node on the screen is its span in the log.
LEMMA EntryIsSpan ==
    ASSUME NEW t, NEW log, Faithful(t, log), NEW n \in DOMAIN log, log[n].kind = "node_entered",
           NEW k \in DOMAIN t, RowAt(t[k], n)
    PROVE  EntryAt(t, k + 2) = SpanAt(log, n)
<1> DEFINE M == Len(log)  L == Len(t)  p == k + 2
           Since(q) == q < p /\ ~\E r \in DOMAIN t : q < r /\ r < p /\ IsStep(t[r])
           P == {q \in DOMAIN t : /\ IsRow(t[q]) /\ Since(q)
                                  /\ t[q].row.kind \notin PreludeKinds}
           Q == {q \in DOMAIN log : q > n /\ log[q].kind = "node_exited"}
<1>1. L \in Nat /\ DOMAIN t = 1..L /\ M \in Nat /\ DOMAIN log = 1..M
  BY FaithfulLens
<1>2. t \in Seq(Timed) /\ log \in Seq(Rows)
  BY DEF Faithful
<1>3. /\ n + 1 \in DOMAIN log /\ log[n + 1] = Row(log[n].node, "node_exited")
      /\ k + 1 \in DOMAIN t /\ RowAt(t[k + 1], n + 1) /\ RowAt(t[k], n)
      /\ k + 2 \in DOMAIN t /\ ClosesNode(t[k + 2]) /\ t[k + 2].node = log[n].node
      /\ t[k].row = log[n] /\ t[k + 1].row = log[n + 1]
  BY EntryIsClosed
<1> HIDE DEF M, L
<1>4. k \in Nat /\ n \in Nat /\ p \in DOMAIN t
  BY <1>1, <1>3
<1>5. P = {k, k + 1}
  <2>1. /\ IsRow(t[k]) /\ IsRow(t[k + 1])
        /\ t[k].row.kind \notin PreludeKinds /\ t[k + 1].row.kind \notin PreludeKinds
    BY <1>3 DEF RowAt, Row, PreludeKinds
  <2>2. ~IsStep(t[k + 1])
    BY <2>1 DEF IsRow, IsStep
  <2>3. Since(k) /\ Since(k + 1)
    <3>1. \A r \in DOMAIN t : k < r /\ r < p => r = k + 1
      BY <1>1, <1>4
    <3>2. k < p /\ k + 1 < p /\ k < k + 1
      BY <1>4
    <3>3. \A r \in DOMAIN t : ~(k + 1 < r /\ r < p)
      BY <1>1, <1>4
    <3>4. QED
      BY <2>2, <3>1, <3>2, <3>3
  <2>4. ASSUME NEW j \in P PROVE j \in {k, k + 1}
    <3>1. ~(j < k)
      BY <2>4, StepBefore
    <3>2. QED
      BY <1>1, <1>4, <2>4, <3>1
  <2>5. QED
    BY <1>3, <2>1, <2>3, <2>4
<1>6. RowsAt(t, P) = <<log[n], log[n + 1]>>
  <2>1. Picked(t, P) = <<t[k], t[k + 1]>>
    BY <1>2, <1>3, <1>5, PickedPair
  <2> HIDE DEF P
  <2>2. RowsAt(t, P) = <<t[k].row, t[k + 1].row>>
    BY <2>1 DEF RowsAt
  <2>3. QED
    BY <1>3, <2>2
<1>7. EntryAt(t, p) = [name |-> log[n].node, rows |-> <<log[n], log[n + 1]>>]
  BY <1>3, <1>6 DEF EntryAt
<1>8. Min(Q) = n + 1
  <2>1. n + 1 \in Q
    BY <1>3, <1>4 DEF Row
  <2>2. \A q \in Q : q \in Nat /\ n + 1 <= q
    BY <1>1, <1>4
  <2>3. \A x \in Q : (\A y \in Q : x <= y) => x = n + 1
    BY <1>4, <2>1, <2>2
  <2> HIDE DEF Q
  <2>4. QED
    BY <2>1, <2>2, <2>3 DEF Min
<1>9. SubSeq(log, n, n + 1) = <<log[n], log[n + 1]>>
  <2> DEFINE part == SubSeq(log, n, n + 1)
  <2>1. n <= n + 1 /\ n \in 1..Len(log) /\ n + 1 \in 1..Len(log) /\ n + 1 \in Int /\ n \in Int
    BY <1>1, <1>3, <1>4 DEF M
  <2>2. part \in Seq(Rows) /\ Len(part) = (n + 1) - n + 1
        /\ \A i \in 1..((n + 1) - n + 1) : part[i] = log[n + i - 1]
    BY <1>2, <2>1, SubSeqProperties
  <2>3. (n + 1) - n + 1 = 2 /\ n + 1 - 1 = n /\ n + 2 - 1 = n + 1
    BY <1>4
  <2> HIDE DEF part
  <2>4. Len(part) = 2 /\ part[1] = log[n] /\ part[2] = log[n + 1]
    BY <2>2, <2>3
  <2>5. part = <<part[1], part[2]>>
    BY <2>2, <2>4
  <2>6. QED
    BY <2>4, <2>5 DEF part
<1>10. SpanAt(log, n) = [name |-> log[n].node, rows |-> <<log[n], log[n + 1]>>]
  BY <1>8, <1>9 DEF SpanAt
<1>11. QED
  BY <1>7, <1>10

\* The nodes on the screen are the nodes of the log, one for one.
LEMMA NodesInOrder ==
    ASSUME NEW v, NEW log, Faithful(v.timeline, log)
    PROVE  NodeEntries(v) = NodeSpans(log)
<1> DEFINE t == v.timeline
           C == {p \in DOMAIN t : ClosesNode(t[p])}
           E == {n \in DOMAIN log : log[n].kind = "node_entered"}
           c == Cardinality(C)  e == Cardinality(E)
           Place(n) == CHOOSE k \in DOMAIN t : RowAt(t[k], n)
<1>1. Len(t) \in Nat /\ DOMAIN t = 1..Len(t) /\ Len(log) \in Nat /\ DOMAIN log = 1..Len(log)
  BY FaithfulLens
<1>2. Faithful(t, log)
  OBVIOUS
<1> DEFINE L == Len(t)  M == Len(log)
<1>3. L \in Nat /\ DOMAIN t = 1..L /\ M \in Nat /\ DOMAIN log = 1..M
  BY <1>1
<1> HIDE DEF L, M
<1>4. C \in SUBSET Int /\ IsFiniteSet(C) /\ E \in SUBSET Int /\ IsFiniteSet(E)
  <2>1. \A m \in Nat : IsFiniteSet(1..m)
    BY FS_Interval
  <2>2. C \in SUBSET (1..L) /\ E \in SUBSET (1..M)
    BY <1>3
  <2>3. 1..L \in SUBSET Int /\ 1..M \in SUBSET Int /\ IsFiniteSet(1..L) /\ IsFiniteSet(1..M)
    BY <1>3, <2>1
  <2> HIDE DEF C, E
  <2>4. QED
    BY <2>2, <2>3, FS_Subset
<1>5. /\ c \in Nat
      /\ \A i \in 1..c : Nth(C, i) \in C
      /\ \A x \in C : \E i \in 1..c : Nth(C, i) = x
      /\ \A i, j \in 1..c : i < j => Nth(C, i) < Nth(C, j)
  <2> HIDE DEF C
  <2>1. QED
    BY <1>4, NthInOrder
<1>6. /\ e \in Nat
      /\ \A i \in 1..e : Nth(E, i) \in E
      /\ \A x \in E : \E i \in 1..e : Nth(E, i) = x
      /\ \A i, j \in 1..e : i < j => Nth(E, i) < Nth(E, j)
  <2> HIDE DEF E
  <2>1. QED
    BY <1>4, NthInOrder
<1> HIDE DEF c, e, t
<1>7. \A n \in DOMAIN log : Place(n) \in DOMAIN t /\ RowAt(t[Place(n)], n)
  <2>1. \A n \in DOMAIN log : \E k \in DOMAIN t : RowAt(t[k], n)
    BY <1>2 DEF Faithful
  <2>2. QED
    BY <2>1
<1>8. \A k, l \in DOMAIN t : IsRow(t[k]) /\ IsRow(t[l]) /\ k < l => t[k].seq < t[l].seq
  BY <1>2 DEF Faithful
<1>9. \A k \in DOMAIN t : IsRow(t[k]) => t[k].seq \in Nat
  BY <1>2 DEF Faithful
<1>10. ASSUME NEW n \in DOMAIN log, NEW m \in DOMAIN log, NEW k \in DOMAIN t, NEW l \in DOMAIN t,
              RowAt(t[k], n), RowAt(t[l], m)
       PROVE  (n < m => k < l) /\ (n = m => k = l)
  <2>1. /\ IsRow(t[k]) /\ t[k].seq + 1 = n /\ IsRow(t[l]) /\ t[l].seq + 1 = m
        /\ t[k].seq \in Nat /\ t[l].seq \in Nat
    BY <1>9, <1>10 DEF RowAt
  <2>2. (k < l => t[k].seq < t[l].seq) /\ (l < k => t[l].seq < t[k].seq)
    BY <1>8, <2>1
  <2>3. k \in Nat /\ l \in Nat
    BY <1>3
  <2>4. QED
    BY <2>1, <2>2, <2>3
<1> HIDE DEF Place
<1> DEFINE a == [i \in 1..c |-> Nth(C, i)]  b == [i \in 1..e |-> Place(Nth(E, i)) + 2]
<1>11. ASSUME NEW i \in 1..e
       PROVE  /\ Nth(E, i) \in DOMAIN log /\ log[Nth(E, i)].kind = "node_entered"
              /\ Place(Nth(E, i)) \in DOMAIN t /\ RowAt(t[Place(Nth(E, i))], Nth(E, i))
              /\ b[i] = Place(Nth(E, i)) + 2 /\ b[i] \in C
  <2>1. Nth(E, i) \in DOMAIN log /\ log[Nth(E, i)].kind = "node_entered"
    BY <1>6
  <2> HIDE DEF E
  <2>2. Place(Nth(E, i)) \in DOMAIN t /\ RowAt(t[Place(Nth(E, i))], Nth(E, i))
    BY <1>7, <2>1
  <2>3. Place(Nth(E, i)) + 2 \in C
    BY <1>2, <2>1, <2>2, EntryIsClosed
  <2>4. QED
    BY <2>1, <2>2, <2>3
<1>12. a \in [1..c -> C] /\ b \in [1..e -> C]
  BY <1>5, <1>11
<1>13. \A i, j \in 1..e : i < j => b[i] < b[j]
  <2> SUFFICES ASSUME NEW i \in 1..e, NEW j \in 1..e, i < j PROVE b[i] < b[j]
    OBVIOUS
  <2>1. Nth(E, i) < Nth(E, j)
    BY <1>6
  <2>2. Place(Nth(E, i)) < Place(Nth(E, j))
    BY <1>10, <1>11, <2>1
  <2>3. Place(Nth(E, i)) \in Nat /\ Place(Nth(E, j)) \in Nat
    BY <1>3, <1>11
  <2>4. b[i] = Place(Nth(E, i)) + 2 /\ b[j] = Place(Nth(E, j)) + 2
    BY <1>11
  <2> HIDE DEF b
  <2>5. QED
    BY <2>2, <2>3, <2>4
<1>14. \A x \in C : \E i \in 1..e : b[i] = x
  <2> SUFFICES ASSUME NEW x \in C PROVE \E i \in 1..e : b[i] = x
    OBVIOUS
  <2>1. PICK n \in DOMAIN log : \E k \in DOMAIN t :
          log[n].kind = "node_entered" /\ RowAt(t[k], n) /\ x = k + 2
    BY <1>2, ClosingIsOfAnEntry
  <2>2. PICK k \in DOMAIN t : log[n].kind = "node_entered" /\ RowAt(t[k], n) /\ x = k + 2
    BY <2>1
  <2>3. PICK i \in 1..e : Nth(E, i) = n
    BY <1>6, <2>2
  <2>4. Place(n) = k
    BY <1>7, <1>10, <2>2
  <2>5. b[i] = k + 2
    BY <1>11, <2>3, <2>4
  <2>6. QED
    BY <2>2, <2>5
<1>15. c = e /\ \A i \in 1..c : a[i] = b[i]
  <2>1. Enumerates(a, c, C)
    BY <1>5, <1>12 DEF Enumerates
  <2>2. Enumerates(b, e, C)
    BY <1>12, <1>13, <1>14 DEF Enumerates
  <2>3. C \in SUBSET Int /\ c \in Nat /\ e \in Nat
    BY <1>4, <1>5, <1>6
  <2> HIDE DEF a, b, C
  <2>4. QED
    BY <2>1, <2>2, <2>3, OneEnumeration
<1>16. ASSUME NEW i \in 1..e PROVE EntryAt(t, Nth(C, i)) = SpanAt(log, Nth(E, i))
  <2>1. Nth(C, i) = Place(Nth(E, i)) + 2
    BY <1>11, <1>15
  <2>2. QED
    BY <1>2, <1>11, <2>1, EntryIsSpan
<1>17. Ascending(C) = [i \in 1..e |-> Nth(C, i)] /\ Ascending(E) = [i \in 1..e |-> Nth(E, i)]
  BY <1>15 DEF Ascending, c, e
<1>18. NodeEntries(v) = [i \in 1..e |-> EntryAt(t, Nth(C, i))]
  <2>1. NodeEntries(v) = [i \in DOMAIN Ascending(C) |-> EntryAt(t, Ascending(C)[i])]
    BY DEF NodeEntries, t
  <2> HIDE DEF C
  <2>2. QED
    BY <1>17, <2>1
<1>19. NodeSpans(log) = [i \in 1..e |-> SpanAt(log, Nth(E, i))]
  <2>1. NodeSpans(log) = [i \in DOMAIN Ascending(E) |-> SpanAt(log, Ascending(E)[i])]
    BY DEF NodeSpans
  <2> HIDE DEF E
  <2>2. QED
    BY <1>17, <2>1
<1>20. QED
  BY <1>16, <1>18, <1>19

\* A message that carried the whole run and is at rest holds all of it.
LEMMA SawAllOfIt ==
    ASSUME StreamInv, WatchInv, SawItAll
    PROVE  Settled /\ Faithful(view[1].timeline, filed.events)
<1> DEFINE t == view[1].timeline  log == filed.events
<1>1. /\ TypeOK /\ ShapeInv /\ WholeInv /\ 1 \in Segments /\ RowsAreTheRecord
  BY StreamAssumption, RowsFollow DEF StreamInv, WatchInv
<1>2. Whole
  BY DEF SawItAll, Whole
<1>3. \A s \in Opened : ~Pending(s)
  BY DEF SawItAll, Pending, Feeds
<1>4. Settled /\ Chained(Nothing, t)
  BY <1>1, <1>2, <1>3 DEF WholeInv, SawItAll
<1>5. t \in Seq(Timed) /\ log \in Seq(Rows)
  BY <1>1 DEF TypeOK, Views
<1>6. LogShape(log) /\ ~EndsIn(log, {"node_entered"})
  BY <1>1 DEF ShapeInv
<1>7. /\ ~OfKind(LastOf(t, Nothing), Unclosed)
      /\ \A n \in DOMAIN log : \E k \in DOMAIN t : RowAt(t[k], n)
      /\ \A k \in DOMAIN t : IsRow(t[k]) => t[k].seq < Len(log)
  BY <1>4 DEF Settled, LastShown, IsShown
<1>8. \A k \in DOMAIN t : IsRow(t[k]) =>
        /\ t[k].seq < Len(log) => t[k].row = log[t[k].seq + 1]
        /\ \A l \in DOMAIN t : l > k /\ IsRow(t[l]) => t[k].seq < t[l].seq
  BY <1>1 DEF RowsAreTheRecord, Report, IsRow
<1> HIDE DEF t, log
<1>9. ASSUME NEW k \in DOMAIN t, IsRow(t[k])
      PROVE  t[k].seq \in Nat /\ t[k].seq + 1 \in DOMAIN log /\ t[k].row = log[t[k].seq + 1]
  <2>1. t[k] \in Timed
    BY <1>5
  <2>2. t[k].seq \in Nat
    BY <1>9, <2>1 DEF Timed, IsRow
  <2>3. t[k].seq < Len(log) /\ Len(log) \in Nat /\ DOMAIN log = 1..Len(log)
    BY <1>5, <1>7, <1>9
  <2>4. t[k].seq + 1 \in DOMAIN log
    BY <2>2, <2>3
  <2>5. QED
    BY <1>8, <1>9, <2>2, <2>3, <2>4
<1>10. ASSUME NEW k \in DOMAIN t, NEW l \in DOMAIN t, IsRow(t[k]), IsRow(t[l]), k < l
       PROVE  t[k].seq < t[l].seq
  <2>1. DOMAIN t \in SUBSET Int
    BY <1>5
  <2>2. l > k
    BY <1>10, <2>1
  <2>3. QED
    BY <1>8, <1>10, <2>2
<1>11. Faithful(t, log)
  BY <1>4, <1>5, <1>6, <1>7, <1>9, <1>10 DEF Faithful
<1>12. QED
  BY <1>4, <1>11 DEF t, log

\* Whoever watches from whichever screen, what is shown and what is on its way
\* are the rows that were sent, in whole nodes (web/stream.py: step,
\* flush_events; ui/src/turnReducer.ts).
THEOREM WatchInvariant == Spec => [](StreamInv /\ WatchInv)
<1>1. Init => StreamInv /\ WatchInv
  BY InitEstablishes, ShapeInit, StartInit, WholeInit DEF WatchInv
<1>2. StreamInv /\ WatchInv /\ [Next]_vars => StreamInv' /\ WatchInv'
  BY NextKeeps, WatchNext
<1>3. QED
  BY <1>1, <1>2, PTL DEF Spec

\* For every number of decisions and however far the browser is behind, a
\* message at rest that carried the whole run shows the rows, the node
\* executions and the status a reload would rebuild from the filed run.
THEOREM ScreenIsTheRecord == Spec => []TheScreenIsTheRecord
<1>1. ASSUME StreamInv, WatchInv PROVE TheScreenIsTheRecord
  <2>1. RowsAreTheRecord
    BY <1>1, RowsFollow
  <2>2. ASSUME SawItAll
        PROVE  /\ EngineRows(view[1]) = Report.events
               /\ NodeEntries(view[1]) = NodeSpans(Report.events)
               /\ view[1].status = "paused" <=> Report.outcome = "paused"
    <3>1. Settled /\ Faithful(view[1].timeline, filed.events)
      BY <1>1, <2>2, SawAllOfIt
    <3>2. EngineRows(view[1]) = filed.events
      BY <3>1, RowsInOrder DEF EngineRows
    <3>3. NodeEntries(view[1]) = NodeSpans(filed.events)
      BY <3>1, NodesInOrder
    <3>4. view[1].status = "paused" <=> filed.outcome = "paused"
      BY <3>1 DEF Settled
    <3>5. QED
      BY <3>2, <3>3, <3>4 DEF Report
  <2>3. QED
    BY <2>1, <2>2 DEF TheScreenIsTheRecord
<1>2. StreamInv /\ WatchInv => TheScreenIsTheRecord
  BY <1>1
<1>3. QED
  BY <1>2, WatchInvariant, PTL
=============================================================================
