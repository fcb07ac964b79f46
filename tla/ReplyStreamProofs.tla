------------------------- MODULE ReplyStreamProofs -------------------------
(***************************************************************************)
(* What ReplyStream guarantees for every number of segments, every budget  *)
(* of steps and attempts, and every lag of whoever watches.                *)
(***************************************************************************)
EXTENDS ReplyStream, WellFoundedInduction, SequenceTheorems, TLAPS

(***************************************************************************)
(* Events, by kind.                                                        *)
(***************************************************************************)
PlainTypes == {"reset", "approval", "answer", "finished", "error", "end"}

LEMMA EventForms ==
    /\ \A t \in PlainTypes : [type |-> t] \in Events
    /\ \A b \in BOOLEAN : [type |-> "started", resumed |-> b] \in Events
    /\ \A c \in Seq(Steps) : [type |-> "context", calls |-> c] \in Events
    /\ \A p \in Pieces : [type |-> "token", piece |-> p] \in Events
    /\ \A n \in Nat, r \in Rows : [type |-> "row", seq |-> n, row |-> r] \in Events
    /\ \A n \in 1..(MaxSteps + 1), d \in Steps :
          [type |-> "live", step |-> n, during |-> d] \in Events
    /\ \A n \in Nodes \cup {"none"}, o, h \in Steps, c \in Seq(Steps) :
          [type |-> "step", node |-> n, ordinal |-> o, calls |-> c, search |-> h] \in Events
BY DEF Events, Timed, PlainTypes

LEMMA EventFields ==
    ASSUME NEW e \in Events
    PROVE  /\ e.type \in {"row", "live", "step"} <=> e \in Timed
           /\ e.type = "row" => e.seq \in Nat /\ e.row \in Rows
           /\ e.type = "token" => e.piece \in Pieces
           /\ e.type = "context" => e.calls \in Seq(Steps)
           /\ e.type = "started" => e.resumed \in BOOLEAN
BY DEF Events, Timed

(***************************************************************************)
(* What is put on a queue comes after what is on it.                       *)
(***************************************************************************)
LEMMA Joined ==
    ASSUME NEW S, NEW a \in Seq(S), NEW b \in Seq(S)
    PROVE  /\ Len(a \o b) = Len(a) + Len(b)
           /\ \A i \in DOMAIN a : (a \o b)[i] = a[i]
           /\ \A i \in DOMAIN (a \o b) : i \notin DOMAIN a =>
                 i - Len(a) \in DOMAIN b /\ (a \o b)[i] = b[i - Len(a)]
<1>1. /\ a \o b \in Seq(S) /\ Len(a \o b) = Len(a) + Len(b)
      /\ \A i \in 1..(Len(a) + Len(b)) :
            (a \o b)[i] = IF i <= Len(a) THEN a[i] ELSE b[i - Len(a)]
  BY ConcatProperties
<1> DEFINE c == a \o b
<1>2. /\ Len(a) \in Nat /\ DOMAIN a = 1..Len(a) /\ Len(b) \in Nat /\ DOMAIN b = 1..Len(b)
      /\ DOMAIN c = 1..Len(c)
  BY <1>1
<1> HIDE DEF c
<1>3. /\ Len(c) = Len(a) + Len(b)
      /\ \A i \in 1..(Len(a) + Len(b)) :
            c[i] = IF i <= Len(a) THEN a[i] ELSE b[i - Len(a)]
  BY <1>1 DEF c
<1>4. QED
  BY <1>2, <1>3 DEF c

Puts(s, events) ==
    queue' = IF reader[s] = "reading" THEN [queue EXCEPT ![s] = @ \o events] ELSE queue

LEMMA PutFacts ==
    ASSUME TypeOK, NEW s \in Segments, NEW events \in Seq(Events), Puts(s, events)
    PROVE  /\ queue' \in [Segments -> Seq(Events)]
           /\ \A r \in Segments \ {s} : queue'[r] = queue[r]
           /\ reader[s] # "reading" => queue'[s] = queue[s]
           /\ reader[s] = "reading" =>
                 /\ Len(queue'[s]) = Len(queue[s]) + Len(events)
                 /\ \A i \in DOMAIN queue[s] : queue'[s][i] = queue[s][i]
                 /\ \A i \in DOMAIN queue'[s] : i \notin DOMAIN queue[s] =>
                       /\ i - Len(queue[s]) \in DOMAIN events
                       /\ queue'[s][i] = events[i - Len(queue[s])]
<1> DEFINE E == Events
<1>1. queue \in [Segments -> Seq(E)] /\ events \in Seq(E)
  BY DEF TypeOK
<1>2. queue' = IF reader[s] = "reading" THEN [queue EXCEPT ![s] = queue[s] \o events] ELSE queue
  BY DEF Puts
<1> HIDE DEF E
<1>3. /\ queue' \in [Segments -> Seq(E)]
      /\ \A r \in Segments \ {s} : queue'[r] = queue[r]
      /\ reader[s] # "reading" => queue'[s] = queue[s]
      /\ reader[s] = "reading" => queue'[s] = queue[s] \o events
  BY <1>1, <1>2
<1>4. queue[s] \in Seq(E)
  BY <1>1
<1>5. ASSUME reader[s] = "reading"
      PROVE  /\ Len(queue'[s]) = Len(queue[s]) + Len(events)
             /\ \A i \in DOMAIN queue[s] : queue'[s][i] = queue[s][i]
             /\ \A i \in DOMAIN queue'[s] : i \notin DOMAIN queue[s] =>
                   /\ i - Len(queue[s]) \in DOMAIN events
                   /\ queue'[s][i] = events[i - Len(queue[s])]
  BY <1>1, <1>3, <1>4, <1>5, Joined
<1>6. queue' \in [Segments -> Seq(Events)]
  BY <1>3 DEF E
<1>7. QED
  BY <1>3, <1>5, <1>6

-----------------------------------------------------------------------------
(***************************************************************************)
(* A step of one thread: it puts events on its queue, and nothing moves    *)
(* but itself, its stream and its queue.                                   *)
(***************************************************************************)
Moves(s, put) ==
    /\ worker' \in [Segments -> Workers] /\ stream' \in [Segments -> Streams]
    /\ \A r \in Segments \ {s} : worker'[r] = worker[r] /\ stream'[r] = stream[r]
    /\ put \in Seq(Events) /\ Puts(s, put) /\ Elsewhere

\* The thread is alive, and only its last step puts the sentinel, last.
Ends(s, put) ==
    /\ ~At(s, {"idle", "closed"}) /\ worker'[s].at \notin {"idle", "setup"}
    /\ \A i \in DOMAIN put :
          put[i].type = "end" => i = Len(put) /\ worker'[s].at = "closed"

\* Its rows grow at the end, and it sends those not sent yet, in order.
Grows(old, new) == Len(old) <= Len(new) /\ \A i \in DOMAIN old : new[i] = old[i]

Emits(s, put) ==
    LET log == worker'[s].state.events IN
    /\ Grows(Log(s), log)
    /\ stream[s].emitted <= stream'[s].emitted
    /\ worker'[s].at = "closed" \/ stream'[s].emitted <= Len(log)
    /\ \A i \in DOMAIN put : IsRow(put[i]) =>
          /\ stream[s].emitted <= put[i].seq /\ put[i].seq < stream'[s].emitted
          /\ put[i].seq < Len(log) /\ put[i].row = log[put[i].seq + 1]
          /\ \A j \in DOMAIN put : j > i /\ IsRow(put[j]) => put[i].seq < put[j].seq

\* A fragment is the call's own; another attempt at it comes with a reset.
Reset == <<[type |-> "reset"]>>

Speaks(s, put) ==
    LET call == worker'[s].call
        calling == worker'[s].at = "calling"
    IN  /\ Call(s).number <= call.number
        /\ \A i \in DOMAIN put : put[i].type = "token" =>
              /\ put[i].piece = <<s, Call(s).number, Call(s).attempt>>
              /\ At(s, {"calling"}) /\ calling /\ call = Call(s)
        /\ calling /\ call.number = Call(s).number =>
              At(s, {"calling"}) /\ (call.attempt = Call(s).attempt \/ put = Reset)

LEMMA TypeKept ==
    ASSUME TypeOK, NEW s \in Segments, NEW put, Moves(s, put), Ends(s, put), Emits(s, put),
           pause' \in {NoPause} \cup Waiting,
           filed' \in [outcome : {"none", "paused", "terminal"}, events : Seq(Rows)]
    PROVE  TypeOK'
<1>1. /\ put \in Seq(Events) /\ Puts(s, put) /\ reader' = reader /\ message' = message
      /\ view' = view /\ worker' \in [Segments -> Workers] /\ stream' \in [Segments -> Streams]
  BY DEF Moves, Elsewhere
<1>2. queue' \in [Segments -> Seq(Events)]
  BY <1>1, PutFacts
<1>3. ASSUME NEW r \in Segments PROVE QueueOK(r)'
  <2>1. CASE r # s
    <3>1. queue'[r] = queue[r] /\ worker'[r] = worker[r]
      BY <1>1, <2>1, PutFacts DEF Moves
    <3>2. QED
      BY <1>1, <3>1 DEF TypeOK, QueueOK, At
  <2>2. CASE r = s
    <3>1. reader[s] # "reading" => queue'[s] = queue[s]
      BY <1>1, PutFacts
    <3>2. QueueOK(s)
      BY DEF TypeOK
    <3>3. At(s, {"idle"})' <=> reader'[s] = "none"
      BY <1>1, <3>2 DEF QueueOK, Ends, At
    <3>4. ASSUME NEW i \in DOMAIN queue'[s], queue'[s][i].type = "end"
          PROVE  i = Len(queue'[s]) /\ worker'[s].at = "closed"
      <4>1. i \notin DOMAIN queue[s] /\ reader[s] = "reading"
        BY <1>1, <3>1, <3>2, <3>4, PutFacts DEF QueueOK, Ends, At
      <4>2. /\ i - Len(queue[s]) \in DOMAIN put
            /\ queue'[s][i] = put[i - Len(queue[s])]
            /\ Len(queue'[s]) = Len(queue[s]) + Len(put)
        BY <1>1, <4>1, PutFacts
      <4>3. i - Len(queue[s]) = Len(put) /\ worker'[s].at = "closed"
        BY <3>4, <4>2 DEF Ends
      <4>4. i \in Nat /\ Len(queue[s]) \in Nat /\ Len(put) \in Nat
        BY <1>1, <1>2 DEF TypeOK
      <4>5. QED
        BY <4>2, <4>3, <4>4
    <3>5. QED
      BY <2>2, <1>1, <3>1, <3>2, <3>3, <3>4 DEF QueueOK, At
  <2>3. QED
    BY <2>1, <2>2
<1>4. ASSUME NEW r \in Segments
      PROVE  At(r, {"setup", "closed"})' \/ stream'[r].emitted <= Len(State(r)'.events)
  BY DEF TypeOK, Moves, Emits, At, State
<1>5. QED
  BY <1>1, <1>2, <1>3, <1>4 DEF TypeOK

LEMMA NodesKept ==
    ASSUME NEW s \in Segments, NEW put, Moves(s, put), \A r \in Segments : NodeInv(r), NodeInv(s)'
    PROVE  \A r \in Segments : NodeInv(r)'
<1> SUFFICES ASSUME NEW r \in Segments, r # s PROVE NodeInv(r)'
  OBVIOUS
<1>1. worker'[r] = worker[r] /\ stream'[r] = stream[r] /\ NodeInv(r)
  BY DEF Moves
<1>2. QED
  BY <1>1 DEF NodeInv, InNode, At, State, Call, Log

\* An event of the queue is one that was there, or one that was put.
LEMMA QueuedBefore ==
    ASSUME TypeOK, NEW s \in Segments, NEW put \in Seq(Events), Puts(s, put)
    PROVE  /\ Len(queue[s]) \in Nat /\ DOMAIN queue[s] = 1..Len(queue[s])
           /\ Len(queue'[s]) \in Nat /\ DOMAIN queue'[s] = 1..Len(queue'[s])
           /\ Len(queue[s]) <= Len(queue'[s])
           /\ \A i \in DOMAIN queue[s] : i \in DOMAIN queue'[s] /\ queue'[s][i] = queue[s][i]
           /\ \A i \in DOMAIN queue'[s] : i \notin DOMAIN queue[s] =>
                 /\ reader[s] = "reading"
                 /\ i > Len(queue[s]) /\ i - Len(queue[s]) \in DOMAIN put
                 /\ queue'[s][i] = put[i - Len(queue[s])]
                 /\ Len(queue'[s]) = Len(queue[s]) + Len(put)
<1>1. /\ queue' \in [Segments -> Seq(Events)]
      /\ reader[s] # "reading" => queue'[s] = queue[s]
      /\ reader[s] = "reading" =>
            /\ Len(queue'[s]) = Len(queue[s]) + Len(put)
            /\ \A i \in DOMAIN queue[s] : queue'[s][i] = queue[s][i]
            /\ \A i \in DOMAIN queue'[s] : i \notin DOMAIN queue[s] =>
                  /\ i - Len(queue[s]) \in DOMAIN put
                  /\ queue'[s][i] = put[i - Len(queue[s])]
  BY PutFacts
<1>2. /\ Len(queue[s]) \in Nat /\ DOMAIN queue[s] = 1..Len(queue[s])
      /\ Len(queue'[s]) \in Nat /\ DOMAIN queue'[s] = 1..Len(queue'[s])
      /\ Len(put) \in Nat
  BY <1>1 DEF TypeOK
<1> DEFINE q == queue[s]  n == queue'[s]  lq == Len(q)  ln == Len(n)  lp == Len(put)
<1>3. /\ lq \in Nat /\ DOMAIN q = 1..lq /\ ln \in Nat /\ DOMAIN n = 1..ln /\ lp \in Nat
      /\ reader[s] # "reading" => n = q /\ ln = lq
      /\ reader[s] = "reading" =>
            /\ ln = lq + lp
            /\ \A i \in DOMAIN q : n[i] = q[i]
            /\ \A i \in DOMAIN n : i \notin DOMAIN q => i - lq \in DOMAIN put /\ n[i] = put[i - lq]
  BY <1>1, <1>2
<1> HIDE DEF q, n, lq, ln, lp
<1>4. lq <= ln
  BY <1>3
<1>5. \A i \in DOMAIN q : i \in DOMAIN n /\ n[i] = q[i]
  BY <1>3, <1>4
<1>6. \A i \in DOMAIN n : i \notin DOMAIN q =>
         /\ reader[s] = "reading" /\ i > lq
         /\ i - lq \in DOMAIN put /\ n[i] = put[i - lq] /\ ln = lq + lp
  BY <1>3
<1>7. QED
  BY <1>3, <1>4, <1>5, <1>6 DEF q, n, lq, ln, lp

LEMMA RowsKept ==
    ASSUME TypeOK, \A r \in Segments : RowsInv(r) /\ ScreenInv(r),
           NEW s \in Segments, NEW put, Moves(s, put), Emits(s, put)
    PROVE  \A r \in Segments : RowsInv(r)' /\ ScreenInv(r)'
<1>1. /\ put \in Seq(Events) /\ Puts(s, put) /\ reader' = reader /\ message' = message
      /\ view' = view
  BY DEF Moves, Elsewhere
<1>2. \A r \in Segments : Len(Log(r)) \in Nat /\ DOMAIN Log(r) = 1..Len(Log(r))
  BY DEF TypeOK, Workers, States, Log, State
<1>3. /\ \A r \in Segments : Grows(Log(r), Log(r)')
      /\ \A r \in Segments : Len(Log(r)') \in Nat /\ DOMAIN Log(r)' = 1..Len(Log(r)')
      /\ \A r \in Segments : stream[r].emitted \in Nat /\ stream'[r].emitted \in Nat
  <2>1. ASSUME NEW r \in Segments PROVE Grows(Log(r), Log(r)')
    <3>1. CASE r = s
      BY <3>1 DEF Emits, Log, State
    <3>2. CASE r # s
      BY <1>2, <3>2 DEF Moves, Log, State, Grows
    <3>3. QED
      BY <3>1, <3>2
  <2>2. ASSUME NEW r \in Segments
        PROVE  Len(Log(r)') \in Nat /\ DOMAIN Log(r)' = 1..Len(Log(r)')
    BY DEF Moves, Log, State, Workers, States
  <2>3. ASSUME NEW r \in Segments
        PROVE  stream[r].emitted \in Nat /\ stream'[r].emitted \in Nat
    BY DEF Moves, TypeOK, Streams
  <2>4. QED
    BY <2>1, <2>2, <2>3
<1>4. ASSUME NEW m \in Segments PROVE ScreenInv(m)'
  <2> DEFINE shown == view[m].timeline
  <2>1. ASSUME NEW k \in DOMAIN shown, IsRow(shown[k])
        PROVE  \E r \in Segments : /\ shown[k].seq < Len(Log(r)')
                                   /\ shown[k].row = Log(r)'[shown[k].seq + 1]
    <3>1. PICK r \in Segments : /\ shown[k].seq < Len(Log(r))
                                /\ shown[k].row = Log(r)[shown[k].seq + 1]
      BY <2>1 DEF ScreenInv
    <3>2. shown[k].seq \in Nat
      <4>1. shown \in Seq(Timed)
        BY DEF TypeOK, Views
      <4>2. shown[k] \in Timed
        BY <4>1
      <4>3. QED
        BY <2>1, <4>2 DEF Timed, IsRow
    <3>3. shown[k].seq + 1 \in DOMAIN Log(r)
      BY <1>2, <3>1, <3>2
    <3>4. QED
      BY <1>2, <1>3, <3>1, <3>2, <3>3 DEF Grows
  <2>2. QED
    BY <1>1, <2>1 DEF ScreenInv
<1>5. ASSUME NEW r \in Segments, r # s PROVE RowsInv(r)'
  <2>1. queue'[r] = queue[r] /\ stream'[r] = stream[r] /\ worker'[r] = worker[r]
    BY <1>1, <1>5, PutFacts DEF Moves
  <2>2. QED
    BY <1>1, <2>1 DEF RowsInv, Log, State
<1>6. RowsInv(s)'
  <2> DEFINE q == queue[s]  n == queue'[s]  log == Log(s)'
             shown == view[message[s]].timeline
  <2>1. /\ DOMAIN q \subseteq DOMAIN n /\ \A i \in DOMAIN q : n[i] = q[i]
        /\ \A i \in DOMAIN n \ DOMAIN q :
              /\ reader[s] = "reading" /\ i > Len(q)
              /\ i - Len(q) \in DOMAIN put /\ n[i] = put[i - Len(q)]
        /\ Len(q) \in Nat /\ DOMAIN q = 1..Len(q) /\ DOMAIN n \subseteq Nat
    BY <1>1, QueuedBefore
  <2>2. \A i \in DOMAIN n : IsRow(n[i]) => n[i].seq \in Nat
    <3>1. n \in Seq(Events)
      BY <1>1, PutFacts
    <3>2. QED
      BY <3>1, EventFields DEF IsRow
  <2>3. \A i \in DOMAIN q : IsRow(q[i]) =>
          /\ q[i].seq < stream[s].emitted /\ q[i].seq < Len(Log(s))
          /\ q[i].row = Log(s)[q[i].seq + 1]
          /\ \A j \in DOMAIN q : j > i /\ IsRow(q[j]) => q[i].seq < q[j].seq
    BY DEF RowsInv
  <2>4. \A i \in DOMAIN put : IsRow(put[i]) =>
          /\ stream[s].emitted <= put[i].seq /\ put[i].seq < stream'[s].emitted
          /\ put[i].seq < Len(log) /\ put[i].row = log[put[i].seq + 1]
          /\ \A j \in DOMAIN put : j > i /\ IsRow(put[j]) => put[i].seq < put[j].seq
    BY DEF Emits, Log, State
  <2>5. stream[s].emitted <= stream'[s].emitted
    BY DEF Emits
  <2>6. ASSUME NEW i \in DOMAIN n, IsRow(n[i])
        PROVE  /\ n[i].seq < stream'[s].emitted /\ n[i].seq < Len(log)
               /\ n[i].row = log[n[i].seq + 1]
    <3>1. CASE i \in DOMAIN q
      <4>1. n[i].seq < stream[s].emitted /\ n[i].seq + 1 \in DOMAIN Log(s)
            /\ n[i].row = Log(s)[n[i].seq + 1]
        BY <1>2, <2>1, <2>2, <2>3, <2>6, <3>1
      <4>2. QED
        BY <1>2, <1>3, <2>2, <2>5, <2>6, <4>1 DEF Grows
    <3>2. CASE i \notin DOMAIN q
      BY <2>1, <2>4, <2>6, <3>2
    <3>3. QED
      BY <3>1, <3>2
  <2>7. ASSUME NEW i \in DOMAIN n, IsRow(n[i]), NEW j \in DOMAIN n, j > i, IsRow(n[j])
        PROVE  n[i].seq < n[j].seq
    <3>1. CASE j \in DOMAIN q
      <4>1. i \in DOMAIN q
        BY <2>1, <2>7, <3>1
      <4>2. QED
        BY <2>1, <2>3, <2>7, <3>1, <4>1
    <3>2. CASE j \notin DOMAIN q /\ i \in DOMAIN q
      <4>1. n[i].seq < stream[s].emitted /\ stream[s].emitted <= n[j].seq
        BY <2>1, <2>3, <2>4, <2>7, <3>2
      <4>2. QED
        BY <1>3, <2>2, <2>7, <4>1
    <3>3. CASE j \notin DOMAIN q /\ i \notin DOMAIN q
      <4>1. /\ i - Len(q) \in DOMAIN put /\ n[i] = put[i - Len(q)]
            /\ j - Len(q) \in DOMAIN put /\ n[j] = put[j - Len(q)]
            /\ j - Len(q) > i - Len(q)
        BY <2>1, <2>7, <3>3
      <4>2. QED
        BY <2>4, <2>7, <4>1
    <3>4. QED
      BY <3>1, <3>2, <3>3
  <2>8. ASSUME reader[s] = "reading", NEW k \in DOMAIN shown, IsRow(shown[k])
        PROVE  /\ shown[k].seq < stream'[s].emitted
               /\ \A i \in DOMAIN n : IsRow(n[i]) => shown[k].seq < n[i].seq
    <3>1. /\ shown[k].seq < stream[s].emitted
          /\ \A i \in DOMAIN q : IsRow(q[i]) => shown[k].seq < q[i].seq
      BY <2>8 DEF RowsInv
    <3>2. shown[k].seq \in Nat
      <4>1. shown \in Seq(Timed)
        BY DEF TypeOK, Views
      <4>2. shown[k] \in Timed
        BY <4>1
      <4>3. QED
        BY <2>8, <4>2 DEF Timed, IsRow
    <3>3. ASSUME NEW i \in DOMAIN n, IsRow(n[i]) PROVE shown[k].seq < n[i].seq
      <4>1. CASE i \in DOMAIN q
        BY <2>1, <3>1, <3>3, <4>1
      <4>2. CASE i \notin DOMAIN q
        <5>1. stream[s].emitted <= n[i].seq
          BY <2>1, <2>4, <3>3, <4>2
        <5>2. QED
          BY <1>3, <2>2, <3>1, <3>2, <3>3, <5>1
      <4>3. QED
        BY <4>1, <4>2
    <3>4. QED
      BY <1>3, <2>5, <3>1, <3>2, <3>3
  <2>9. QED
    BY <1>1, <2>6, <2>7, <2>8 DEF RowsInv
<1>7. QED
  BY <1>4, <1>5, <1>6

\* A reset on its way stays on its way.
LEMMA ResetsStay ==
    ASSUME TypeOK, NEW s \in Segments, NEW put \in Seq(Events), Puts(s, put),
           NEW i \in Nat, NEW j \in DOMAIN queue[s], ResetIn(s, i, j), i > 0
    PROVE  ResetIn(s, i, j)'
<1>1. /\ \A k \in DOMAIN queue[s] : queue'[s][k] = queue[s][k]
      /\ Len(queue[s]) \in Nat /\ DOMAIN queue[s] = 1..Len(queue[s])
  BY QueuedBefore
<1>2. PICK k \in i..j : queue[s][k].type = "reset"
  BY DEF ResetIn
<1>3. k \in DOMAIN queue[s]
  <2> DEFINE lq == Len(queue[s])
  <2>1. lq \in Nat /\ DOMAIN queue[s] = 1..lq
    BY <1>1
  <2> HIDE DEF lq
  <2>2. QED
    BY <1>2, <2>1
<1>4. queue'[s][k].type = "reset"
  BY <1>1, <1>2, <1>3
<1>5. QED
  BY <1>4 DEF ResetIn

LEMMA PiecesKept ==
    ASSUME TypeOK, \A r \in Segments : PiecesInv(r), \A r \in Segments : NodeInv(r),
           NEW s \in Segments, NEW put, Moves(s, put), Speaks(s, put)
    PROVE  \A r \in Segments : PiecesInv(r)'
<1>1. /\ put \in Seq(Events) /\ Puts(s, put) /\ reader' = reader /\ message' = message
      /\ view' = view
  BY DEF Moves, Elsewhere
<1>2. ASSUME NEW r \in Segments, r # s PROVE PiecesInv(r)'
  <2>1. queue'[r] = queue[r] /\ worker'[r] = worker[r] /\ PiecesInv(r)
    BY <1>1, <1>2, PutFacts DEF Moves
  <2>2. QED
    BY <1>1, <2>1 DEF PiecesInv, AtStake, ResetIn, At, Call
<1>3. PiecesInv(s)'
  <2> DEFINE q == queue[s]  n == queue'[s]  lq == Len(q)  ln == Len(n)
             call == worker'[s].call
             Voided(i, j) == \E k \in i..j : n[k].type = "reset"
             Stakes(x) == worker'[s].at = "calling" /\ x[2] = call.number
  <2>1. /\ lq \in Nat /\ DOMAIN q = 1..lq /\ ln \in Nat /\ DOMAIN n = 1..ln /\ lq <= ln
        /\ \A i \in DOMAIN q : i \in DOMAIN n /\ n[i] = q[i]
        /\ \A i \in DOMAIN n : i \notin DOMAIN q =>
              /\ reader[s] = "reading"
              /\ i > lq /\ i - lq \in DOMAIN put
              /\ n[i] = put[i - lq] /\ ln = lq + Len(put)
    BY <1>1, QueuedBefore
  <2>2. /\ Call(s).number \in Nat /\ call.number \in Nat /\ Call(s).number <= call.number
        /\ \A i \in DOMAIN n : n[i].type = "token" => n[i].piece \in Pieces
    <3>1. n \in Seq(Events)
      BY <1>1, PutFacts
    <3>2. QED
      BY <3>1, EventFields DEF Moves, TypeOK, Workers, Calls, Call, Speaks
  \* What a step may do to the call in progress.
  <2>3. /\ \A i \in DOMAIN put : put[i].type = "token" =>
              /\ put[i].piece = <<s, Call(s).number, Call(s).attempt>>
              /\ At(s, {"calling"}) /\ worker'[s].at = "calling" /\ call = Call(s)
        /\ worker'[s].at = "calling" /\ call.number = Call(s).number =>
              At(s, {"calling"}) /\ (call.attempt = Call(s).attempt \/ put = Reset)
        /\ At(s, {"calling"}) => Call(s).number > 0
    BY DEF Speaks, NodeInv, Call
  <2>4. /\ \A i \in DOMAIN q : q[i].type = "token" =>
              /\ q[i].piece[1] = s /\ q[i].piece[2] \in 1..Call(s).number
              /\ AtStake(s, q[i].piece) => q[i].piece[3] = Call(s).attempt \/ ResetIn(s, i, lq)
              /\ \A j \in DOMAIN q :
                    j > i /\ q[j].type = "token" /\ SameCall(q[i].piece, q[j].piece) =>
                       q[i].piece[3] = q[j].piece[3] \/ ResetIn(s, i, j)
        /\ \A m \in Segments : \A k \in DOMAIN view[m].streamed :
              view[m].streamed[k][1] = s =>
                /\ view[m].streamed[k][2] \in 1..Call(s).number
                /\ m = message[s] /\ reader[s] = "reading" =>
                      /\ AtStake(s, view[m].streamed[k]) =>
                            view[m].streamed[k][3] = Call(s).attempt \/ ResetIn(s, 1, lq)
                      /\ \A i \in DOMAIN q :
                            q[i].type = "token" /\ SameCall(view[m].streamed[k], q[i].piece) =>
                               view[m].streamed[k][3] = q[i].piece[3] \/ ResetIn(s, 1, i)
    BY DEF PiecesInv
  \* A piece that was sent before and is at stake after was at stake before;
  \* the attempt goes up with a reset behind it.
  <2>5. ASSUME NEW x \in Pieces, x[2] \in 1..Call(s).number, Stakes(x), NEW f \in Nat, f > 0,
               f <= lq + 1, reader[s] = "reading",
               AtStake(s, x) => x[3] = Call(s).attempt \/ ResetIn(s, f, lq)
        PROVE  x[3] = call.attempt \/ Voided(f, ln)
    <3>1. call.number = Call(s).number
      BY <2>2, <2>5
    <3>2. AtStake(s, x) /\ (call.attempt = Call(s).attempt \/ put = Reset)
      BY <2>3, <2>5, <3>1 DEF AtStake
    <3>3. CASE ResetIn(s, f, lq)
      <4>1. PICK k \in f..lq : q[k].type = "reset"
        BY <3>3 DEF ResetIn
      <4>2. k \in DOMAIN q /\ k \in f..ln
        <5> HIDE DEF lq, ln, q, n
        <5>1. QED
          BY <2>1, <2>5, <4>1
      <4>3. n[k].type = "reset"
        BY <2>1, <4>1, <4>2
      <4>4. QED
        BY <4>2, <4>3
    <3>4. CASE x[3] = Call(s).attempt /\ put = Reset
      <4>1. Len(put) = 1 /\ put[1].type = "reset"
        BY <3>4 DEF Reset
      <4>2. ln = lq + 1 /\ n[ln] = put[1]
        <5>1. Len(n) = Len(q) + Len(put)
          BY <1>1, <2>5, PutFacts
        <5>2. ln = lq + 1
          BY <4>1, <5>1
        <5>3. ln \in DOMAIN n /\ ln \notin DOMAIN q /\ ln - lq = 1
          <6> HIDE DEF lq, ln, q, n
          <6>1. QED
            BY <2>1, <5>2
        <5>4. QED
          BY <2>1, <5>2, <5>3
      <4>3. ln \in f..ln
        <5> HIDE DEF lq, ln, q, n
        <5>1. QED
          BY <2>1, <2>5, <4>2
      <4>4. n[ln].type = "reset"
        BY <4>1, <4>2
      <4>5. QED
        BY <4>3, <4>4
    <3>5. QED
      BY <2>5, <3>2, <3>3, <3>4
  \* A piece put by this step is the call's own.
  <2>6. ASSUME NEW j \in DOMAIN n, j \notin DOMAIN q, n[j].type = "token"
        PROVE  /\ n[j].piece = <<s, Call(s).number, Call(s).attempt>>
               /\ At(s, {"calling"}) /\ worker'[s].at = "calling" /\ call = Call(s)
               /\ reader[s] = "reading" /\ Call(s).number > 0
    BY <2>1, <2>3, <2>6
  <2>7. ASSUME NEW i \in DOMAIN n, n[i].type = "token"
        PROVE  /\ n[i].piece[1] = s /\ n[i].piece[2] \in 1..call.number
               /\ Stakes(n[i].piece) => n[i].piece[3] = call.attempt \/ Voided(i, ln)
    <3>1. CASE i \in DOMAIN q
      <4>1. /\ n[i].piece[1] = s /\ n[i].piece[2] \in 1..Call(s).number
            /\ AtStake(s, n[i].piece) =>
                  n[i].piece[3] = Call(s).attempt \/ ResetIn(s, i, lq)
        BY <2>1, <2>4, <2>7, <3>1
      <4>2. reader[s] = "reading"
        BY <3>1 DEF TypeOK, QueueOK
      <4>3. n[i].piece \in Pieces
        BY <2>2, <2>7
      <4>4. i \in Nat /\ i > 0 /\ i <= lq + 1
        <5> HIDE DEF lq, q
        <5>1. QED
          BY <2>1, <3>1
      <4>5. Stakes(n[i].piece) => n[i].piece[3] = call.attempt \/ Voided(i, ln)
        <5> HIDE DEF lq, ln, q, n, call
        <5>1. QED
          BY <2>5, <4>1, <4>2, <4>3, <4>4
      <4>6. QED
        BY <2>2, <4>1, <4>5
    <3>2. CASE i \notin DOMAIN q
      BY <2>2, <2>6, <2>7, <3>2
    <3>3. QED
      BY <3>1, <3>2
  <2>8. ASSUME NEW i \in DOMAIN n, n[i].type = "token",
               NEW j \in DOMAIN n, j > i, n[j].type = "token", SameCall(n[i].piece, n[j].piece)
        PROVE  n[i].piece[3] = n[j].piece[3] \/ Voided(i, j)
    <3>1. CASE j \in DOMAIN q
      <4>1. i \in DOMAIN q /\ i \in Nat /\ i > 0
        <5> HIDE DEF lq, ln, q, n
        <5>1. QED
          BY <2>1, <2>8, <3>1
      <4>2. n[i].piece[3] = n[j].piece[3] \/ ResetIn(s, i, j)
        BY <2>1, <2>4, <2>8, <3>1, <4>1
      <4>3. QED
        BY <1>1, <3>1, <4>1, <4>2, ResetsStay DEF ResetIn
    <3>2. CASE j \notin DOMAIN q /\ i \in DOMAIN q
      <4>1. /\ n[j].piece = <<s, Call(s).number, Call(s).attempt>>
            /\ At(s, {"calling"})
        BY <2>6, <2>8, <3>2
      <4>2. AtStake(s, n[i].piece)
        BY <2>8, <4>1 DEF SameCall, AtStake
      <4>3. n[i].piece[3] = Call(s).attempt \/ ResetIn(s, i, lq)
        BY <2>1, <2>4, <2>8, <3>2, <4>2
      <4>4. CASE n[i].piece[3] = Call(s).attempt
        BY <4>1, <4>4
      <4>5. CASE ResetIn(s, i, lq)
        <5>1. PICK k \in i..lq : q[k].type = "reset"
          BY <4>5 DEF ResetIn
        <5>2. k \in DOMAIN q /\ k \in i..j
          <6> HIDE DEF lq, ln, q, n
          <6>1. QED
            BY <2>1, <2>8, <3>2
        <5>3. n[k].type = "reset"
          BY <2>1, <5>1, <5>2
        <5>4. QED
          BY <5>2, <5>3
      <4>6. QED
        BY <4>3, <4>4, <4>5
    <3>3. CASE j \notin DOMAIN q /\ i \notin DOMAIN q
      BY <2>6, <2>8, <3>3
    <3>4. QED
      BY <3>1, <3>2, <3>3
  <2>9. ASSUME NEW m \in Segments, NEW k \in DOMAIN view[m].streamed,
               view[m].streamed[k][1] = s
        PROVE  /\ view[m].streamed[k][2] \in 1..call.number
               /\ m = message[s] /\ reader[s] = "reading" =>
                     /\ Stakes(view[m].streamed[k]) =>
                           view[m].streamed[k][3] = call.attempt \/ Voided(1, ln)
                     /\ \A i \in DOMAIN n :
                           n[i].type = "token" /\ SameCall(view[m].streamed[k], n[i].piece) =>
                              view[m].streamed[k][3] = n[i].piece[3] \/ Voided(1, i)
    <3> DEFINE x == view[m].streamed[k]
    <3>1. /\ x[2] \in 1..Call(s).number
          /\ m = message[s] /\ reader[s] = "reading" =>
                /\ AtStake(s, x) => x[3] = Call(s).attempt \/ ResetIn(s, 1, lq)
                /\ \A i \in DOMAIN q :
                      q[i].type = "token" /\ SameCall(x, q[i].piece) =>
                         x[3] = q[i].piece[3] \/ ResetIn(s, 1, i)
      BY <2>4, <2>9
    <3>2. x \in Pieces
      <4>1. view[m].streamed \in Seq(Pieces)
        BY DEF TypeOK, Views
      <4>2. QED
        BY <2>9, <4>1
    <3>3. ASSUME m = message[s], reader[s] = "reading", Stakes(x)
          PROVE  x[3] = call.attempt \/ Voided(1, ln)
      <4> HIDE DEF lq, ln, q, n, call, x
      <4>1. 1 \in Nat /\ 1 > 0 /\ 1 <= lq + 1
        BY <2>1
      <4>2. QED
        BY <2>5, <3>1, <3>2, <3>3, <4>1
    <3>4. ASSUME m = message[s], reader[s] = "reading",
                 NEW i \in DOMAIN n, n[i].type = "token", SameCall(x, n[i].piece)
          PROVE  x[3] = n[i].piece[3] \/ Voided(1, i)
      <4>1. CASE i \in DOMAIN q
        <5>1. x[3] = n[i].piece[3] \/ ResetIn(s, 1, i)
          BY <2>1, <3>1, <3>4, <4>1
        <5>2. ASSUME ResetIn(s, 1, i) PROVE ResetIn(s, 1, i)'
          <6>1. 1 \in Nat /\ 1 > 0 /\ i \in DOMAIN queue[s]
            BY <4>1
          <6> HIDE DEF q, n, lq, ln, call, x
          <6>2. QED
            BY <1>1, <5>2, <6>1, ResetsStay
        <5>3. QED
          BY <5>1, <5>2 DEF ResetIn
      <4>2. CASE i \notin DOMAIN q
        <5>1. n[i].piece = <<s, Call(s).number, Call(s).attempt>> /\ At(s, {"calling"})
          BY <2>6, <3>4, <4>2
        <5>2. AtStake(s, x)
          BY <3>4, <5>1 DEF SameCall, AtStake
        <5>3. x[3] = Call(s).attempt \/ ResetIn(s, 1, lq)
          BY <3>1, <3>4, <5>2
        <5>4. CASE ResetIn(s, 1, lq)
          <6>1. PICK l \in 1..lq : q[l].type = "reset"
            BY <5>4 DEF ResetIn
          <6>2. l \in DOMAIN q /\ l \in 1..i
            <7> HIDE DEF lq, ln, q, n
            <7>1. QED
              BY <2>1, <3>4, <4>2
          <6>3. n[l].type = "reset"
            BY <2>1, <6>1, <6>2
          <6>4. QED
            BY <6>2, <6>3
        <5>5. CASE x[3] = Call(s).attempt
          BY <5>1, <5>5
        <5>6. QED
          BY <5>3, <5>4, <5>5
      <4>3. QED
        BY <4>1, <4>2
    <3>5. QED
      BY <2>2, <3>1, <3>3, <3>4
  <2>10. QED
    BY <1>1, <2>7, <2>8, <2>9 DEF PiecesInv, AtStake, At, Call, ResetIn
<1>4. QED
  BY <1>2, <1>3

-----------------------------------------------------------------------------
(***************************************************************************)
(* What the helpers make of a thread.                                      *)
(***************************************************************************)
LEMMA WorkerTypes ==
    ASSUME TypeOK, NEW s \in Segments
    PROVE  /\ worker[s] \in Workers /\ State(s) \in States /\ stream[s] \in Streams
           /\ State(s).steps \in Steps /\ Log(s) \in Seq(Rows) /\ Call(s).number \in Nat
           /\ Call(s) \in Calls /\ Call(s).attempt \in 0..MaxAttempts
           /\ stream[s].emitted \in Nat /\ stream[s].last \in Steps
           /\ stream[s].search \in Steps /\ stream[s].calls \in Seq(Steps)
BY DEF TypeOK, Workers, States, Streams, Calls, State, Call, Log

\* Nothing of the other threads moves.
Alone(s) == /\ worker' \in [Segments -> Workers]
            /\ \A r \in Segments \ {s} : worker'[r] = worker[r]

LEMMA Becomes ==
    ASSUME TypeOK, NEW s \in Segments, NEW w \in Workers, worker' = [worker EXCEPT ![s] = w]
    PROVE  Alone(s) /\ worker'[s] = w
BY DEF TypeOK, Alone

LEMMA GoesFacts ==
    ASSUME TypeOK, NEW s \in Segments, NEW to \in Places, Goes(s, to)
    PROVE  /\ Alone(s) /\ worker'[s].at = to
           /\ worker'[s].state = State(s) /\ worker'[s].call = Call(s)
<1> DEFINE w == [worker[s] EXCEPT !.at = to]
<1>1. worker \in [Segments -> Workers] /\ worker[s] \in Workers
  BY WorkerTypes DEF TypeOK
<1>2. worker' = [worker EXCEPT ![s] = w]
  BY <1>1 DEF Goes
<1>3. w \in Workers /\ w.at = to /\ w.state = State(s) /\ w.call = Call(s)
  BY <1>1 DEF Workers, Call, State
<1> HIDE DEF w
<1>4. QED
  BY <1>2, <1>3, Becomes

LEMMA LeadsFacts ==
    ASSUME TypeOK, NEW s \in Segments, NEW route \in Nodes \cup {"over", "paused"},
           Leads(s, route)
    PROVE  /\ Alone(s) /\ worker'[s].at = "leaving" /\ worker'[s].call = Call(s)
           /\ worker'[s].state.events = Log(s) /\ worker'[s].state.steps = State(s).steps
<1> DEFINE state == [State(s) EXCEPT !.route = route]
           w == [worker[s] EXCEPT !.at = "leaving", !.state = state]
<1>1. worker \in [Segments -> Workers] /\ worker[s] \in Workers /\ State(s) \in States
  BY WorkerTypes DEF TypeOK
<1>2. worker' = [worker EXCEPT ![s] = w]
  BY <1>1 DEF Leads, State
<1>3. state \in States /\ state.events = Log(s) /\ state.steps = State(s).steps
  BY <1>1 DEF States, Log
<1>4. w \in Workers /\ w.at = "leaving" /\ w.state = state /\ w.call = Call(s)
  BY <1>1, <1>3 DEF Workers, Places, Running, Call
<1> HIDE DEF w
<1>5. QED
  BY <1>2, <1>3, <1>4, Becomes

LEMMA CallModelFacts ==
    ASSUME TypeOK, NEW s \in Segments, NEW state \in States,
           NEW purpose \in {"declare", "decide", "forced", "redirect", "compose"},
           CallModel(s, purpose, state)
    PROVE  /\ Alone(s) /\ worker'[s].at = "calling" /\ worker'[s].state = state
           /\ worker'[s].call = [purpose |-> purpose, attempt |-> 1,
                                 number |-> Call(s).number + 1]
<1> DEFINE call == [purpose |-> purpose, attempt |-> 1, number |-> Call(s).number + 1]
           w == [worker[s] EXCEPT !.at = "calling", !.state = state, !.spoke = FALSE,
                                  !.call = call]
<1>1. worker \in [Segments -> Workers] /\ worker[s] \in Workers
  BY WorkerTypes DEF TypeOK
<1>2. worker' = [worker EXCEPT ![s] = w]
  BY <1>1 DEF CallModel, Call
<1>3. call \in Calls
  BY WorkerTypes, StreamAssumption DEF Calls
<1> HIDE DEF call
<1>4. w \in Workers /\ w.at = "calling" /\ w.state = state /\ w.call = call
  BY <1>1, <1>3 DEF Workers, Places, Running
<1> HIDE DEF w
<1>5. QED
  BY <1>2, <1>4, Becomes DEF call

LEMMA AnsweredFacts ==
    ASSUME TypeOK, NEW s \in Segments, NEW state \in States,
           NEW at \in {"introducing", "deciding", "leaving"}, Answered(s, at, state)
    PROVE  /\ Alone(s) /\ worker'[s].at = at /\ worker'[s].state = state
           /\ worker'[s].call.number = Call(s).number
<1> DEFINE call == [NoCall EXCEPT !.number = Call(s).number]
           w == [worker[s] EXCEPT !.at = at, !.state = state, !.spoke = FALSE, !.call = call]
<1>1. worker \in [Segments -> Workers] /\ worker[s] \in Workers
  BY WorkerTypes DEF TypeOK
<1>2. worker' = [worker EXCEPT ![s] = w]
  BY <1>1 DEF Answered
<1>3. call \in Calls /\ call.number = Call(s).number
  BY WorkerTypes, StreamAssumption DEF Calls, NoCall
<1> HIDE DEF call
<1>4. w \in Workers /\ w.at = at /\ w.state = state /\ w.call = call
  BY <1>1, <1>3 DEF Workers, Places, Running
<1> HIDE DEF w
<1>5. QED
  BY <1>2, <1>3, <1>4, Becomes

LEMMA AgainFacts ==
    ASSUME TypeOK, NEW s \in Segments, Again(s), Call(s).attempt < MaxAttempts
    PROVE  /\ Alone(s) /\ worker'[s].at = worker[s].at /\ worker'[s].state = State(s)
           /\ worker'[s].call.number = Call(s).number
           /\ worker'[s].call.purpose = Call(s).purpose
           /\ worker'[s].call.attempt = Call(s).attempt + 1
<1> DEFINE call == [Call(s) EXCEPT !.attempt = Call(s).attempt + 1]
           w == [worker[s] EXCEPT !.call = call, !.spoke = FALSE]
<1>1. worker \in [Segments -> Workers] /\ worker[s] \in Workers
  BY WorkerTypes DEF TypeOK
<1>2. worker' = [worker EXCEPT ![s] = w]
  BY <1>1 DEF Again, Call
<1>3. /\ call \in Calls /\ call.number = Call(s).number /\ call.purpose = Call(s).purpose
      /\ call.attempt = Call(s).attempt + 1
  <2>1. Call(s) \in Calls /\ Call(s).attempt \in 0..MaxAttempts
    BY WorkerTypes
  <2>2. Call(s).attempt + 1 \in 0..MaxAttempts
    BY <2>1, StreamAssumption
  <2>3. QED
    BY <2>1, <2>2 DEF Calls
<1> HIDE DEF call
<1>4. w \in Workers /\ w.at = worker[s].at /\ w.state = State(s) /\ w.call = call
  BY <1>1, <1>3 DEF Workers, State
<1> HIDE DEF w
<1>5. QED
  BY <1>2, <1>3, <1>4, Becomes

\* A thread goes on with another state, or with another search.
LEMMA GoesWithFacts ==
    ASSUME TypeOK, NEW s \in Segments, NEW at \in Places, NEW state \in States,
           worker' = [worker EXCEPT ![s].at = at, ![s].state = state]
    PROVE  /\ Alone(s) /\ worker'[s].at = at /\ worker'[s].state = state
           /\ worker'[s].call = Call(s)
<1> DEFINE w == [worker[s] EXCEPT !.at = at, !.state = state]
<1>1. worker \in [Segments -> Workers] /\ worker[s] \in Workers
  BY WorkerTypes DEF TypeOK
<1>2. worker' = [worker EXCEPT ![s] = w]
  BY <1>1
<1>3. w \in Workers /\ w.at = at /\ w.state = state /\ w.call = Call(s)
  BY <1>1 DEF Workers, Call
<1> HIDE DEF w
<1>4. QED
  BY <1>2, <1>3, Becomes

LEMMA WithFacts ==
    ASSUME NEW state \in States, NEW row \in Rows
    PROVE  /\ With(state, row) \in States
           /\ With(state, row).events = Append(state.events, row)
           /\ With(state, row).steps = state.steps /\ With(state, row).route = state.route
           /\ Grows(state.events, With(state, row).events)
           /\ row = With(state, row).events[Len(state.events) + 1]
           /\ Len(With(state, row).events) = Len(state.events) + 1
<1>1. /\ With(state, row) \in States
      /\ With(state, row).events = Append(state.events, row)
      /\ With(state, row).steps = state.steps /\ With(state, row).route = state.route
      /\ state.events \in Seq(Rows)
  BY DEF With, States
<1> DEFINE old == state.events  new == With(state, row).events
<1>2. old \in Seq(Rows) /\ new = Append(old, row)
  BY <1>1
<1> HIDE DEF old, new
<1>3. Len(new) = Len(old) + 1 /\ new[Len(old) + 1] = row /\ \A i \in DOMAIN old : new[i] = old[i]
  BY <1>2
<1>4. Len(old) \in Nat
  BY <1>2
<1>5. Grows(old, new)
  BY <1>3, <1>4 DEF Grows
<1>6. QED
  BY <1>1, <1>3, <1>5 DEF old, new

-----------------------------------------------------------------------------
(***************************************************************************)
(* What the stream sends.                                                  *)
(***************************************************************************)
LEMMA NewRowsFacts ==
    ASSUME TypeOK, NEW s \in Segments, NEW events \in Seq(Rows),
           stream[s].emitted <= Len(events)
    PROVE  /\ NewRows(s, events) \in Seq(Events)
           /\ Len(NewRows(s, events)) = Len(events) - stream[s].emitted
           /\ Len(NewRows(s, events)) \in Nat
           /\ \A i \in DOMAIN NewRows(s, events) :
                 /\ NewRows(s, events)[i].type = "row"
                 /\ NewRows(s, events)[i].seq = stream[s].emitted + i - 1
                 /\ NewRows(s, events)[i].row = events[stream[s].emitted + i]
<1> DEFINE sent == stream[s].emitted  len == Len(events)
<1>1. sent \in Nat /\ len \in Nat /\ DOMAIN events = 1..len /\ sent <= len
  BY WorkerTypes
<1>2. NewRows(s, events) =
        [i \in 1..(len - sent) |->
            [type |-> "row", seq |-> sent + i - 1, row |-> events[sent + i]]]
  BY DEF NewRows
<1>3. ASSUME NEW i \in 1..(len - sent)
      PROVE  [type |-> "row", seq |-> sent + i - 1, row |-> events[sent + i]] \in Events
  <2>1. sent + i - 1 \in Nat /\ sent + i \in DOMAIN events
    <3> HIDE DEF sent, len
    <3>1. QED
      BY <1>1
  <2>2. events[sent + i] \in Rows
    BY <2>1
  <2>3. QED
    BY <2>1, <2>2, EventForms
<1> HIDE DEF sent, len
<1>4. len - sent \in Nat
  BY <1>1
<1>5. DOMAIN NewRows(s, events) = 1..(len - sent)
  BY <1>2
<1>6. NewRows(s, events) \in [1..(len - sent) -> Events]
  BY <1>2, <1>3
<1>7. NewRows(s, events) \in Seq(Events) /\ Len(NewRows(s, events)) = len - sent
  BY <1>4, <1>6
<1>8. QED
  BY <1>2, <1>4, <1>5, <1>7 DEF sent, len

\* A step that says nothing.
LEMMA Silence ==
    ASSUME TypeOK, NEW s \in Segments, UNCHANGED queue
    PROVE  Puts(s, <<>>) /\ <<>> \in Seq(Events)
<1>1. queue \in [Segments -> Seq(Events)]
  BY DEF TypeOK
<1>2. queue[s] \o <<>> = queue[s]
  BY <1>1, ConcatEmptySeq
<1>3. [queue EXCEPT ![s] = queue[s] \o <<>>] = queue
  BY <1>1, <1>2
<1>4. QED
  BY <1>3 DEF Puts

Drains(s, state) ==
    /\ stream' \in [Segments -> Streams]
    /\ \A r \in Segments \ {s} : stream'[r] = stream[r]
    /\ stream'[s].emitted = Len(state.events) /\ stream'[s].last = state.steps
    /\ stream'[s].calls = <<>> /\ stream'[s].search = 0

\* The rows of a put are those of the log not sent before.
SendsRows(s, put, log) ==
    \A i \in DOMAIN put : IsRow(put[i]) =>
        /\ stream[s].emitted <= put[i].seq /\ put[i].seq < Len(log)
        /\ put[i].row = log[put[i].seq + 1]
        /\ \A j \in DOMAIN put : j > i /\ IsRow(put[j]) => put[i].seq < put[j].seq

LEMMA RowsThenEvent ==
    ASSUME TypeOK, NEW s \in Segments, NEW log \in Seq(Rows), stream[s].emitted <= Len(log),
           NEW event \in Events, event.type \notin {"row", "token", "end"}
    PROVE  LET put == Append(NewRows(s, log), event) IN
           /\ put \in Seq(Events)
           /\ SendsRows(s, put, log)
           /\ \A i \in DOMAIN put : put[i].type \notin {"token", "end"}
           /\ ShownWhereMade(event) => \A i \in DOMAIN put : ShownWhereMade(put[i])
<1> DEFINE rows == NewRows(s, log)  put == Append(rows, event)  l == Len(rows)  len == Len(log)
<1>1. /\ rows \in Seq(Events) /\ l \in Nat /\ DOMAIN rows = 1..l /\ DOMAIN put = 1..(l + 1)
      /\ \A i \in 1..l : put[i] = rows[i]
      /\ put[l + 1] = event /\ put \in Seq(Events)
      /\ l = len - stream[s].emitted /\ stream[s].emitted \in Nat /\ len \in Nat
      /\ \A i \in DOMAIN rows :
            /\ rows[i].type = "row"
            /\ rows[i].seq = stream[s].emitted + i - 1
            /\ rows[i].row = log[stream[s].emitted + i]
  <2>1. /\ rows \in Seq(Events) /\ l \in Nat /\ l = len - stream[s].emitted
        /\ \A i \in DOMAIN rows :
            /\ rows[i].type = "row"
            /\ rows[i].seq = stream[s].emitted + i - 1
            /\ rows[i].row = log[stream[s].emitted + i]
    BY NewRowsFacts
  <2>2. stream[s].emitted \in Nat /\ len \in Nat
    BY WorkerTypes
  <2>3. put \in Seq(Events) /\ Len(put) = l + 1 /\ put[l + 1] = event
        /\ \A i \in 1..l : put[i] = rows[i]
    BY <2>1, AppendProperties
  <2>4. DOMAIN rows = 1..l
    BY <2>1
  <2> DEFINE m == Len(put)
  <2>5. DOMAIN put = 1..m /\ m = l + 1
    BY <2>3
  <2> HIDE DEF rows, put, l, len, m
  <2>6. QED
    BY <2>1, <2>2, <2>3, <2>4, <2>5
<1> HIDE DEF rows, put, l, len
<1>2. ASSUME NEW i \in DOMAIN put, IsRow(put[i])
      PROVE  /\ i \in 1..l /\ put[i].seq = stream[s].emitted + i - 1
             /\ put[i].row = log[stream[s].emitted + i]
  <2>1. i \in 1..l \/ i = l + 1
    BY <1>1, <1>2
  <2>2. i # l + 1
    BY <1>1, <1>2 DEF IsRow
  <2>3. put[i] = rows[i] /\ i \in DOMAIN rows
    BY <1>1, <2>1, <2>2
  <2>4. QED
    BY <1>1, <2>1, <2>2, <2>3
<1>3. ASSUME NEW i \in DOMAIN put, IsRow(put[i])
      PROVE  /\ stream[s].emitted <= put[i].seq /\ put[i].seq < len
             /\ put[i].row = log[put[i].seq + 1]
  <2>1. /\ i \in 1..l /\ put[i].seq = stream[s].emitted + i - 1
        /\ put[i].row = log[stream[s].emitted + i]
    BY <1>2, <1>3
  <2> DEFINE a == stream[s].emitted  n == put[i].seq
  <2>2. /\ a \in Nat /\ len \in Nat /\ l = len - a /\ i \in 1..l /\ n = a + i - 1
        /\ put[i].row = log[a + i]
    BY <1>1, <2>1
  <2> HIDE DEF a, n
  <2>3. a <= n /\ n < len /\ n + 1 = a + i
    BY <2>2
  <2>4. QED
    BY <2>2, <2>3 DEF a, n
<1>4. ASSUME NEW i \in DOMAIN put, IsRow(put[i]), NEW j \in DOMAIN put, j > i, IsRow(put[j])
      PROVE  put[i].seq < put[j].seq
  <2>1. /\ i \in 1..l /\ put[i].seq = stream[s].emitted + i - 1
        /\ j \in 1..l /\ put[j].seq = stream[s].emitted + j - 1
    BY <1>2, <1>4
  <2>2. QED
    BY <1>1, <1>4, <2>1
<1>5. SendsRows(s, put, log)
  BY <1>3, <1>4 DEF SendsRows, len
<1>6. ASSUME NEW i \in DOMAIN put PROVE put[i].type = "row" \/ put[i] = event
  <2>1. i \in 1..l \/ i = l + 1
    <3>1. l \in Nat /\ DOMAIN put = 1..(l + 1)
      BY <1>1
    <3> HIDE DEF l, put
    <3>2. QED
      BY <1>6, <3>1
  <2>2. CASE i \in 1..l
    <3>1. put[i] = rows[i] /\ rows[i].type = "row"
      BY <1>1, <2>2
    <3>2. QED
      BY <3>1
  <2>3. QED
    BY <1>1, <2>1, <2>2
<1>7. \A i \in DOMAIN put : put[i].type \notin {"token", "end"}
  BY <1>6
<1>8. ASSUME ShownWhereMade(event), NEW i \in DOMAIN put PROVE ShownWhereMade(put[i])
  <2>1. CASE put[i] = event
    BY <1>8, <2>1
  <2>2. CASE put[i].type = "row"
    BY <2>2 DEF ShownWhereMade
  <2>3. QED
    BY <1>6, <2>1, <2>2
<1>9. QED
  BY <1>1, <1>5, <1>7, <1>8 DEF put, rows

LEMMA ShowStepFacts ==
    ASSUME TypeOK, NEW s \in Segments, NEW node \in Nodes \cup {"none"}, NEW state \in States,
           stream[s].emitted <= Len(state.events), ShowStep(s, node, state),
           ShownWhereMade(StepEvent(s, node, state))
    PROVE  /\ Drains(s, state)
           /\ \E put \in Seq(Events) :
                 /\ Puts(s, put) /\ SendsRows(s, put, state.events)
                 /\ \A i \in DOMAIN put :
                       put[i].type \notin {"token", "end"} /\ ShownWhereMade(put[i])
<1> DEFINE event == StepEvent(s, node, state)
           put == Append(NewRows(s, state.events), event)
<1>1. state.events \in Seq(Rows) /\ state.steps \in Steps
  BY DEF States
<1>2. event \in Events /\ event.type = "step"
  <2>1. stream[s].calls \in Seq(Steps) /\ stream[s].search \in Steps
    BY WorkerTypes
  <2>2. event = [type |-> "step", node |-> node, ordinal |-> state.steps,
                 calls |-> stream[s].calls, search |-> stream[s].search]
    BY DEF StepEvent
  <2>3. QED
    BY <1>1, <2>1, <2>2, EventForms
<1>3. Puts(s, put)
  BY DEF ShowStep, Put, Puts
<1>4. /\ put \in Seq(Events) /\ SendsRows(s, put, state.events)
      /\ \A i \in DOMAIN put : put[i].type \notin {"token", "end"} /\ ShownWhereMade(put[i])
  <2> HIDE DEF event
  <2>1. event.type \notin {"row", "token", "end"} /\ ShownWhereMade(event)
    BY <1>2 DEF event
  <2>2. QED
    BY <1>1, <1>2, <2>1, RowsThenEvent
<1>5. Drains(s, state)
  <2> DEFINE after == Drained(s, state, NewRows(s, state.events))
  <2>1. stream' = [stream EXCEPT ![s] = after] /\ stream \in [Segments -> Streams]
    BY DEF ShowStep, TypeOK
  <2>2. /\ stream[s].emitted + Len(NewRows(s, state.events)) = Len(state.events)
        /\ Len(state.events) \in Nat
    <3>1. Len(NewRows(s, state.events)) = Len(state.events) - stream[s].emitted
      BY <1>1, NewRowsFacts
    <3>2. stream[s].emitted \in Nat /\ Len(state.events) \in Nat
      BY <1>1, WorkerTypes
    <3> DEFINE a == stream[s].emitted  b == Len(state.events)  c == Len(NewRows(s, state.events))
    <3> HIDE DEF a, b, c
    <3>3. c = b - a /\ a \in Nat /\ b \in Nat
      BY <3>1, <3>2 DEF a, b, c
    <3>4. a + c = b
      BY <3>3
    <3>5. QED
      BY <3>2, <3>4 DEF a, b, c
  <2>3. after = [emitted |-> Len(state.events), last |-> state.steps, calls |-> <<>>,
                 search |-> 0]
    BY <2>2 DEF Drained
  <2>4. after \in Streams
    BY <1>1, <2>2, <2>3, StreamAssumption DEF Streams, Steps
  <2> HIDE DEF after
  <2>5. stream' \in [Segments -> Streams] /\ stream'[s] = after
        /\ \A r \in Segments \ {s} : stream'[r] = stream[r]
    BY <2>1, <2>4
  <2>6. QED
    BY <2>3, <2>5 DEF Drains
<1>6. QED
  BY <1>3, <1>4, <1>5

-----------------------------------------------------------------------------
(***************************************************************************)
(* What a step of a thread keeps.                                          *)
(***************************************************************************)
Made(put) == \A i \in DOMAIN put : ShownWhereMade(put[i])

LEMMA MadeKept ==
    ASSUME TypeOK, NEW s \in Segments, NEW put \in Seq(Events), Puts(s, put), Made(put),
           \A r \in Segments : Made(queue[r])
    PROVE  \A r \in Segments : Made(queue[r])'
<1>1. ASSUME NEW r \in Segments, r # s PROVE Made(queue[r])'
  <2>1. queue'[r] = queue[r]
    BY <1>1, PutFacts
  <2>2. QED
    BY <2>1 DEF Made
<1>2. Made(queue[s])'
  <2>1. ASSUME NEW i \in DOMAIN queue'[s] PROVE ShownWhereMade(queue'[s][i])
    <3>1. CASE i \in DOMAIN queue[s]
      <4>1. queue'[s][i] = queue[s][i] /\ ShownWhereMade(queue[s][i])
        BY <3>1, QueuedBefore DEF Made
      <4>2. QED
        BY <4>1
    <3>2. CASE i \notin DOMAIN queue[s]
      <4>1. /\ i - Len(queue[s]) \in DOMAIN put
            /\ queue'[s][i] = put[i - Len(queue[s])]
        BY <2>1, <3>2, QueuedBefore
      <4>2. ShownWhereMade(put[i - Len(queue[s])])
        BY <4>1 DEF Made
      <4>3. QED
        BY <4>1, <4>2
    <3>3. QED
      BY <3>1, <3>2
  <2>2. QED
    BY <2>1 DEF Made, ShownWhereMade
<1>3. QED
  BY <1>1, <1>2

LEMMA ThreadStepWith ==
    ASSUME StreamInv, NEW s \in Segments, NEW put, Moves(s, put), Ends(s, put), Emits(s, put),
           Speaks(s, put), Made(put), NodeInv(s)',
           pause' \in {NoPause} \cup Waiting,
           filed' \in [outcome : {"none", "paused", "terminal"}, events : Seq(Rows)],
           HandoverInv', LogInv'
    PROVE  StreamInv'
<1>1. /\ put \in Seq(Events) /\ Puts(s, put) /\ reader' = reader /\ message' = message
      /\ view' = view
  BY DEF Moves, Elsewhere
<1>2. TypeOK'
  BY TypeKept DEF StreamInv
<1>3. \A r \in Segments : NodeInv(r)'
  BY NodesKept DEF StreamInv
<1>4. \A r \in Segments : RowsInv(r)' /\ ScreenInv(r)'
  BY RowsKept DEF StreamInv
<1>5. \A r \in Segments : PiecesInv(r)'
  BY PiecesKept DEF StreamInv
<1>6. \A r \in Segments : Made(queue[r])'
  BY <1>1, MadeKept DEF StreamInv, Made
<1>7. FeedInv' /\ (\A r \in Segments : OneCall(r)') /\ PreviewHoldsNoDeadAttempt'
      /\ CallsShownWhereMade'
  BY <1>1 DEF StreamInv, FeedInv, OneCall, PreviewHoldsNoDeadAttempt, CallsShownWhereMade
<1>8. QED
  BY <1>2, <1>3, <1>4, <1>5, <1>6, <1>7 DEF StreamInv, Made

\* A thread that has the run adds to it what nobody else has; one that has
\* not leaves its own state alone.
LEMMA HandoverKept ==
    ASSUME StreamInv, NEW s \in Segments, NEW put, Moves(s, put), Ends(s, put), Emits(s, put),
           Filing,
           \/ At(s, Running)
           \/ worker'[s].at \notin Running /\ worker'[s].state = State(s)
    PROVE  HandoverInv' /\ LogInv'
<1> USE DEF Filing
<1>1. /\ pause' = pause /\ filed' = filed
      /\ \A r \in Segments \ {s} : worker'[r] = worker[r] /\ stream'[r] = stream[r]
      /\ worker'[s].at \notin {"idle", "setup"} /\ ~At(s, {"idle"})
      /\ Grows(Log(s), Log(s)')
  BY DEF Moves, Ends, Emits, At, Log, State
<1>2. HandoverInv /\ LogInv /\ TypeOK
  BY DEF StreamInv
<1>3. \A r \in Segments : At(r, Running)' => At(r, Running)
  BY <1>1 DEF At
<1>4. 1 \in Segments
  BY StreamAssumption
<1>5. HandoverInv'
  <2>1. Unsent(1)' => Unsent(1) /\ s # 1
    BY <1>1, <1>4 DEF Unsent, At
  <2>2. ~Unsent(1)'
    BY <1>1, <1>2, <1>4, <2>1 DEF HandoverInv, At
  <2>3. \A r \in Segments : /\ Unsent(r)' => Log(r)' = <<>> /\ Call(r)'.number = 0
                            /\ At(r, {"idle"})' => stream'[r].emitted = 0
    BY <1>1, <1>2 DEF HandoverInv, Unsent, At, Log, State, Call
  <2>4. QED
    BY <1>1, <1>2, <1>3, <2>2, <2>3 DEF HandoverInv, Paused
<1>6. \A r \in Segments : /\ Len(Log(r)) \in Nat /\ DOMAIN Log(r) = 1..Len(Log(r))
                          /\ Len(Log(r)') \in Nat /\ DOMAIN Log(r)' = 1..Len(Log(r)')
                          /\ stream[r].emitted \in Nat
  <2>1. \A r \in Segments : Log(r) \in Seq(Rows) /\ stream[r].emitted \in Nat
    BY <1>2, WorkerTypes
  <2>2. \A r \in Segments : Log(r)' \in Seq(Rows)
    BY DEF Moves, Workers, States, Log, State
  <2>3. QED
    BY <2>1, <2>2
<1>7. filed.events \in Seq(Rows) /\ Len(filed.events) \in Nat
      /\ DOMAIN filed.events = 1..Len(filed.events)
  <2>1. filed.events \in Seq(Rows)
    BY <1>2 DEF TypeOK
  <2>2. QED
    BY <2>1
<1>8. LogInv'
  <2>1. \A r \in Segments \ {s} : Log(r)' = Log(r)
    BY <1>1 DEF Log, State
  \* What is new in the log of s is beyond every other log.
  <2>2. \/ Log(s)' = Log(s)
        \/ At(s, Running) /\ Covers(Log(s))
    BY <1>2 DEF LogInv, Log, State
  <2>3. ASSUME NEW r \in Segments, r # s PROVE Agree(Log(s)', Log(r)) /\ Agree(Log(r), Log(s)')
    <3>1. Agree(Log(s), Log(r)) /\ Agree(Log(r), Log(s))
      BY <1>2 DEF LogInv
    <3>2. CASE Log(s)' = Log(s)
      BY <3>1, <3>2
    <3>3. CASE Covers(Log(s))
      <4>1. \A i \in DOMAIN Log(r) : i \in DOMAIN Log(s) /\ Log(s)'[i] = Log(s)[i]
        BY <1>1, <1>6, <3>3 DEF Covers, Grows
      <4>2. QED
        BY <3>1, <4>1 DEF Agree
    <3>4. QED
      BY <2>2, <3>2, <3>3
  <2>4. Agree(Log(s)', filed.events)
    <3>1. Agree(Log(s), filed.events)
      BY <1>2 DEF LogInv
    <3>2. CASE Log(s)' = Log(s)
      BY <3>1, <3>2
    <3>3. CASE Covers(Log(s))
      <4>1. \A i \in DOMAIN filed.events : i \in DOMAIN Log(s) /\ Log(s)'[i] = Log(s)[i]
        BY <1>1, <1>6, <1>7, <3>3 DEF Covers, Grows
      <4>2. QED
        BY <3>1, <4>1 DEF Agree
    <3>4. QED
      BY <2>2, <3>2, <3>3
  <2>5. \A r, q \in Segments : Agree(Log(r)', Log(q)')
    <3>1. \A r, q \in Segments : Agree(Log(r), Log(q))
      BY <1>2 DEF LogInv
    <3>2. Agree(Log(s)', Log(s)')
      BY DEF Agree
    <3>3. QED
      BY <2>1, <2>3, <3>1, <3>2
  <2>6. \A r \in Segments : Agree(Log(r)', filed.events)
    BY <1>2, <2>1, <2>4 DEF LogInv
  <2>7. ASSUME NEW r \in Segments, At(r, Running)' PROVE Covers(Log(r))'
    <3>1. At(r, Running)
      BY <1>3, <2>7
    <3>2. Covers(Log(r))
      BY <1>2, <3>1 DEF LogInv
    <3>3. CASE r = s
      <4>1. Len(Log(s)) <= Len(Log(s)')
        BY <1>1 DEF Grows
      <4>2. ASSUME NEW q \in Segments
            PROVE  /\ Len(Log(q)') <= Len(Log(s)')
                   /\ At(q, {"setup"})' => stream'[q].emitted <= Len(Log(s)')
        <5>1. CASE q = s
          BY <1>1, <1>6, <5>1 DEF At
        <5>2. CASE q # s
          <6>1. /\ Len(Log(q)) <= Len(Log(s))
                /\ At(q, {"setup"}) => stream[q].emitted <= Len(Log(s))
            BY <3>2, <3>3 DEF Covers
          <6>2. Log(q)' = Log(q) /\ stream'[q] = stream[q] /\ At(q, {"setup"})' = At(q, {"setup"})
            BY <1>1, <2>1, <5>2 DEF At
          <6>3. QED
            BY <1>6, <4>1, <6>1, <6>2
        <5>3. QED
          BY <5>1, <5>2
      <4>3. Len(filed.events) <= Len(Log(s)')
        BY <1>6, <1>7, <3>2, <3>3, <4>1 DEF Covers
      <4>4. QED
        BY <1>1, <3>3, <4>2, <4>3 DEF Covers
    <3>4. CASE r # s
      <4>1. ~At(s, Running)
        BY <1>2, <3>1, <3>4 DEF HandoverInv
      <4>2. Log(s)' = Log(s)
        BY <2>2, <4>1
      <4>3. \A q \in Segments : Log(q)' = Log(q)
        BY <2>1, <4>2
      <4>4. \A q \in Segments : At(q, {"setup"})' => At(q, {"setup"}) /\ stream'[q] = stream[q]
        BY <1>1 DEF At
      <4>5. QED
        BY <1>1, <3>2, <4>3, <4>4 DEF Covers
    <3>5. QED
      BY <3>3, <3>4
  <2>8. ASSUME Paused(pause)' PROVE pause'.events = filed'.events /\ Covers(pause.events)'
    <3>1. Paused(pause) /\ pause.events = filed.events /\ Covers(pause.events)
      BY <1>1, <1>2, <2>8 DEF LogInv, Paused
    <3>2. Log(s)' = Log(s)
      BY <1>2, <2>2, <3>1 DEF HandoverInv
    <3>3. \A q \in Segments : Log(q)' = Log(q)
      BY <2>1, <3>2
    <3>4. \A q \in Segments : At(q, {"setup"})' => At(q, {"setup"}) /\ stream'[q] = stream[q]
      BY <1>1 DEF At
    <3>5. QED
      BY <1>1, <3>1, <3>3, <3>4 DEF Covers
  <2>9. QED
    BY <1>1, <2>5, <2>6, <2>7, <2>8 DEF LogInv
<1>9. QED
  BY <1>5, <1>8

LEMMA ThreadStep ==
    ASSUME StreamInv, NEW s \in Segments, NEW put, Moves(s, put), Ends(s, put), Emits(s, put),
           Speaks(s, put), Made(put), NodeInv(s)', Filing,
           \/ At(s, Running)
           \/ worker'[s].at \notin Running /\ worker'[s].state = State(s)
    PROVE  StreamInv'
<1>1. HandoverInv' /\ LogInv'
  BY HandoverKept
<1>2. /\ pause' \in {NoPause} \cup Waiting
      /\ filed' \in [outcome : {"none", "paused", "terminal"}, events : Seq(Rows)]
  BY DEF StreamInv, TypeOK, Filing
<1>3. QED
  BY <1>1, <1>2, ThreadStepWith

-----------------------------------------------------------------------------
(***************************************************************************)
(* The steps of a thread, one by one.                                      *)
(***************************************************************************)
\* A thread that says nothing, or one event that is neither a row nor a
\* fragment, and leaves its stream alone.
LEMMA Quiet ==
    ASSUME TypeOK, NEW s \in Segments, Alone(s), UNCHANGED stream, Elsewhere,
           NEW put \in Seq(Events), Puts(s, put)
    PROVE  Moves(s, put)
BY DEF TypeOK, Alone, Moves

LEMMA OneEvent ==
    ASSUME NEW e \in Events
    PROVE  /\ <<e>> \in Seq(Events) /\ DOMAIN <<e>> = {1} /\ <<e>>[1] = e /\ Len(<<e>>) = 1
OBVIOUS

\* A log that stays has grown by nothing, and a put without rows sends none.
LEMMA EmitsNothing ==
    ASSUME TypeOK, NEW s \in Segments, Alone(s), NEW put,
           \A i \in DOMAIN put : ~IsRow(put[i]),
           stream'[s].emitted = stream[s].emitted, ~At(s, {"setup", "closed"}),
           \/ worker'[s].state.events = Log(s)
           \/ \E row \in Rows : worker'[s].state.events = Append(Log(s), row)
    PROVE  Emits(s, put)
<1> DEFINE log == worker'[s].state.events  old == Len(Log(s))  new == Len(log)
<1>1. Log(s) \in Seq(Rows) /\ stream[s].emitted \in Nat /\ stream[s].emitted <= old
  BY WorkerTypes DEF TypeOK, Log
<1>2. old \in Nat /\ new \in Nat /\ old <= new /\ Grows(Log(s), log)
  <2>1. CASE log = Log(s)
    BY <1>1, <2>1 DEF Grows
  <2>2. ASSUME NEW row \in Rows, log = Append(Log(s), row)
        PROVE  old \in Nat /\ new \in Nat /\ old <= new /\ Grows(Log(s), log)
    BY <1>1, <2>2 DEF Grows
  <2>3. QED
    BY <2>1, <2>2
<1> HIDE DEF old, new
<1>3. stream'[s].emitted <= new
  BY <1>1, <1>2
<1>4. QED
  BY <1>1, <1>2, <1>3 DEF Emits, new

LEMMA Speaking ==
    ASSUME StreamInv, NEW s \in Segments, Speak(s)
    PROVE  StreamInv'
<1> DEFINE event == TokenEvent(s)  put == <<event>>
<1>1. TypeOK /\ NodeInv(s)
  BY DEF StreamInv
<1>2. At(s, {"calling"}) /\ Call(s).purpose # "declare"
  BY DEF Speak
<1>3. event \in Events /\ event.type = "token"
      /\ event.piece = <<s, Call(s).number, Call(s).attempt>>
  <2>1. Call(s).number \in Nat /\ Call(s).attempt \in 1..MaxAttempts
    BY <1>1, <1>2, WorkerTypes DEF NodeInv
  <2>2. <<s, Call(s).number, Call(s).attempt>> \in Pieces
    BY <2>1 DEF Pieces
  <2>3. QED
    BY <2>2, EventForms DEF TokenEvent
<1> HIDE DEF event
<1>4. put \in Seq(Events) /\ DOMAIN put = {1} /\ put[1] = event
  BY <1>3, OneEvent
<1>5. Puts(s, put)
  BY DEF Speak, Put, Puts, event
<1>6. /\ Alone(s) /\ worker'[s].at = "calling"
      /\ worker'[s].state = State(s) /\ worker'[s].call = Call(s)
  <2> DEFINE w == [worker[s] EXCEPT !.spoke = TRUE]
  <2>1. worker \in [Segments -> Workers] /\ worker[s] \in Workers
    BY <1>1, WorkerTypes DEF TypeOK
  <2>2. worker' = [worker EXCEPT ![s] = w]
    BY <2>1 DEF Speak
  <2>3. w \in Workers /\ w.at = worker[s].at /\ w.state = State(s) /\ w.call = Call(s)
    BY <2>1 DEF Workers, Call, State
  <2> HIDE DEF w
  <2>4. QED
    BY <1>1, <1>2, <2>2, <2>3, Becomes DEF At
<1>7. UNCHANGED stream /\ Elsewhere /\ Filing
  BY DEF Speak
<1>8. Moves(s, put)
  BY <1>1, <1>4, <1>5, <1>6, <1>7, Quiet
<1>9. Ends(s, put) /\ Speaks(s, put) /\ Made(put)
  BY <1>1, <1>2, <1>3, <1>4, <1>6, WorkerTypes
     DEF Ends, Speaks, Made, ShownWhereMade, At
<1>10. Emits(s, put)
  BY <1>1, <1>2, <1>3, <1>4, <1>6, <1>7, EmitsNothing DEF IsRow, At, Log
<1>11. NodeInv(s)'
  BY <1>1, <1>2, <1>6, <1>7 DEF NodeInv, InNode, At, State, Call, Log
<1>12. QED
  BY <1>2, <1>7, <1>8, <1>9, <1>10, <1>11, ThreadStep DEF At, Running

\* What the plain steps have in common: they sent no row, no fragment and no
\* sentinel.
LEMMA PlainStep ==
    ASSUME StreamInv, NEW s \in Segments, Alone(s), Elsewhere, Filing,
           stream' \in [Segments -> Streams],
           \A r \in Segments \ {s} : stream'[r] = stream[r],
           stream'[s].emitted = stream[s].emitted,
           NEW put \in Seq(Events), Puts(s, put),
           \A i \in DOMAIN put :
              put[i].type \notin {"row", "token", "end"} /\ ShownWhereMade(put[i]),
           At(s, Running), worker'[s].at \in Running \cup {"tail"},
           \/ worker'[s].state.events = Log(s)
           \/ \E row \in Rows : worker'[s].state.events = Append(Log(s), row),
           Call(s).number <= worker'[s].call.number,
           worker'[s].at = "calling" /\ worker'[s].call.number = Call(s).number =>
              At(s, {"calling"}) /\ (worker'[s].call.attempt = Call(s).attempt \/ put = Reset),
           NodeInv(s)'
    PROVE  StreamInv'
<1>1. TypeOK
  BY DEF StreamInv
<1>2. Moves(s, put)
  BY DEF Moves, Alone
<1>3. Ends(s, put)
  BY DEF Ends, At, Running
<1>4. Emits(s, put)
  BY <1>1, EmitsNothing DEF IsRow, At, Running
<1>5. Speaks(s, put)
  BY DEF Speaks
<1>6. Made(put)
  BY DEF Made
<1>7. QED
  BY <1>2, <1>3, <1>4, <1>5, <1>6, ThreadStep

LEMMA NothingSaid ==
    ASSUME TypeOK, NEW s \in Segments, UNCHANGED queue
    PROVE  /\ Puts(s, <<>>) /\ <<>> \in Seq(Events)
           /\ \A i \in DOMAIN <<>> :
                 <<>>[i].type \notin {"row", "token", "end"} /\ ShownWhereMade(<<>>[i])
BY Silence

LEMMA SilentStep ==
    ASSUME StreamInv, NEW s \in Segments, Alone(s), Elsewhere, Filing, UNCHANGED queue,
           stream' \in [Segments -> Streams],
           \A r \in Segments \ {s} : stream'[r] = stream[r],
           stream'[s].emitted = stream[s].emitted,
           worker[s].at \in Running, worker'[s].at \in Running \cup {"tail"},
           \/ worker'[s].state.events = Log(s)
           \/ \E row \in Rows : worker'[s].state.events = Append(Log(s), row),
           Call(s).number <= worker'[s].call.number,
           worker'[s].at = "calling" => worker'[s].call.number # Call(s).number,
           NodeInv(s)'
    PROVE  StreamInv'
<1> DEFINE put == <<>>
<1>1. TypeOK
  BY DEF StreamInv
<1>2. /\ put \in Seq(Events) /\ Puts(s, put)
      /\ \A i \in DOMAIN put :
            put[i].type \notin {"row", "token", "end"} /\ ShownWhereMade(put[i])
  BY <1>1, NothingSaid
<1>3. At(s, Running)
  BY DEF At
<1> HIDE DEF put
<1>4. QED
  BY <1>2, <1>3, PlainStep

LEMMA Retrying ==
    ASSUME StreamInv, NEW s \in Segments, Retry(s)
    PROVE  StreamInv'
<1>1. TypeOK /\ NodeInv(s)
  BY DEF StreamInv
<1>2. /\ At(s, {"calling"}) /\ Call(s).attempt < MaxAttempts /\ Again(s) /\ Puts(s, Reset)
      /\ UNCHANGED stream /\ Elsewhere /\ Filing
  BY DEF Retry, RetryAfterReset, Put, Puts, Reset
<1>3. /\ Alone(s) /\ worker'[s].at = worker[s].at /\ worker'[s].state = State(s)
      /\ worker'[s].call.number = Call(s).number
      /\ worker'[s].call.purpose = Call(s).purpose
      /\ worker'[s].call.attempt = Call(s).attempt + 1
  BY <1>1, <1>2, AgainFacts
<1>4. /\ Reset \in Seq(Events)
      /\ \A i \in DOMAIN Reset :
            Reset[i].type \notin {"row", "token", "end"} /\ ShownWhereMade(Reset[i])
  <2>1. [type |-> "reset"] \in Events
    BY EventForms DEF PlainTypes
  <2>2. QED
    BY <2>1, OneEvent DEF Reset, ShownWhereMade
<1>5. Call(s).number \in Nat /\ Call(s).attempt \in Nat /\ stream \in [Segments -> Streams]
  BY <1>1, WorkerTypes DEF TypeOK
<1>6. NodeInv(s)'
  BY <1>1, <1>2, <1>3, <1>5 DEF NodeInv, InNode, At, State, Call, Log
<1>7. QED
  BY <1>2, <1>3, <1>4, <1>5, <1>6, PlainStep DEF At, Running, Log

\* A call that has ended is held for the step of its node.
LEMMA InspectedFacts ==
    ASSUME TypeOK, NEW s \in Segments, stream' = Inspected(s)
    PROVE  /\ stream' \in [Segments -> Streams]
           /\ \A r \in Segments \ {s} : stream'[r] = stream[r]
           /\ stream'[s].emitted = stream[s].emitted /\ stream'[s].last = stream[s].last
           /\ stream'[s].search = stream[s].search
           /\ stream'[s].calls = Append(stream[s].calls, State(s).steps)
<1> DEFINE calls == Append(stream[s].calls, State(s).steps)
           after == [stream[s] EXCEPT !.calls = calls]
<1>1. /\ stream \in [Segments -> Streams] /\ stream[s] \in Streams
      /\ stream[s].calls \in Seq(Steps) /\ State(s).steps \in Steps
  BY WorkerTypes DEF TypeOK
<1>2. stream' = [stream EXCEPT ![s] = after]
  BY <1>1 DEF Inspected, ModelCallOut
<1>3. calls \in Seq(Steps)
  BY <1>1
<1> HIDE DEF calls
<1>4. /\ after \in Streams /\ after.emitted = stream[s].emitted /\ after.last = stream[s].last
      /\ after.search = stream[s].search /\ after.calls = calls
  BY <1>1, <1>3 DEF Streams
<1> HIDE DEF after
<1>5. stream' \in [Segments -> Streams] /\ stream'[s] = after
      /\ \A r \in Segments \ {s} : stream'[r] = stream[r]
  BY <1>1, <1>2, <1>4
<1>6. QED
  BY <1>4, <1>5 DEF calls

LEMMA AppendedToAll ==
    ASSUME NEW S, NEW calls \in Seq(S), NEW x \in S, \A i \in DOMAIN calls : calls[i] = x
    PROVE  \A i \in DOMAIN Append(calls, x) : Append(calls, x)[i] = x
OBVIOUS

LEMMA Declaring ==
    ASSUME StreamInv, NEW s \in Segments, DeclarationEnds(s)
    PROVE  StreamInv'
<1>1. TypeOK
  BY DEF StreamInv
<1>2. /\ At(s, {"calling"}) /\ stream' = Inspected(s) /\ UNCHANGED queue /\ Elsewhere /\ Filing
  BY DEF DeclarationEnds
<1> DEFINE row == Row("contract", "contract_declared")
<1>3. PICK known \in {State(s), With(State(s), row)} : Answered(s, "introducing", known)
  BY DEF DeclarationEnds
<1>4. row \in Rows /\ State(s) \in States
  BY <1>1, WorkerTypes DEF Rows, Row
<1> HIDE DEF row
<1>5. known \in States /\ (known.events = Log(s) \/ known.events = Append(Log(s), row))
  BY <1>3, <1>4, WithFacts DEF Log
<1>6. /\ Alone(s) /\ worker'[s].at = "introducing" /\ worker'[s].state = known
      /\ worker'[s].call.number = Call(s).number
  BY <1>1, <1>3, <1>5, AnsweredFacts
<1>7. NodeInv(s)'
  BY <1>6 DEF NodeInv, InNode, At
<1>8. Call(s).number \in Nat
  BY <1>1, WorkerTypes
<1>9. QED
  <2>1. Call(s).number <= worker'[s].call.number /\ worker'[s].at # "calling"
    BY <1>6, <1>8
  <2>2. worker[s].at \in Running /\ worker'[s].at \in Running
    BY <1>2, <1>6 DEF At, Running
  <2>3. \/ worker'[s].state.events = Log(s)
        \/ \E x \in Rows : worker'[s].state.events = Append(Log(s), x)
    BY <1>4, <1>5, <1>6
  <2>4. QED
    BY <1>1, <1>2, <1>6, <1>7, <2>1, <2>2, <2>3, InspectedFacts, SilentStep

\* A decision, or the end of the turn, that a call in a node brings.
LEMMA CallEnding ==
    ASSUME StreamInv, NEW s \in Segments, DecisionArrives(s) \/ CallSettlesTurn(s)
    PROVE  StreamInv'
<1>1. TypeOK /\ NodeInv(s) /\ Call(s).number \in Nat
  BY WorkerTypes DEF StreamInv
<1>2. /\ At(s, {"calling"}) /\ Call(s).purpose # "declare" /\ stream' = Inspected(s)
      /\ UNCHANGED queue /\ Elsewhere /\ Filing
  BY DEF DecisionArrives, CallSettlesTurn
<1>3. State(s) \in States /\ [State(s) EXCEPT !.route = "over"] \in States
      /\ [State(s) EXCEPT !.route = "over"].events = Log(s)
      /\ [State(s) EXCEPT !.route = "over"].steps = State(s).steps
  <2>1. State(s) \in States
    BY <1>1, WorkerTypes
  <2>2. QED
    BY <2>1 DEF States, Log
<1> DEFINE Step ==
              /\ Alone(s) /\ worker'[s].at \in {"deciding", "leaving", "calling"}
              /\ worker'[s].state.events = Log(s) /\ worker'[s].state.steps = State(s).steps
              /\ Call(s).number <= worker'[s].call.number
              /\ worker'[s].at = "calling" =>
                    /\ worker'[s].call.purpose # "none" /\ worker'[s].call.attempt > 0
                    /\ worker'[s].call.number > 0
                    /\ worker'[s].call.number # Call(s).number
<1>4. Step
  <2>1. ASSUME Answered(s, "deciding", State(s)) PROVE Step
    BY <1>1, <1>3, <2>1, AnsweredFacts DEF Log
  <2>2. ASSUME CallModel(s, "forced", State(s)) PROVE Step
    <3>1. /\ Alone(s) /\ worker'[s].at = "calling" /\ worker'[s].state = State(s)
          /\ worker'[s].call = [purpose |-> "forced", attempt |-> 1,
                                number |-> Call(s).number + 1]
      BY <1>1, <1>3, <2>2, CallModelFacts
    <3>2. QED
      BY <1>1, <3>1 DEF Log
  <2>3. ASSUME CallSettlesTurn(s) PROVE Step
    <3> DEFINE over == [State(s) EXCEPT !.route = "over"]
    <3>1. Answered(s, "leaving", over)
      BY <2>3 DEF CallSettlesTurn
    <3> HIDE DEF over
    <3>2. over \in States /\ over.events = Log(s) /\ over.steps = State(s).steps
      BY <1>3 DEF over
    <3>3. /\ Alone(s) /\ worker'[s].at = "leaving" /\ worker'[s].state = over
          /\ worker'[s].call.number = Call(s).number
      BY <1>1, <3>1, <3>2, AnsweredFacts
    <3>4. QED
      BY <1>1, <3>2, <3>3
  <2> HIDE DEF Step
  <2>4. \/ Answered(s, "deciding", State(s)) \/ CallModel(s, "forced", State(s))
        \/ CallSettlesTurn(s)
    BY Zenon DEF DecisionArrives
  <2>5. QED
    BY <2>1, <2>2, <2>3, <2>4, Zenon
<1>5. /\ stream[s].last + 1 = State(s).steps /\ stream[s].search \in {0, State(s).steps}
      /\ \A c \in DOMAIN stream[s].calls : stream[s].calls[c] = State(s).steps
      /\ \E i \in DOMAIN Log(s) : Log(s)[i].kind = "node_entered"
  BY <1>1, <1>2 DEF NodeInv, InNode
<1>6. /\ stream'[s].last = stream[s].last /\ stream'[s].search = stream[s].search
      /\ \A c \in DOMAIN stream'[s].calls : stream'[s].calls[c] = State(s).steps
  <2>1. stream[s].calls \in Seq(Steps) /\ State(s).steps \in Steps
    BY <1>1, WorkerTypes
  <2>2. stream'[s].calls = Append(stream[s].calls, State(s).steps)
    BY <1>1, <1>2, InspectedFacts
  <2>3. \A c \in DOMAIN stream'[s].calls : stream'[s].calls[c] = State(s).steps
    BY <1>5, <2>1, <2>2, AppendedToAll
  <2>4. QED
    BY <1>1, <1>2, <2>3, InspectedFacts
<1>7. NodeInv(s)'
  BY <1>4, <1>5, <1>6 DEF NodeInv, InNode, At, State, Call, Log
<1>8. QED
  <2>1. /\ Call(s).number <= worker'[s].call.number
        /\ worker'[s].at = "calling" => worker'[s].call.number # Call(s).number
    BY <1>4
  <2>2. worker[s].at \in Running /\ worker'[s].at \in Running
    BY <1>2, <1>4 DEF At, Running
  <2>3. QED
    BY <1>1, <1>2, <1>4, <1>7, <2>1, <2>2, InspectedFacts, SilentStep

\* A quiet step of the engine leaves the stream alone too.
LEMMA EngineStep ==
    ASSUME StreamInv, NEW s \in Segments, Alone(s), Quietly, Elsewhere, Filing,
           worker[s].at \in Running, worker'[s].at \in Running \cup {"tail"},
           \/ worker'[s].state.events = Log(s)
           \/ \E row \in Rows : worker'[s].state.events = Append(Log(s), row),
           \/ worker'[s].at # "calling" /\ worker'[s].call = Call(s)
           \/ worker'[s].call.number = Call(s).number + 1,
           NodeInv(s)'
    PROVE  StreamInv'
<1>1. /\ Call(s).number \in Nat /\ UNCHANGED <<stream, queue>>
      /\ stream \in [Segments -> Streams]
  BY WorkerTypes DEF StreamInv, TypeOK, Quietly
<1>2. /\ Call(s).number <= worker'[s].call.number
      /\ worker'[s].at = "calling" => worker'[s].call.number # Call(s).number
  BY <1>1
<1>3. QED
  BY <1>1, <1>2, SilentStep

LEMMA EntersFacts ==
    ASSUME NEW state \in States, state.route \in Nodes, state.steps < MaxSteps
    PROVE  /\ Enters(state) \in States
           /\ Enters(state).steps = state.steps + 1
           /\ \E row \in Rows : Enters(state).events = Append(state.events, row)
           /\ \E i \in DOMAIN Enters(state).events :
                 Enters(state).events[i].kind = "node_entered"
<1> DEFINE row == Row(NodeOf(state), "node_entered")  new == With(state, row)
<1>1. row \in Rows /\ row.kind = "node_entered"
  BY DEF Rows, Row, NodeOf
<1> HIDE DEF row
<1>2. /\ new \in States /\ new.events = Append(state.events, row) /\ new.steps = state.steps
      /\ new.events[Len(state.events) + 1] = row /\ Len(new.events) = Len(state.events) + 1
  BY <1>1, WithFacts
<1> HIDE DEF new
<1>3. Enters(state) = [new EXCEPT !.steps = new.steps + 1]
  BY DEF Enters, new, row
<1>4. new.steps + 1 \in Steps
  BY <1>2, StreamAssumption DEF States, Steps
<1>5. /\ Enters(state) \in States /\ Enters(state).steps = state.steps + 1
      /\ Enters(state).events = new.events
  BY <1>2, <1>3, <1>4 DEF States
<1>6. Len(state.events) + 1 \in DOMAIN new.events
  BY <1>2 DEF States
<1>7. QED
  BY <1>1, <1>2, <1>5, <1>6

\* A node begins with nothing held for it.
LEMMA FreshInNode ==
    ASSUME NEW s \in Segments, stream'[s].last + 1 = worker'[s].state.steps,
           stream'[s].calls = <<>>, stream'[s].search = 0,
           \E i \in DOMAIN worker'[s].state.events :
              worker'[s].state.events[i].kind = "node_entered",
           worker'[s].at \in {"calling", "call_tool", "retrieve"},
           worker'[s].at = "calling" =>
              /\ worker'[s].call.purpose # "none" /\ worker'[s].call.attempt > 0
              /\ worker'[s].call.number > 0
    PROVE  NodeInv(s)'
<1>1. \A c \in DOMAIN stream'[s].calls : stream'[s].calls[c] = worker'[s].state.steps
  OBVIOUS
<1>2. QED
  BY <1>1 DEF NodeInv, At, State, Call, Log

LEMMA Entering ==
    ASSUME StreamInv, NEW s \in Segments, EnterNode(s)
    PROVE  StreamInv'
<1> DEFINE state == Enters(State(s))
<1>1. TypeOK /\ NodeInv(s) /\ State(s) \in States
  BY WorkerTypes DEF StreamInv
<1>2. /\ At(s, {"loop"}) /\ State(s).route \in Nodes /\ State(s).steps < MaxSteps
      /\ Quietly /\ Elsewhere /\ Filing
  BY DEF EnterNode, Nodes
<1>3. /\ state \in States /\ state.steps = State(s).steps + 1
      /\ \E row \in Rows : state.events = Append(Log(s), row)
      /\ \E i \in DOMAIN state.events : state.events[i].kind = "node_entered"
  BY <1>1, <1>2, EntersFacts DEF Log
<1>4. /\ stream'[s].last = State(s).steps /\ stream'[s].calls = <<>> /\ stream'[s].search = 0
  BY <1>1, <1>2 DEF NodeInv, Quietly, At
<1>5. CASE State(s).route \in {"start", "think"}
  <2>1. CallModel(s, "decide", state)
    BY <1>5 DEF EnterNode
  <2> HIDE DEF state
  <2>2. /\ Alone(s) /\ worker'[s].at = "calling" /\ worker'[s].state = state
        /\ worker'[s].call = [purpose |-> "decide", attempt |-> 1,
                              number |-> Call(s).number + 1]
    BY <1>1, <1>3, <2>1, CallModelFacts
  <2>3. Call(s).number \in Nat
    BY <1>1, WorkerTypes
  <2>4. /\ stream'[s].last + 1 = worker'[s].state.steps
        /\ \E i \in DOMAIN worker'[s].state.events :
              worker'[s].state.events[i].kind = "node_entered"
    BY <1>3, <1>4, <2>2
  <2>5. /\ worker'[s].call.purpose # "none" /\ worker'[s].call.attempt > 0
        /\ worker'[s].call.number > 0
    BY <2>2, <2>3
  <2>6. NodeInv(s)'
    BY <1>4, <2>2, <2>4, <2>5, FreshInNode
  <2>7. QED
    BY <1>2, <1>3, <2>2, <2>6, EngineStep DEF At, Running
<1>6. CASE State(s).route \notin {"start", "think"}
  <2>1. worker' = [worker EXCEPT ![s].at = State(s).route, ![s].state = state]
    BY <1>6 DEF EnterNode
  <2>2. State(s).route \in Places /\ State(s).route \in {"call_tool", "retrieve"}
    BY <1>2, <1>6 DEF Nodes, Places, Running
  <2> DEFINE at == State(s).route
  <2> HIDE DEF state, at
  <2>3. /\ Alone(s) /\ worker'[s].at \in {"call_tool", "retrieve"} /\ worker'[s].state = state
        /\ worker'[s].call = Call(s)
    <3>1. worker' = [worker EXCEPT ![s].at = at, ![s].state = state]
      BY <2>1 DEF at
    <3>2. at \in Places /\ at \in {"call_tool", "retrieve"}
      BY <2>2 DEF at
    <3>3. QED
      BY <1>1, <1>3, <3>1, <3>2, GoesWithFacts
  <2>4. NodeInv(s)'
    BY <1>3, <1>4, <2>3, FreshInNode
  <2>5. QED
    BY <1>2, <1>3, <2>3, <2>4, EngineStep DEF At, Running
<1>7. QED
  BY <1>5, <1>6

LEMMA Stopping ==
    ASSUME StreamInv, NEW s \in Segments, EngineStops(s)
    PROVE  StreamInv'
<1>1. TypeOK
  BY DEF StreamInv
<1>2. /\ At(s, {"loop"}) /\ Goes(s, "consolidating") /\ Quietly /\ Elsewhere /\ Filing
  BY DEF EngineStops
<1>3. /\ Alone(s) /\ worker'[s].at = "consolidating"
      /\ worker'[s].state = State(s) /\ worker'[s].call = Call(s)
  BY <1>1, <1>2, GoesFacts DEF Places, Running
<1>4. NodeInv(s)'
  BY <1>3 DEF NodeInv, InNode, At
<1>5. QED
  BY <1>2, <1>3, <1>4, EngineStep DEF At, Running, Log

\* In a node the stream keeps what it holds until the node is left.
LEMMA StaysInNode ==
    ASSUME TypeOK, NEW s \in Segments, NodeInv(s), InNode(s), UNCHANGED stream,
           worker'[s].state.events = Log(s), worker'[s].state.steps = State(s).steps,
           worker'[s].at \in {"leaving", "calling"},
           worker'[s].at = "calling" =>
              /\ worker'[s].call.purpose # "none" /\ worker'[s].call.attempt > 0
              /\ worker'[s].call.number > 0
    PROVE  NodeInv(s)'
BY DEF NodeInv, InNode, At, State, Call, Log

LEMMA Deciding ==
    ASSUME StreamInv, NEW s \in Segments, Decide(s)
    PROVE  StreamInv'
<1>1. TypeOK /\ NodeInv(s) /\ State(s) \in States /\ Call(s).number \in Nat
  BY WorkerTypes DEF StreamInv
<1>2. /\ At(s, {"deciding"}) /\ InNode(s) /\ Quietly /\ Elsewhere /\ Filing
  BY DEF Decide, InNode, At
<1>3. CASE \E route \in {"think", "call_tool", "retrieve", "over"} : Leads(s, route)
  <2>1. /\ Alone(s) /\ worker'[s].at = "leaving" /\ worker'[s].call = Call(s)
        /\ worker'[s].state.events = Log(s) /\ worker'[s].state.steps = State(s).steps
    BY <1>1, <1>3, LeadsFacts DEF Nodes
  <2>2. NodeInv(s)'
    BY <1>1, <1>2, <2>1, StaysInNode DEF Quietly
  <2>3. QED
    BY <1>2, <2>1, <2>2, EngineStep DEF At, Running
<1>4. CASE CallModel(s, "redirect", [State(s) EXCEPT !.redirected = TRUE])
  <2> DEFINE state == [State(s) EXCEPT !.redirected = TRUE]
  <2>1. state \in States /\ state.events = Log(s) /\ state.steps = State(s).steps
    BY <1>1 DEF States, Log
  <2>2. CallModel(s, "redirect", state)
    BY <1>4
  <2> HIDE DEF state
  <2>3. /\ Alone(s) /\ worker'[s].at = "calling" /\ worker'[s].state = state
        /\ worker'[s].call = [purpose |-> "redirect", attempt |-> 1,
                              number |-> Call(s).number + 1]
    BY <1>1, <2>1, <2>2, CallModelFacts
  <2>4. NodeInv(s)'
    BY <1>1, <1>2, <2>1, <2>3, StaysInNode DEF Quietly
  <2>5. QED
    BY <1>2, <2>1, <2>3, <2>4, EngineStep DEF At, Running
<1>5. QED
  BY <1>3, <1>4 DEF Decide

LEMMA Retrieving ==
    ASSUME StreamInv, NEW s \in Segments, Retrieved(s)
    PROVE  StreamInv'
<1>1. TypeOK /\ NodeInv(s) /\ State(s) \in States /\ Call(s).number \in Nat
  BY WorkerTypes DEF StreamInv
<1>2. /\ At(s, {"retrieve"}) /\ InNode(s) /\ Quietly /\ Elsewhere /\ Filing
  BY DEF Retrieved, InNode, At
<1>3. CASE Leads(s, "over")
  <2>1. /\ Alone(s) /\ worker'[s].at = "leaving" /\ worker'[s].call = Call(s)
        /\ worker'[s].state.events = Log(s) /\ worker'[s].state.steps = State(s).steps
    BY <1>1, <1>3, LeadsFacts
  <2>2. NodeInv(s)'
    BY <1>1, <1>2, <2>1, StaysInNode DEF Quietly
  <2>3. QED
    BY <1>2, <2>1, <2>2, EngineStep DEF At, Running
<1>4. CASE CallModel(s, "compose", State(s))
  <2>1. /\ Alone(s) /\ worker'[s].at = "calling" /\ worker'[s].state = State(s)
        /\ worker'[s].call = [purpose |-> "compose", attempt |-> 1,
                              number |-> Call(s).number + 1]
    BY <1>1, <1>4, CallModelFacts
  <2>2. NodeInv(s)'
    BY <1>1, <1>2, <2>1, StaysInNode DEF Quietly, Log
  <2>3. QED
    BY <1>2, <2>1, <2>2, EngineStep DEF At, Running, Log
<1>5. QED
  BY <1>3, <1>4 DEF Retrieved

\* A row of the gateway is stamped with the step it was made in.
LEMMA LiveRowFacts ==
    ASSUME TypeOK, NEW s \in Segments, NodeInv(s), InNode(s)
    PROVE  /\ <<LiveRow(s)>> \in Seq(Events) /\ DOMAIN <<LiveRow(s)>> = {1}
           /\ LiveRow(s).type = "live" /\ ShownWhereMade(LiveRow(s))
<1>1. /\ stream[s].last + 1 = State(s).steps /\ State(s).steps \in Steps
      /\ stream[s].last \in Steps
  BY WorkerTypes DEF NodeInv
<1>2. stream[s].last + 1 \in 1..(MaxSteps + 1)
  BY <1>1, StreamAssumption DEF Steps
<1>3. LiveRow(s) \in Events
  BY <1>1, <1>2, EventForms DEF LiveRow
<1>4. LiveRow(s).type = "live" /\ ShownWhereMade(LiveRow(s))
  BY <1>1 DEF LiveRow, ShownWhereMade
<1>5. QED
  BY <1>3, <1>4, OneEvent

LEMMA Gating ==
    ASSUME StreamInv, NEW s \in Segments, Preflight(s) \/ RunTool(s)
    PROVE  StreamInv'
<1> DEFINE put == <<LiveRow(s)>>
<1>1. TypeOK /\ NodeInv(s) /\ State(s) \in States /\ Call(s).number \in Nat
      /\ stream \in [Segments -> Streams]
  BY WorkerTypes DEF StreamInv, TypeOK
<1>2. /\ worker[s].at \in {"deciding", "call_tool"} /\ InNode(s) /\ Elsewhere /\ Filing
      /\ UNCHANGED stream /\ Puts(s, put)
      /\ \E route \in {"think", "call_tool", "over", "paused"} : Leads(s, route)
  BY DEF Preflight, RunTool, InNode, At, Put, Puts
<1>3. /\ put \in Seq(Events)
      /\ \A i \in DOMAIN put :
            put[i].type \notin {"row", "token", "end"} /\ ShownWhereMade(put[i])
  BY <1>1, <1>2, LiveRowFacts
<1> HIDE DEF put
<1>4. /\ Alone(s) /\ worker'[s].at = "leaving" /\ worker'[s].call = Call(s)
      /\ worker'[s].state.events = Log(s) /\ worker'[s].state.steps = State(s).steps
  BY <1>1, <1>2, LeadsFacts DEF Nodes
<1>5. NodeInv(s)'
  BY <1>1, <1>2, <1>4, StaysInNode
<1>6. At(s, Running) /\ worker'[s].at \in Running
  BY <1>2, <1>4 DEF At, Running
<1>7. QED
  BY <1>1, <1>2, <1>3, <1>4, <1>5, <1>6, PlainStep

LEMMA Searching ==
    ASSUME StreamInv, NEW s \in Segments, SearchOnce(s)
    PROVE  StreamInv'
<1>1. TypeOK /\ NodeInv(s) /\ Call(s).number \in Nat
  BY WorkerTypes DEF StreamInv
<1>2. /\ At(s, {"retrieve"}) /\ worker[s].searches < MaxQueries /\ InNode(s)
      /\ stream' = Searched(s) /\ UNCHANGED queue /\ Elsewhere /\ Filing
  BY DEF SearchOnce, InNode, At
<1>3. /\ Alone(s) /\ worker'[s].at = "retrieve" /\ worker'[s].state = State(s)
      /\ worker'[s].call = Call(s)
  <2> DEFINE w == [worker[s] EXCEPT !.searches = worker[s].searches + 1]
  <2>1. worker \in [Segments -> Workers] /\ worker[s] \in Workers
    BY <1>1, WorkerTypes DEF TypeOK
  <2>2. worker' = [worker EXCEPT ![s] = w]
    BY <2>1 DEF SearchOnce
  <2>3. worker[s].searches + 1 \in 0..MaxQueries
    BY <1>2, <2>1, StreamAssumption DEF Workers
  <2>4. w \in Workers /\ w.at = worker[s].at /\ w.state = State(s) /\ w.call = Call(s)
    BY <2>1, <2>3 DEF Workers, Call, State
  <2> HIDE DEF w
  <2>5. QED
    BY <1>1, <1>2, <2>2, <2>4, Becomes DEF At
<1>4. /\ stream' \in [Segments -> Streams]
      /\ \A r \in Segments \ {s} : stream'[r] = stream[r]
      /\ stream'[s].emitted = stream[s].emitted /\ stream'[s].last = stream[s].last
      /\ stream'[s].search = State(s).steps /\ stream'[s].calls = stream[s].calls
  <2> DEFINE after == [stream[s] EXCEPT !.search = State(s).steps]
  <2>1. /\ stream \in [Segments -> Streams] /\ stream[s] \in Streams /\ State(s).steps \in Steps
    BY <1>1, WorkerTypes DEF TypeOK
  <2>2. stream' = [stream EXCEPT ![s] = after]
    BY <1>2, <2>1 DEF Searched
  <2>3. /\ after \in Streams /\ after.emitted = stream[s].emitted /\ after.last = stream[s].last
        /\ after.search = State(s).steps /\ after.calls = stream[s].calls
    BY <2>1 DEF Streams
  <2> HIDE DEF after
  <2>4. QED
    BY <2>1, <2>2, <2>3
<1>5. NodeInv(s)'
  BY <1>1, <1>2, <1>3, <1>4 DEF NodeInv, InNode, At, State, Call, Log
<1>6. QED
  BY <1>1, <1>2, <1>3, <1>4, <1>5, SilentStep DEF At, Running, Log

LEMMA Introducing ==
    ASSUME StreamInv, NEW s \in Segments, Introduce(s)
    PROVE  StreamInv'
<1> DEFINE event == ContextEvent(s)  put == Append(<<>>, event)
           after == [emitted |-> stream[s].emitted, last |-> State(s).steps,
                     calls |-> <<>>, search |-> 0]
<1>1. TypeOK /\ Call(s).number \in Nat /\ State(s).steps \in Steps
      /\ stream \in [Segments -> Streams] /\ stream[s].emitted \in Nat
      /\ stream[s].calls \in Seq(Steps)
  BY WorkerTypes DEF StreamInv, TypeOK
<1>2. /\ At(s, {"introducing"}) /\ Puts(s, put) /\ stream' = [stream EXCEPT ![s] = after]
      /\ Elsewhere /\ Filing
  BY DEF Introduce, ShowContext, Put, Puts
<1>3. event \in Events /\ event.type = "context"
  BY <1>1, EventForms DEF ContextEvent
<1> HIDE DEF event
<1>4. put = <<event>>
  OBVIOUS
<1>5. /\ put \in Seq(Events)
      /\ \A i \in DOMAIN put :
            put[i].type \notin {"row", "token", "end"} /\ ShownWhereMade(put[i])
  BY <1>3, <1>4, OneEvent DEF ShownWhereMade
<1>6. after \in Streams
  BY <1>1, StreamAssumption DEF Streams, Steps
<1>7. /\ stream' \in [Segments -> Streams]
      /\ \A r \in Segments \ {s} : stream'[r] = stream[r]
      /\ stream'[s] = after
  <2> HIDE DEF after
  <2>1. QED
    BY <1>1, <1>2, <1>6
<1>8. /\ Alone(s) /\ worker'[s].at = "loop" /\ worker'[s].state = State(s)
      /\ worker'[s].call = Call(s)
  <2>1. worker' = [worker EXCEPT ![s].at = "loop"]
    BY DEF Introduce
  <2>2. Goes(s, "loop")
    BY <2>1 DEF Goes
  <2>3. QED
    BY <1>1, <2>2, GoesFacts DEF Places, Running
<1>9. NodeInv(s)'
  BY <1>7, <1>8 DEF NodeInv, InNode, At, State
<1>10. /\ At(s, Running) /\ worker'[s].at \in Running /\ worker'[s].at # "calling"
       /\ worker'[s].state.events = Log(s) /\ Call(s).number <= worker'[s].call.number
       /\ stream'[s].emitted = stream[s].emitted
  BY <1>1, <1>2, <1>7, <1>8 DEF At, Running, Log
<1>11. Alone(s) /\ Elsewhere /\ Filing /\ Puts(s, put)
  BY <1>2, <1>8
<1> HIDE DEF put, after
<1>12. QED
  BY <1>5, <1>7, <1>9, <1>10, <1>11, PlainStep

LEMMA Consolidating ==
    ASSUME StreamInv, NEW s \in Segments, Consolidate(s)
    PROVE  StreamInv'
<1>1. TypeOK /\ State(s) \in States
  BY WorkerTypes DEF StreamInv
<1>2. /\ At(s, {"consolidating"}) /\ Quietly /\ Elsewhere /\ Filing
  BY DEF Consolidate
<1>3. CASE Goes(s, "filing")
  <2>1. /\ Alone(s) /\ worker'[s].at = "filing"
        /\ worker'[s].state = State(s) /\ worker'[s].call = Call(s)
    BY <1>1, <1>3, GoesFacts DEF Places, Running
  <2>2. NodeInv(s)'
    BY <2>1 DEF NodeInv, InNode, At
  <2>3. QED
    BY <1>2, <2>1, <2>2, EngineStep DEF At, Running, Log
<1> DEFINE row == Row("memory", "memory_written")
<1>4. CASE worker' = [worker EXCEPT ![s].at = "filing", ![s].state = With(@, row)]
  <2>1. row \in Rows
    BY DEF Rows, Row
  <2> DEFINE state == With(State(s), row)
  <2>2. worker' = [worker EXCEPT ![s].at = "filing", ![s].state = state]
    <3>1. worker \in [Segments -> Workers] /\ worker[s] \in Workers
      BY <1>1, WorkerTypes DEF TypeOK
    <3>2. QED
      BY <1>4, <3>1 DEF State, Workers
  <2> HIDE DEF row
  <2>3. state \in States /\ state.events = Append(Log(s), row)
    BY <1>1, <2>1, WithFacts DEF Log
  <2> HIDE DEF state
  <2>4. /\ Alone(s) /\ worker'[s].at = "filing" /\ worker'[s].state = state
        /\ worker'[s].call = Call(s)
    BY <1>1, <2>2, <2>3, GoesWithFacts DEF Places, Running
  <2>5. NodeInv(s)'
    BY <2>4 DEF NodeInv, InNode, At
  <2>6. QED
    BY <1>2, <2>1, <2>3, <2>4, <2>5, EngineStep DEF At, Running
<1>5. QED
  BY <1>3, <1>4 DEF Consolidate

\* A step that is shown has drained the stream.
LEMMA StepShown ==
    ASSUME StreamInv, NEW s \in Segments, NEW node \in Nodes \cup {"none"}, NEW state \in States,
           ShowStep(s, node, state), ShownWhereMade(StepEvent(s, node, state)),
           worker[s].at \in Running,
           state.events = Log(s) \/ \E row \in Rows : state.events = Append(Log(s), row),
           Alone(s), worker'[s].state = state, worker'[s].call = Call(s),
           worker'[s].at \in {"loop", "denying", "consolidating"}, Elsewhere, Filing
    PROVE  StreamInv'
<1>1. TypeOK /\ Call(s).number \in Nat /\ Log(s) \in Seq(Rows) /\ stream[s].emitted \in Nat
      /\ state.events \in Seq(Rows)
  BY WorkerTypes DEF StreamInv, States
<1>2. stream[s].emitted <= Len(Log(s))
  BY <1>1 DEF TypeOK, At, Log, Running
<1>3. /\ Grows(Log(s), state.events) /\ Len(state.events) \in Nat
      /\ stream[s].emitted <= Len(state.events)
  <2>1. CASE state.events = Log(s)
    BY <1>1, <1>2, <2>1 DEF Grows
  <2>2. ASSUME NEW row \in Rows, state.events = Append(Log(s), row)
        PROVE  /\ Grows(Log(s), state.events) /\ Len(state.events) \in Nat
               /\ stream[s].emitted <= Len(state.events)
    BY <1>1, <1>2, <2>2 DEF Grows
  <2>3. QED
    BY <2>1, <2>2
<1>4. Drains(s, state)
  BY <1>1, <1>3, ShowStepFacts
<1>5. PICK put \in Seq(Events) :
         /\ Puts(s, put) /\ SendsRows(s, put, state.events)
         /\ \A i \in DOMAIN put :
               put[i].type \notin {"token", "end"} /\ ShownWhereMade(put[i])
  BY <1>1, <1>3, ShowStepFacts
<1>6. Moves(s, put)
  BY <1>4, <1>5 DEF Moves, Drains, Alone
<1>7. Ends(s, put) /\ Made(put)
  BY <1>5 DEF Ends, Made, At, Running
<1>8. Emits(s, put)
  BY <1>3, <1>4, <1>5 DEF Emits, SendsRows, Drains
<1>9. Speaks(s, put)
  BY <1>1, <1>5 DEF Speaks
<1>10. NodeInv(s)'
  BY <1>4 DEF NodeInv, InNode, At, State, Drains
<1>11. At(s, Running)
  BY DEF At
<1>12. QED
  BY <1>6, <1>7, <1>8, <1>9, <1>10, <1>11, ThreadStep

\* What is shown outside the nodes has nothing to show.
LEMMA NothingHeld ==
    ASSUME NEW s \in Segments, NodeInv(s), At(s, {"loop", "recording", "denying"}), NEW state
    PROVE  ShownWhereMade(StepEvent(s, "none", state))
BY DEF NodeInv, StepEvent, ShownWhereMade

LEMMA Exhausting ==
    ASSUME StreamInv, NEW s \in Segments, OutOfBudget(s)
    PROVE  StreamInv'
<1> DEFINE row == Row("engine", "run_failed")  new == With(State(s), row)
           state == [new EXCEPT !.route = "over"]
<1>1. TypeOK /\ NodeInv(s) /\ State(s) \in States
  BY WorkerTypes DEF StreamInv
<1>2. /\ At(s, {"loop"}) /\ ShowStep(s, "none", state) /\ Elsewhere /\ Filing
      /\ worker' = [worker EXCEPT ![s].at = "consolidating", ![s].state = state]
  BY DEF OutOfBudget
<1>3. row \in Rows
  BY DEF Rows, Row
<1> HIDE DEF row
<1>4. new \in States /\ new.events = Append(Log(s), row)
  BY <1>1, <1>3, WithFacts DEF Log
<1> HIDE DEF new
<1>5. state \in States /\ state.events = Append(Log(s), row)
  BY <1>4 DEF States
<1>6. ShownWhereMade(StepEvent(s, "none", state))
  BY <1>1, <1>2, NothingHeld DEF At
<1> HIDE DEF state
<1>7. /\ Alone(s) /\ worker'[s].at = "consolidating" /\ worker'[s].state = state
      /\ worker'[s].call = Call(s)
  BY <1>1, <1>2, <1>5, GoesWithFacts DEF Places, Running
<1>8. QED
  BY <1>2, <1>3, <1>5, <1>6, <1>7, StepShown DEF At, Running

LEMMA Denying ==
    ASSUME StreamInv, NEW s \in Segments, Deny(s)
    PROVE  StreamInv'
<1> DEFINE state == [State(s) EXCEPT !.route = "over"]
<1>1. TypeOK /\ NodeInv(s) /\ State(s) \in States
  BY WorkerTypes DEF StreamInv
<1>2. /\ At(s, {"denying"}) /\ ShowStep(s, "none", state) /\ Elsewhere /\ Filing
      /\ worker' = [worker EXCEPT ![s].at = "consolidating", ![s].state = state]
  BY DEF Deny
<1>3. state \in States /\ state.events = Log(s)
  BY <1>1 DEF States, Log
<1>4. ShownWhereMade(StepEvent(s, "none", state))
  BY <1>1, <1>2, NothingHeld DEF At
<1> HIDE DEF state
<1>5. /\ Alone(s) /\ worker'[s].at = "consolidating" /\ worker'[s].state = state
      /\ worker'[s].call = Call(s)
  BY <1>1, <1>2, <1>3, GoesWithFacts DEF Places, Running
<1>6. QED
  BY <1>2, <1>3, <1>4, <1>5, StepShown DEF At, Running

LEMMA Recording ==
    ASSUME StreamInv, NEW s \in Segments, RecordDecision(s)
    PROVE  StreamInv'
<1> DEFINE row == Row("approval", "approval_recorded")  new == With(State(s), row)
           state(verdict) == [new EXCEPT !.route = verdict]
<1>1. TypeOK /\ NodeInv(s) /\ State(s) \in States
  BY WorkerTypes DEF StreamInv
<1>2. At(s, {"recording"}) /\ Elsewhere /\ Filing
  BY DEF RecordDecision
<1>3. PICK verdict \in {"call_tool", "denying"} :
        /\ ShowStep(s, "none", state(verdict))
        /\ worker' = [worker EXCEPT ![s].at = IF verdict = "denying" THEN "denying" ELSE "loop",
                                    ![s].state = state(verdict)]
  BY DEF RecordDecision
<1>4. row \in Rows
  BY DEF Rows, Row
<1> HIDE DEF row
<1>5. new \in States /\ new.events = Append(Log(s), row)
  BY <1>1, <1>4, WithFacts DEF Log
<1> HIDE DEF new
<1> DEFINE st == state(verdict)  at == IF verdict = "denying" THEN "denying" ELSE "loop"
<1>6. st \in States /\ st.events = Append(Log(s), row)
  BY <1>5 DEF States, Nodes
<1>7. ShownWhereMade(StepEvent(s, "none", st))
  BY <1>1, <1>2, NothingHeld DEF At
<1>8. ShowStep(s, "none", st) /\ worker' = [worker EXCEPT ![s].at = at, ![s].state = st]
  BY <1>3
<1>9. at \in {"loop", "denying"}
  OBVIOUS
<1> HIDE DEF st, at
<1>10. /\ Alone(s) /\ worker'[s].at = at /\ worker'[s].state = st /\ worker'[s].call = Call(s)
  BY <1>1, <1>6, <1>8, <1>9, GoesWithFacts DEF Places, Running
<1>11. QED
  BY <1>2, <1>4, <1>6, <1>7, <1>8, <1>9, <1>10, StepShown DEF At, Running

\* A set of places of a sequence that is not empty has a last one.
LEMMA LastExists ==
    ASSUME NEW n \in Nat, NEW S \in SUBSET (1..n), S # {}
    PROVE  Max(S) \in S
<1> DEFINE smaller == OpToRel(<, Nat)
           T == {n - i : i \in S}
<1>1. IsWellFoundedOn(smaller, Nat)
  BY NatLessThanWellFounded, Zenon
<1>2. ASSUME NEW x \in Nat, NEW y \in Nat, y < x PROVE <<y, x>> \in smaller
  BY <1>2, Zenon DEF OpToRel
<1> HIDE DEF smaller
<1>3. T \subseteq Nat /\ T # {}
  <2>1. \A i \in S : i \in 1..n /\ n - i \in Nat
    OBVIOUS
  <2>2. PICK i \in S : TRUE
    OBVIOUS
  <2>3. n - i \in T
    BY <2>2
  <2>4. QED
    BY <2>1, <2>3
<1>4. PICK d \in T : \A e \in T : <<e, d>> \notin smaller
  BY <1>1, <1>3, WFMin
<1>5. PICK last \in S : d = n - last
  BY <1>4
<1>6. ASSUME NEW y \in S PROVE last >= y
  <2>1. n - y \in T /\ n - y \in Nat /\ d \in Nat
    BY <1>3, <1>4
  <2>2. ~ (n - y < d)
    BY <1>2, <1>4, <2>1
  <2>3. QED
    BY <1>5, <2>1, <2>2
<1>7. QED
  BY <1>5, <1>6 DEF Max

LEMMA NodeAtWorkIsANode ==
    ASSUME NEW state \in States,
           \E i \in DOMAIN state.events : state.events[i].kind = "node_entered"
    PROVE  NodeAtWork(state) \in Nodes
<1> DEFINE entered == {i \in DOMAIN state.events : state.events[i].kind = "node_entered"}
<1>1. /\ state.events \in Seq(Rows) /\ Len(state.events) \in Nat
      /\ DOMAIN state.events = 1..Len(state.events)
  BY DEF States
<1>2. entered \in SUBSET (1..Len(state.events)) /\ entered # {}
  BY <1>1
<1>3. Max(entered) \in entered
  BY <1>1, <1>2, LastExists
<1>4. NodeAtWork(state) = state.events[Max(entered)].node
  BY DEF NodeAtWork
<1> DEFINE last == Max(entered)  events == state.events
<1>5. last \in DOMAIN events /\ events[last].kind = "node_entered"
  BY <1>3
<1>6. NodeAtWork(state) = events[last].node
  BY <1>4
<1>7. events \in Seq(Rows)
  BY <1>1
<1> HIDE DEF last, events
<1>8. events[last] \in Rows
  BY <1>5, <1>7
<1>9. QED
  BY <1>5, <1>6, <1>8 DEF Rows

LEMMA Leaving ==
    ASSUME StreamInv, NEW s \in Segments, LeaveNode(s)
    PROVE  StreamInv'
<1> DEFINE node == NodeAtWork(State(s))
           row == Row(node, "node_exited")  state == With(State(s), row)
<1>1. TypeOK /\ NodeInv(s) /\ State(s) \in States
  BY WorkerTypes DEF StreamInv
<1>2. /\ At(s, {"leaving"}) /\ InNode(s) /\ ShowStep(s, node, state) /\ Elsewhere /\ Filing
      /\ worker' = [worker EXCEPT ![s].at = "loop", ![s].state = state, ![s].searches = 0]
  BY DEF LeaveNode, InNode, At
<1>3. node \in Nodes
  BY <1>1, <1>2, NodeAtWorkIsANode DEF NodeInv, Log
<1> HIDE DEF node
<1>4. row \in Rows
  BY <1>3 DEF Rows, Row
<1> HIDE DEF row
<1>5. state \in States /\ state.events = Append(Log(s), row) /\ state.steps = State(s).steps
  BY <1>1, <1>4, WithFacts DEF Log
<1> HIDE DEF state
<1>6. ShownWhereMade(StepEvent(s, node, state))
  <2>1. node # "none"
    BY <1>3 DEF Nodes
  <2>2. QED
    BY <1>1, <1>2, <1>5, <2>1 DEF NodeInv, StepEvent, ShownWhereMade
<1>7. /\ Alone(s) /\ worker'[s].at = "loop" /\ worker'[s].state = state
      /\ worker'[s].call = Call(s)
  <2> DEFINE w == [worker[s] EXCEPT !.at = "loop", !.state = state, !.searches = 0]
  <2>1. worker \in [Segments -> Workers] /\ worker[s] \in Workers
    BY <1>1, WorkerTypes DEF TypeOK
  <2>2. worker' = [worker EXCEPT ![s] = w]
    BY <1>2, <2>1
  <2>3. w \in Workers /\ w.at = "loop" /\ w.state = state /\ w.call = Call(s)
    <3>1. 0 \in 0..MaxQueries /\ "loop" \in Places
      BY StreamAssumption DEF Places, Running
    <3>2. QED
      BY <1>5, <2>1, <3>1 DEF Workers, Call
  <2> HIDE DEF w
  <2>4. QED
    BY <1>1, <2>2, <2>3, Becomes
<1>8. QED
  BY <1>2, <1>3, <1>4, <1>5, <1>6, <1>7, StepShown DEF At, Running

LEMMA Flushing ==
    ASSUME StreamInv, NEW s \in Segments, Flush(s)
    PROVE  StreamInv'
<1> DEFINE rows == NewRows(s, Log(s))  event == Verdict(State(s))  put == Append(rows, event)
           sent == stream[s].emitted + Len(rows)
           after == [stream[s] EXCEPT !.emitted = sent]
<1>1. /\ TypeOK /\ Log(s) \in Seq(Rows) /\ stream[s].emitted \in Nat /\ Call(s).number \in Nat
      /\ stream \in [Segments -> Streams] /\ stream[s] \in Streams
  BY WorkerTypes DEF StreamInv, TypeOK
<1>2. /\ At(s, {"filed"}) /\ Puts(s, put) /\ Goes(s, "tail") /\ Elsewhere /\ Filing
      /\ stream' = [stream EXCEPT ![s].emitted = sent]
  <2>1. stream' = [stream EXCEPT ![s].emitted = stream[s].emitted + Len(rows)]
    BY <1>1 DEF Flush, Log
  <2>2. QED
    BY <2>1 DEF Flush, Put, Puts, Log
<1>3. stream[s].emitted <= Len(Log(s)) /\ Len(Log(s)) \in Nat
  <2>1. ~At(s, {"setup", "closed"})
    BY <1>2 DEF At
  <2>2. stream[s].emitted <= Len(State(s).events)
    BY <1>1, <2>1 DEF TypeOK
  <2>3. QED
    BY <1>1, <2>2 DEF Log
<1>4. event \in Events /\ event.type \in {"approval", "answer"}
  BY EventForms DEF Verdict, PlainTypes
<1>5. /\ put \in Seq(Events) /\ SendsRows(s, put, Log(s))
      /\ \A i \in DOMAIN put : put[i].type \notin {"token", "end"}
      /\ ShownWhereMade(event) => \A i \in DOMAIN put : ShownWhereMade(put[i])
  <2> HIDE DEF event
  <2>1. QED
    BY <1>1, <1>3, <1>4, RowsThenEvent
<1>6. ShownWhereMade(event)
  BY <1>4 DEF ShownWhereMade
<1>7. sent = Len(Log(s))
  <2> DEFINE a == stream[s].emitted  b == Len(Log(s))  c == Len(rows)
  <2>1. c = b - a /\ a \in Nat /\ b \in Nat
    BY <1>1, <1>3, NewRowsFacts
  <2> HIDE DEF a, b, c
  <2>2. a + c = b
    BY <2>1
  <2>3. QED
    BY <2>2 DEF a, b, c
<1> HIDE DEF put, event, rows, sent
<1>8. /\ stream' \in [Segments -> Streams]
      /\ \A r \in Segments \ {s} : stream'[r] = stream[r]
      /\ stream'[s].emitted = Len(Log(s))
  <2>1. stream' = [stream EXCEPT ![s] = after]
    BY <1>1, <1>2
  <2>2. after \in Streams /\ after.emitted = sent
    BY <1>1, <1>3, <1>7 DEF Streams
  <2> HIDE DEF after
  <2>3. QED
    BY <1>1, <1>7, <2>1, <2>2
<1>9. /\ Alone(s) /\ worker'[s].at = "tail"
      /\ worker'[s].state = State(s) /\ worker'[s].call = Call(s)
  BY <1>1, <1>2, GoesFacts DEF Places
<1>10. Moves(s, put)
  BY <1>2, <1>5, <1>8, <1>9 DEF Moves, Alone
<1>11. Ends(s, put) /\ Made(put)
  BY <1>2, <1>5, <1>6, <1>9 DEF Ends, Made, At
<1>12. Emits(s, put)
  BY <1>1, <1>3, <1>5, <1>8, <1>9 DEF Emits, SendsRows, Grows, Log
<1>13. Speaks(s, put)
  BY <1>1, <1>5, <1>9 DEF Speaks
<1>14. NodeInv(s)'
  BY <1>9 DEF NodeInv, InNode, At
<1>15. worker'[s].at \notin Running
  BY <1>9 DEF Running
<1>16. QED
  BY <1>2, <1>9, <1>10, <1>11, <1>12, <1>13, <1>14, <1>15, ThreadStep

\* Whatever becomes of a turn, its stream closes in the same way.
LEMMA ClosingFacts ==
    ASSUME NEW why \in {"finished", "error"}
    PROVE  /\ Closing(why) \in Seq(Events) /\ Len(Closing(why)) = 2
           /\ \A i \in DOMAIN Closing(why) :
                 /\ Closing(why)[i].type \notin {"row", "token"}
                 /\ Closing(why)[i].type = "end" => i = 2
                 /\ ShownWhereMade(Closing(why)[i])
<1>1. [type |-> why] \in Events /\ EndOfStream \in Events
  BY EventForms DEF PlainTypes, EndOfStream
<1>2. QED
  BY <1>1 DEF Closing, EndOfStream, ShownWhereMade

LEMMA Closed ==
    ASSUME StreamInv, NEW s \in Segments, Breaks(s) \/ Finish(s)
    PROVE  StreamInv'
<1>1. /\ TypeOK /\ Log(s) \in Seq(Rows) /\ stream[s].emitted \in Nat /\ Call(s).number \in Nat
      /\ stream \in [Segments -> Streams]
  BY WorkerTypes DEF StreamInv, TypeOK
<1>2. /\ At(s, {"setup", "call_tool", "filing", "tail"}) /\ Goes(s, "closed")
      /\ UNCHANGED stream /\ Elsewhere /\ Filing
      /\ \E why \in {"finished", "error"} : Puts(s, Closing(why))
  BY DEF Breaks, Finish, Put, Puts, At
<1>3. PICK why \in {"finished", "error"} : Puts(s, Closing(why))
  BY <1>2
<1> DEFINE put == Closing(why)
<1>4. /\ put \in Seq(Events) /\ Len(put) = 2
      /\ \A i \in DOMAIN put : /\ put[i].type \notin {"row", "token"}
                               /\ put[i].type = "end" => i = 2
                               /\ ShownWhereMade(put[i])
  BY ClosingFacts
<1>5. Puts(s, put)
  BY <1>3
<1> HIDE DEF put
<1>6. /\ Alone(s) /\ worker'[s].at = "closed"
      /\ worker'[s].state = State(s) /\ worker'[s].call = Call(s)
  BY <1>1, <1>2, GoesFacts DEF Places
<1>7. Moves(s, put)
  BY <1>1, <1>2, <1>4, <1>5, <1>6, Quiet
<1>8. Ends(s, put) /\ Made(put)
  BY <1>2, <1>4, <1>6 DEF Ends, Made, At
<1>9. Emits(s, put)
  BY <1>1, <1>2, <1>4, <1>6 DEF Emits, Grows, Log, IsRow
<1>10. Speaks(s, put)
  BY <1>1, <1>4, <1>6 DEF Speaks
<1>11. NodeInv(s)'
  BY <1>6 DEF NodeInv, InNode, At
<1>12. worker'[s].at \notin Running
  BY <1>6 DEF Running
<1>13. QED
  BY <1>2, <1>6, <1>7, <1>8, <1>9, <1>10, <1>11, <1>12, ThreadStep

\* The run is filed by the thread that has it: its log is the record, and
\* what a paused run leaves to an approver is what it filed.
LEMMA FilingFacts ==
    ASSUME StreamInv, NEW s \in Segments, File(s)
    PROVE  HandoverInv' /\ LogInv'
<1>1. TypeOK /\ HandoverInv /\ LogInv /\ 1 \in Segments
  BY StreamAssumption DEF StreamInv
<1>2. /\ At(s, {"filing"}) /\ At(s, Running)
      /\ filed' = [outcome |-> Outcome(State(s)), events |-> Log(s)]
      /\ pause' = IF Paused(State(s)) THEN State(s) ELSE pause
      /\ Goes(s, "filed") /\ Quietly
  BY DEF File, At, Running, Log
<1>3. /\ Alone(s) /\ worker'[s].at = "filed"
      /\ worker'[s].state = State(s) /\ worker'[s].call = Call(s)
  BY <1>1, <1>2, GoesFacts DEF Places
<1>4. ASSUME NEW r \in Segments
      PROVE  /\ Log(r)' = Log(r) /\ Call(r)' = Call(r) /\ stream'[r] = stream[r]
             /\ ~At(r, Running)' /\ Unsent(r)' = Unsent(r)
             /\ At(r, {"setup"})' = At(r, {"setup"}) /\ At(r, {"idle"})' = At(r, {"idle"})
  <2>1. CASE r = s
    BY <1>2, <1>3, <2>1 DEF Log, State, Call, Quietly, At, Running, Unsent
  <2>2. CASE r # s
    <3>1. worker'[r] = worker[r] /\ ~At(r, Running)
      BY <1>1, <1>2, <1>3, <2>2 DEF Alone, HandoverInv
    <3>2. QED
      BY <1>2, <3>1 DEF Log, State, Call, Quietly, At, Unsent
  <2>3. QED
    BY <2>1, <2>2
<1>5. ~Unsent(1)
  BY <1>1, <1>2 DEF HandoverInv, Unsent, At
<1>6. HandoverInv'
  BY <1>1, <1>4, <1>5 DEF HandoverInv
<1>7. filed'.events = Log(s) /\ (Paused(pause)' => pause'.events = Log(s))
  BY <1>1, <1>2 DEF HandoverInv, Log, Paused
<1>8. Covers(Log(s)) /\ Len(Log(s)) \in Nat
  <2>1. Log(s) \in Seq(Rows)
    BY <1>1, WorkerTypes
  <2>2. QED
    BY <1>1, <1>2, <2>1 DEF LogInv
<1>9. ASSUME Paused(pause)' PROVE Covers(pause.events)'
  <2>1. Len(filed'.events) <= Len(pause'.events)
    BY <1>7, <1>8, <1>9
  <2>2. QED
    BY <1>4, <1>7, <1>8, <1>9, <2>1 DEF Covers
<1>10. QED
  BY <1>1, <1>4, <1>6, <1>7, <1>9 DEF LogInv

LEMMA FilesRun ==
    ASSUME StreamInv, NEW s \in Segments, File(s)
    PROVE  StreamInv'
<1>1. /\ TypeOK /\ Log(s) \in Seq(Rows) /\ State(s) \in States /\ Call(s).number \in Nat
      /\ stream \in [Segments -> Streams] /\ stream[s].emitted \in Nat
  BY WorkerTypes DEF StreamInv, TypeOK
<1>2. /\ At(s, {"filing"}) /\ Goes(s, "filed") /\ UNCHANGED stream /\ Elsewhere /\ Puts(s, <<>>)
      /\ filed' = [outcome |-> Outcome(State(s)), events |-> Log(s)]
      /\ pause' = IF Paused(State(s)) THEN State(s) ELSE pause
  BY <1>1, Silence DEF File, Quietly, Log
<1>3. /\ Alone(s) /\ worker'[s].at = "filed"
      /\ worker'[s].state = State(s) /\ worker'[s].call = Call(s)
  BY <1>1, <1>2, GoesFacts DEF Places
<1> DEFINE put == <<>>
<1>4. /\ put \in Seq(Events) /\ Puts(s, put) /\ DOMAIN put = {}
  BY <1>2
<1> HIDE DEF put
<1>5. Moves(s, put) /\ Ends(s, put) /\ Made(put)
  BY <1>1, <1>2, <1>3, <1>4, Quiet DEF Ends, At, Made
<1>6. Emits(s, put)
  BY <1>1, <1>2, <1>3, <1>4, EmitsNothing DEF At, Log
<1>7. Speaks(s, put)
  BY <1>1, <1>3, <1>4 DEF Speaks
<1>8. NodeInv(s)'
  BY <1>3 DEF NodeInv, InNode, At
<1>9. pause' \in {NoPause} \cup Waiting
  <2>1. Paused(State(s)) => State(s) \in Waiting
    BY <1>1 DEF Waiting
  <2>2. pause \in {NoPause} \cup Waiting
    BY <1>1 DEF TypeOK
  <2>3. QED
    BY <1>2, <2>1, <2>2
<1>10. filed' \in [outcome : {"none", "paused", "terminal"}, events : Seq(Rows)]
  BY <1>1, <1>2 DEF Outcome
<1>11. QED
  BY <1>5, <1>6, <1>7, <1>8, <1>9, <1>10, FilingFacts, ThreadStepWith

\* A run that was lost to another approver: there is no pause any more, and
\* nothing else has moved.
LEMMA PauseGone ==
    ASSUME StreamInv, NEW s \in Segments, Alone(s), UNCHANGED <<stream, filed>>,
           pause' = NoPause, At(s, {"setup"}), s # 1, worker'[s].at = "closed",
           worker'[s].state = State(s), worker'[s].call = Call(s)
    PROVE  HandoverInv' /\ LogInv'
<1>1. TypeOK /\ HandoverInv /\ LogInv /\ 1 \in Segments
  BY StreamAssumption DEF StreamInv
<1>2. ~Paused(pause')
  BY DEF Paused, NoPause
<1>3. ASSUME NEW r \in Segments
      PROVE  /\ Log(r)' = Log(r) /\ Call(r)' = Call(r) /\ stream'[r] = stream[r]
             /\ At(r, Running)' => At(r, Running)
             /\ Unsent(r)' => Unsent(r)
             /\ At(r, {"setup"})' => At(r, {"setup"})
             /\ At(r, {"idle"})' => At(r, {"idle"})
  BY DEF Alone, Log, State, Call, At, Running, Unsent
<1>4. ~Unsent(1)'
  BY <1>1, <1>3 DEF HandoverInv, At
<1>5. HandoverInv'
  BY <1>1, <1>2, <1>3, <1>4 DEF HandoverInv
<1>6. \A r \in Segments : At(r, Running)' => Covers(Log(r))'
  BY <1>1, <1>3 DEF LogInv, Covers
<1>7. QED
  BY <1>1, <1>2, <1>3, <1>5, <1>6 DEF LogInv

LEMMA LosingClaim ==
    ASSUME StreamInv, NEW s \in Segments, LoseClaim(s)
    PROVE  StreamInv'
<1> DEFINE put == <<Started(TRUE)>> \o Closing("error")
<1>1. /\ TypeOK /\ Log(s) \in Seq(Rows) /\ stream[s].emitted \in Nat /\ Call(s).number \in Nat
      /\ stream \in [Segments -> Streams]
  BY WorkerTypes DEF StreamInv, TypeOK
<1>2. /\ At(s, {"setup"}) /\ s # 1 /\ Goes(s, "closed") /\ UNCHANGED <<stream, filed>> /\ Elsewhere
      /\ Puts(s, put) /\ pause' = NoPause
  BY DEF LoseClaim, Put, Puts
<1>3. /\ put \in Seq(Events) /\ Len(put) = 3
      /\ \A i \in DOMAIN put : /\ put[i].type \notin {"row", "token"}
                               /\ put[i].type = "end" => i = 3
                               /\ ShownWhereMade(put[i])
  <2> DEFINE a == <<Started(TRUE)>>  b == Closing("error")
  <2>1. Started(TRUE) \in Events
    BY EventForms DEF Started
  <2>2. a \in Seq(Events) /\ Len(a) = 1 /\ DOMAIN a = {1} /\ a[1].type = "started"
    BY <2>1 DEF Started
  <2>3. /\ b \in Seq(Events) /\ Len(b) = 2 /\ DOMAIN b = 1..2
        /\ \A i \in DOMAIN b : /\ b[i].type \notin {"row", "token"}
                               /\ b[i].type = "end" => i = 2
                               /\ ShownWhereMade(b[i])
    BY ClosingFacts
  <2>4. put = a \o b
    OBVIOUS
  <2> HIDE DEF a, b, put
  <2>5. /\ put \in Seq(Events) /\ Len(put) = 3 /\ DOMAIN put = 1..3
        /\ put[1] = a[1]
        /\ \A i \in DOMAIN put : i # 1 => i - 1 \in DOMAIN b /\ put[i] = b[i - 1]
    <3> DEFINE E == Events
    <3>1. a \in Seq(E) /\ b \in Seq(E)
      BY <2>2, <2>3
    <3> HIDE DEF E
    <3>2. put \in Seq(E) /\ Len(put) = Len(a) + Len(b)
      BY <2>4, <3>1, ConcatProperties
    <3>3. Len(put) = 3
      BY <2>2, <2>3, <3>2
    <3>4. DOMAIN put = 1..3
      <4>1. DOMAIN put = 1..Len(put)
        BY <3>2
      <4>2. QED
        BY <3>3, <4>1
    <3>5. /\ \A i \in DOMAIN a : put[i] = a[i]
          /\ \A i \in DOMAIN put : i \notin DOMAIN a =>
                i - Len(a) \in DOMAIN b /\ put[i] = b[i - Len(a)]
      BY <2>4, <3>1, Joined
    <3>6. put \in Seq(Events)
      BY <3>2 DEF E
    <3>7. QED
      BY <2>2, <3>3, <3>4, <3>5, <3>6
  <2>6. ShownWhereMade(a[1])
    BY <2>2 DEF ShownWhereMade
  <2>7. QED
    BY <2>2, <2>3, <2>5, <2>6
<1> HIDE DEF put
<1>4. /\ Alone(s) /\ worker'[s].at = "closed"
      /\ worker'[s].state = State(s) /\ worker'[s].call = Call(s)
  BY <1>1, <1>2, GoesFacts DEF Places
<1>5. Moves(s, put)
  BY <1>1, <1>2, <1>3, <1>4, Quiet
<1>6. Ends(s, put) /\ Made(put)
  BY <1>2, <1>3, <1>4 DEF Ends, Made, At
<1>7. Emits(s, put)
  BY <1>1, <1>2, <1>3, <1>4 DEF Emits, Grows, Log, IsRow
<1>8. Speaks(s, put)
  BY <1>1, <1>3, <1>4 DEF Speaks
<1>9. NodeInv(s)'
  BY <1>4 DEF NodeInv, InNode, At
<1>10. HandoverInv' /\ LogInv'
  BY <1>2, <1>4, PauseGone
<1>11. /\ pause' \in {NoPause} \cup Waiting
       /\ filed' \in [outcome : {"none", "paused", "terminal"}, events : Seq(Rows)]
  BY <1>1, <1>2 DEF TypeOK
<1>12. QED
  BY <1>5, <1>6, <1>7, <1>8, <1>9, <1>10, <1>11, ThreadStepWith

\* A thread takes the run, which nobody has: no log is longer than the one
\* it takes, and each agrees with it.
LEMMA RunTaken ==
    ASSUME StreamInv, NEW s \in Segments, Alone(s),
           \A r \in Segments \ {s} : stream'[r] = stream[r],
           At(s, {"setup"}), worker'[s].at \in Running, filed' = filed, ~Paused(pause'),
           \A r \in Segments : ~At(r, Running), s = 1 \/ ~Unsent(1),
           Covers(Log(s)'), Agree(Log(s)', filed.events),
           \A r \in Segments : Agree(Log(s)', Log(r)) /\ Agree(Log(r), Log(s)')
    PROVE  HandoverInv' /\ LogInv'
<1>1. TypeOK /\ HandoverInv /\ LogInv /\ 1 \in Segments
  BY StreamAssumption DEF StreamInv
<1>2. ASSUME NEW r \in Segments, r # s
      PROVE  /\ Log(r)' = Log(r) /\ Call(r)' = Call(r) /\ stream'[r] = stream[r]
             /\ ~At(r, Running)' /\ Unsent(r)' = Unsent(r)
             /\ At(r, {"setup"})' = At(r, {"setup"}) /\ At(r, {"idle"})' = At(r, {"idle"})
  BY <1>2 DEF Alone, Log, State, Call, At, Unsent
<1>3. ~Unsent(s)' /\ ~At(s, {"idle"})' /\ ~At(s, {"setup"})'
  BY DEF Unsent, At, Running
<1>4. ~Unsent(1)'
  BY <1>1, <1>2, <1>3
<1>5. HandoverInv'
  <2>1. \A r, q \in Segments : At(r, Running)' /\ At(q, Running)' => r = q
    BY <1>2
  <2>2. \A r \in Segments : /\ Unsent(r)' => Log(r)' = <<>> /\ Call(r)'.number = 0
                            /\ At(r, {"idle"})' => stream'[r].emitted = 0
    BY <1>1, <1>2, <1>3 DEF HandoverInv
  <2>3. QED
    BY <1>4, <2>1, <2>2 DEF HandoverInv
<1>6. \A r, q \in Segments : Agree(Log(r)', Log(q)')
  <2>1. Agree(Log(s)', Log(s)')
    BY DEF Agree
  <2>2. QED
    BY <1>1, <1>2, <2>1 DEF LogInv
<1>7. \A r \in Segments : Agree(Log(r)', filed'.events)
  BY <1>1, <1>2 DEF LogInv
<1>8. Covers(Log(s))'
  <2>1. Log(s)' \in Seq(Rows) /\ Len(Log(s)') \in Nat
    <3>1. Log(s)' \in Seq(Rows)
      BY DEF Alone, Log, State, Workers, States
    <3>2. QED
      BY <3>1
  <2>2. ASSUME NEW r \in Segments
        PROVE  /\ Len(Log(r)') <= Len(Log(s)')
               /\ At(r, {"setup"})' => stream'[r].emitted <= Len(Log(s)')
    <3>1. CASE r = s
      BY <1>3, <2>1, <3>1
    <3>2. CASE r # s
      BY <1>2, <3>2 DEF Covers
    <3>3. QED
      BY <3>1, <3>2
  <2>3. Len(filed'.events) <= Len(Log(s)')
    BY DEF Covers
  <2>4. QED
    BY <2>2, <2>3 DEF Covers
<1>9. QED
  BY <1>2, <1>5, <1>6, <1>7, <1>8 DEF LogInv

LEMMA AgreeEmpty ==
    ASSUME NEW log
    PROVE  Agree(<<>>, log) /\ Agree(log, <<>>)
<1>1. DOMAIN <<>> = {}
  OBVIOUS
<1>2. QED
  BY <1>1 DEF Agree

LEMMA Beginning ==
    ASSUME StreamInv, NEW s \in Segments, Begin(s)
    PROVE  StreamInv'
<1> DEFINE row == Row("history", "history_recalled")
           state == IF HasHistory THEN With(Fresh, row) ELSE Fresh
           put == <<Started(FALSE)>>
<1>1. /\ TypeOK /\ HandoverInv /\ 1 \in Segments /\ Call(s).number \in Nat
      /\ stream \in [Segments -> Streams]
  BY WorkerTypes, StreamAssumption DEF StreamInv, TypeOK
<1>2. /\ s = 1 /\ At(s, {"setup"}) /\ Puts(s, put) /\ CallModel(s, "declare", state)
      /\ UNCHANGED stream /\ Elsewhere /\ Filing
  BY DEF Begin, Put, Puts
<1>3. Fresh \in States /\ Fresh.events = <<>>
  <2>1. 0 \in Steps /\ <<>> \in Seq(Rows)
    BY StreamAssumption DEF Steps
  <2>2. QED
    BY <2>1 DEF Fresh, States, Nodes
<1>4. row \in Rows
  BY DEF Rows, Row
<1>5. state \in States /\ state.events \in Seq(Rows)
  <2> HIDE DEF row
  <2>1. With(Fresh, row) \in States
    BY <1>3, <1>4, WithFacts
  <2>2. state \in States
    BY <1>3, <2>1
  <2> HIDE DEF state
  <2>3. QED
    BY <2>2 DEF States
<1> HIDE DEF state
<1>6. /\ Alone(s) /\ worker'[s].at = "calling" /\ worker'[s].state = state
      /\ worker'[s].call = [purpose |-> "declare", attempt |-> 1, number |-> Call(s).number + 1]
  BY <1>1, <1>2, <1>5, CallModelFacts
<1>7. Started(FALSE) \in Events /\ ShownWhereMade(Started(FALSE))
  BY EventForms DEF Started, ShownWhereMade
<1>8. /\ put \in Seq(Events)
      /\ \A i \in DOMAIN put : put[i].type = "started" /\ ShownWhereMade(put[i])
  <2> DEFINE event == Started(FALSE)
  <2>1. event \in Events /\ event.type = "started" /\ ShownWhereMade(event)
    BY <1>7 DEF Started
  <2> HIDE DEF event
  <2>2. <<event>> \in Seq(Events) /\ DOMAIN <<event>> = {1} /\ <<event>>[1] = event
    BY <2>1, OneEvent
  <2>3. put = <<event>>
    BY DEF event
  <2> HIDE DEF put
  <2>4. QED
    BY <2>1, <2>2, <2>3
<1> HIDE DEF put
<1>9. Moves(s, put) /\ Made(put)
  BY <1>1, <1>2, <1>6, <1>8, Quiet DEF Made
<1>10. Ends(s, put)
  BY <1>2, <1>6, <1>8 DEF Ends, At
<1>11. /\ ~Paused(pause) /\ filed.events = <<>> /\ stream[s].emitted = 0
       /\ \A r \in Segments : Log(r) = <<>>
       /\ \A r \in Segments \ {s} : At(r, {"idle"})
  BY <1>1, <1>2 DEF HandoverInv, Unsent, At
<1>12. Len(state.events) \in Nat /\ Len(<<>>) = 0 /\ DOMAIN <<>> = {}
  BY <1>5
<1>13. Emits(s, put)
  BY <1>2, <1>6, <1>8, <1>11, <1>12 DEF Emits, Grows, IsRow
<1>14. Speaks(s, put)
  BY <1>1, <1>6, <1>8 DEF Speaks
<1>15. NodeInv(s)'
  BY <1>1, <1>6 DEF NodeInv, InNode, At, Call
<1>16. Log(s)' = state.events
  BY <1>6 DEF Log, State
<1>17. Covers(Log(s)')
  <2> DEFINE log == Log(s)'
  <2>1. Len(log) \in Nat
    BY <1>12, <1>16
  <2> HIDE DEF log
  <2>2. Len(filed.events) <= Len(log)
    BY <1>11, <1>12, <2>1
  <2>3. ASSUME NEW r \in Segments
        PROVE  /\ Len(Log(r)) <= Len(log)
               /\ At(r, {"setup"}) => stream[r].emitted <= Len(log)
    <3>1. Len(Log(r)) <= Len(log)
      BY <1>11, <1>12, <2>1
    <3>2. At(r, {"setup"}) => r = s
      BY <1>11 DEF At
    <3>3. QED
      BY <1>11, <2>1, <3>1, <3>2
  <2>4. Covers(log)
    BY <2>2, <2>3 DEF Covers
  <2>5. QED
    BY <2>4 DEF log
<1>18. HandoverInv' /\ LogInv'
  <2>1. \A r \in Segments : ~At(r, Running)
    BY <1>2, <1>11 DEF At, Running
  <2>2. worker'[s].at \in Running
    BY <1>6 DEF Running
  <2>3. \A r \in Segments : Agree(Log(s)', Log(r)) /\ Agree(Log(r), Log(s)')
    BY <1>11, AgreeEmpty
  <2>4. Agree(Log(s)', filed.events)
    BY <1>11, AgreeEmpty
  <2>5. filed' = filed /\ ~Paused(pause')
    BY <1>2, <1>11 DEF Filing
  <2>6. QED
    BY <1>2, <1>6, <1>17, <2>1, <2>2, <2>3, <2>4, <2>5, RunTaken
<1>19. /\ pause' \in {NoPause} \cup Waiting
       /\ filed' \in [outcome : {"none", "paused", "terminal"}, events : Seq(Rows)]
  BY <1>1, <1>2 DEF TypeOK, Filing
<1>20. QED
  BY <1>9, <1>10, <1>13, <1>14, <1>15, <1>18, <1>19, ThreadStepWith

\* The approver's thread takes the run the pause held.
LEMMA Claiming ==
    ASSUME StreamInv, NEW s \in Segments, Claim(s)
    PROVE  StreamInv'
<1> DEFINE first == Started(TRUE)  second == ContextEvent(s)
           put == Append(<<first>>, second)
           after == [emitted |-> stream[s].emitted, last |-> pause.steps,
                     calls |-> <<>>, search |-> 0]
<1>1. /\ TypeOK /\ HandoverInv /\ LogInv /\ 1 \in Segments /\ Call(s).number \in Nat
      /\ stream \in [Segments -> Streams] /\ stream[s].emitted \in Nat
      /\ stream[s].calls \in Seq(Steps)
  BY WorkerTypes, StreamAssumption DEF StreamInv, TypeOK
<1>2. /\ s # 1 /\ At(s, {"setup"}) /\ Paused(pause) /\ Puts(s, put)
      /\ worker' = [worker EXCEPT ![s].at = "recording", ![s].state = pause]
      /\ stream' = [stream EXCEPT ![s] = after]
      /\ pause' = NoPause /\ filed' = filed /\ Elsewhere
  BY DEF Claim, ShowContext, Put, Puts
<1>3. pause \in States /\ pause.events \in Seq(Rows) /\ pause.steps \in Steps
  <2>1. pause \in States
    BY <1>1, <1>2 DEF TypeOK, Waiting, Paused, NoPause
  <2>2. QED
    BY <2>1 DEF States
<1>4. /\ put \in Seq(Events)
      /\ \A i \in DOMAIN put : /\ put[i].type \in {"started", "context"}
                               /\ ShownWhereMade(put[i])
  <2>1. first \in Events /\ first.type = "started" /\ ShownWhereMade(first)
    BY EventForms DEF Started, ShownWhereMade
  <2>2. second \in Events /\ second.type = "context" /\ ShownWhereMade(second)
    BY <1>1, EventForms DEF ContextEvent, ShownWhereMade
  <2> HIDE DEF first, second
  <2> DEFINE a == <<first>>
  <2>3. a \in Seq(Events) /\ Len(a) = 1 /\ a[1] = first
    BY <2>1, OneEvent
  <2>4. put = Append(a, second)
    OBVIOUS
  <2> HIDE DEF a, put
  <2>5. /\ put \in Seq(Events) /\ Len(put) = 2
        /\ put[1] = first /\ put[2] = second
    <3> DEFINE E == Events  n == Len(a)
    <3>1. a \in Seq(E) /\ second \in E
      BY <2>2, <2>3
    <3> HIDE DEF E
    <3>2. put \in Seq(E) /\ Len(put) = n + 1
      BY <2>4, <3>1, AppendProperties
    <3>3. (\A i \in 1..n : put[i] = a[i]) /\ put[n + 1] = second
      BY <2>4, <3>1, AppendProperties
    <3>4. n = 1
      BY <2>3
    <3> HIDE DEF n
    <3>5. put \in Seq(Events)
      BY <3>2 DEF E
    <3>6. Len(put) = 2
      BY <3>2, <3>4
    <3>7. put[1] = a[1]
      BY <3>3, <3>4
    <3>8. put[2] = second
      BY <3>3, <3>4
    <3>9. QED
      BY <2>3, <3>5, <3>6, <3>7, <3>8
  <2>6. DOMAIN put = {1, 2}
    BY <2>5
  <2>7. QED
    BY <2>1, <2>2, <2>5, <2>6
<1> HIDE DEF put
<1>5. after \in Streams
  BY <1>1, <1>3, StreamAssumption DEF Streams, Steps
<1>6. /\ stream' \in [Segments -> Streams]
      /\ \A r \in Segments \ {s} : stream'[r] = stream[r]
      /\ stream'[s] = after
  <2> HIDE DEF after
  <2>1. QED
    BY <1>1, <1>2, <1>5
<1>7. /\ Alone(s) /\ worker'[s].at = "recording" /\ worker'[s].state = pause
      /\ worker'[s].call = Call(s)
  BY <1>1, <1>2, <1>3, GoesWithFacts DEF Places, Running
<1>8. Moves(s, put)
  BY <1>2, <1>4, <1>6, <1>7 DEF Moves, Alone
<1>9. Ends(s, put) /\ Made(put)
  BY <1>2, <1>4, <1>7 DEF Ends, Made, At
<1>10. /\ Log(s) = <<>> /\ pause.events = filed.events /\ Covers(pause.events)
       /\ stream[s].emitted <= Len(pause.events)
       /\ \A r \in Segments : ~At(r, Running)
       /\ ~Unsent(1)
  BY <1>1, <1>2 DEF HandoverInv, LogInv, Unsent, At, Covers
<1>11. Len(pause.events) \in Nat /\ Len(<<>>) = 0 /\ DOMAIN <<>> = {}
  BY <1>3
<1>12. Emits(s, put)
  BY <1>1, <1>4, <1>6, <1>7, <1>10, <1>11 DEF Emits, Grows, IsRow
<1>13. Speaks(s, put)
  BY <1>1, <1>4, <1>7 DEF Speaks
<1>14. NodeInv(s)'
  BY <1>6, <1>7 DEF NodeInv, InNode, At, State
<1>15. HandoverInv' /\ LogInv'
  <2>1. Log(s)' = pause.events
    BY <1>7 DEF Log, State
  <2>2. worker'[s].at \in Running /\ ~Paused(pause')
    BY <1>2, <1>7 DEF Running, Paused, NoPause
  <2>3. \A r \in Segments : Agree(Log(s)', Log(r)) /\ Agree(Log(r), Log(s)')
    BY <1>1, <1>10, <2>1 DEF LogInv, Agree
  <2>4. Agree(Log(s)', filed.events)
    BY <1>10, <2>1 DEF Agree
  <2>5. QED
    BY <1>2, <1>6, <1>7, <1>10, <2>1, <2>2, <2>3, <2>4, RunTaken
<1>16. /\ pause' \in {NoPause} \cup Waiting
       /\ filed' \in [outcome : {"none", "paused", "terminal"}, events : Seq(Rows)]
  BY <1>1, <1>2 DEF TypeOK
<1>17. QED
  BY <1>8, <1>9, <1>12, <1>13, <1>14, <1>15, <1>16, ThreadStepWith

-----------------------------------------------------------------------------
(***************************************************************************)
(* The responses: opened, read and left.                                   *)
(***************************************************************************)
\* A response that is opened has nothing on its queue, its segment has made
\* no call yet, and what its message shows came before what it will send.
Readers == {"none", "reading", "ended", "stopped", "replaced"}

Opens(s) ==
    /\ At(s, {"idle"}) /\ Goes(s, "setup")
    /\ view' = view /\ pause' = pause /\ filed' = filed
    /\ stream' \in [Segments -> Streams] /\ reader' \in [Segments -> Readers]
    /\ message' \in [Segments -> Segments] /\ queue' \in [Segments -> Seq(Events)]
    /\ reader'[s] = "reading" /\ queue'[s] = queue[s] /\ message'[s] \in {1, s}
    /\ \A r \in Segments \ {s} :
          /\ stream'[r] = stream[r] /\ message'[r] = message[r]
          /\ \/ reader'[r] = reader[r] /\ queue'[r] = queue[r]
             \/ reader[r] = "reading" /\ reader'[r] = "replaced" /\ queue'[r] = <<>>
          /\ reader'[r] = "reading" => message[r] # message'[s]
    /\ \A m \in Segments : \A k \in DOMAIN view[m].timeline :
          IsRow(view[m].timeline[k]) => view[m].timeline[k].seq < stream'[s].emitted

LEMMA Opening ==
    ASSUME StreamInv, NEW s \in Segments, Opens(s), HandoverInv', LogInv'
    PROVE  StreamInv'
<1>1. /\ TypeOK /\ HandoverInv /\ FeedInv /\ PreviewHoldsNoDeadAttempt /\ CallsShownWhereMade
      /\ \A r \in Segments : /\ NodeInv(r) /\ RowsInv(r) /\ ScreenInv(r) /\ PiecesInv(r)
                             /\ OneCall(r) /\ Made(queue[r])
  BY DEF StreamInv, Made
<1>2. /\ Alone(s) /\ worker'[s].at = "setup"
      /\ worker'[s].state = State(s) /\ worker'[s].call = Call(s)
  BY <1>1, GoesFacts DEF Places, Opens
<1>3. reader[s] = "none" /\ queue[s] = <<>> /\ Call(s).number = 0
  BY <1>1 DEF TypeOK, QueueOK, HandoverInv, Unsent, At, Opens
<1>4. \A r \in Segments : Log(r)' = Log(r) /\ Call(r)' = Call(r)
  BY <1>2 DEF Alone, Log, State, Call
<1>5. ASSUME NEW r \in Segments, r # s
      PROVE  /\ worker'[r] = worker[r] /\ At(r, {"calling"})' = At(r, {"calling"})
             /\ stream'[r] = stream[r] /\ message'[r] = message[r]
             /\ \/ reader'[r] = reader[r] /\ queue'[r] = queue[r]
                \/ reader[r] = "reading" /\ reader'[r] = "replaced" /\ queue'[r] = <<>>
             /\ reader'[r] = "reading" => message[r] # message'[s]
  BY <1>2, <1>5 DEF Alone, At, Opens
<1>6. /\ DOMAIN <<>> = {} /\ view' = view
      /\ reader'[s] = "reading" /\ queue'[s] = <<>> /\ message'[s] \in {1, s}
  BY <1>3 DEF Opens
<1>7. TypeOK'
  <2>1. ASSUME NEW r \in Segments PROVE QueueOK(r)'
    <3>1. CASE r = s
      BY <1>2, <1>6, <3>1 DEF QueueOK, At
    <3>2. CASE r # s
      <4>1. QueueOK(r) /\ worker'[r] = worker[r]
        BY <1>1, <1>5, <3>2 DEF TypeOK
      <4>2. CASE reader'[r] = reader[r] /\ queue'[r] = queue[r]
        BY <4>1, <4>2 DEF QueueOK, At
      <4>3. CASE reader[r] = "reading" /\ reader'[r] = "replaced" /\ queue'[r] = <<>>
        BY <1>6, <4>1, <4>3 DEF QueueOK, At
      <4>4. QED
        BY <1>5, <3>2, <4>2, <4>3
    <3>3. QED
      BY <3>1, <3>2
  <2>2. ASSUME NEW r \in Segments
        PROVE  At(r, {"setup", "closed"})' \/ stream'[r].emitted <= Len(State(r)'.events)
    <3>1. CASE r = s
      BY <1>2, <3>1 DEF At
    <3>2. CASE r # s
      BY <1>1, <1>5, <3>2 DEF TypeOK, At, State
    <3>3. QED
      BY <3>1, <3>2
  <2>3. worker' \in [Segments -> Workers]
    BY <1>2 DEF Alone
  <2>4. QED
    BY <1>1, <2>1, <2>2, <2>3 DEF TypeOK, Opens, Readers
<1>8. FeedInv'
  <2>1. ASSUME NEW r \in Segments, r # s
        PROVE  message'[r] \in {1, r} /\ (reader'[r] = "reading" => reader[r] = "reading")
    BY <1>1, <1>5, <2>1 DEF FeedInv
  <2>2. ASSUME NEW r \in Segments, NEW q \in Segments, reader'[r] = "reading",
               reader'[q] = "reading", message'[r] = message'[q]
        PROVE  r = q
    <3>1. CASE r = s \/ q = s
      BY <1>5, <2>2, <3>1
    <3>2. CASE r # s /\ q # s
      BY <1>1, <1>5, <2>1, <2>2, <3>2 DEF FeedInv
    <3>3. QED
      BY <3>1, <3>2
  <2>3. QED
    BY <1>6, <2>1, <2>2 DEF FeedInv
<1>9. \A r \in Segments : NodeInv(r)'
  <2>1. NodeInv(s)'
    BY <1>2 DEF NodeInv, InNode, At
  <2>2. ASSUME NEW r \in Segments, r # s PROVE NodeInv(r)'
    <3>1. NodeInv(r) /\ worker'[r] = worker[r] /\ stream'[r] = stream[r]
      BY <1>1, <1>5, <2>2
    <3>2. QED
      BY <3>1 DEF NodeInv, InNode, At, State, Call, Log
  <2>3. QED
    BY <2>1, <2>2
<1>10. \A r \in Segments : RowsInv(r)'
  <2>1. RowsInv(s)'
    BY <1>6 DEF RowsInv, Opens
  <2>2. ASSUME NEW r \in Segments, r # s PROVE RowsInv(r)'
    <3>1. RowsInv(r) /\ Log(r)' = Log(r) /\ stream'[r] = stream[r] /\ message'[r] = message[r]
      BY <1>1, <1>4, <1>5, <2>2
    <3>2. CASE reader'[r] = reader[r] /\ queue'[r] = queue[r]
      BY <1>6, <3>1, <3>2 DEF RowsInv
    <3>3. CASE reader'[r] = "replaced" /\ queue'[r] = <<>>
      BY <1>6, <3>3 DEF RowsInv
    <3>4. QED
      BY <1>5, <2>2, <3>2, <3>3
  <2>3. QED
    BY <2>1, <2>2
<1>11. \A m \in Segments : ScreenInv(m)' /\ OneCall(m)'
  <2>1. ASSUME NEW m \in Segments PROVE OneCall(m)'
    BY <1>1, <1>6 DEF OneCall
  <2>2. ASSUME NEW m \in Segments PROVE ScreenInv(m)'
    BY <1>1, <1>4, <1>6 DEF ScreenInv
  <2>3. QED
    BY <2>1, <2>2
<1>12. \A r \in Segments : PiecesInv(r)'
  <2>1. PiecesInv(s)'
    <3>1. ASSUME NEW m \in Segments, NEW k \in DOMAIN view[m].streamed,
                 view[m].streamed[k][1] = s
          PROVE  FALSE
      <4>1. PiecesInv(s)
        BY <1>1
      <4>2. view[m].streamed[k][2] \in 1..0
        BY <1>3, <3>1, <4>1 DEF PiecesInv
      <4>3. QED
        BY <4>2
    <3>2. QED
      BY <1>6, <3>1 DEF PiecesInv
  <2>2. ASSUME NEW r \in Segments, r # s PROVE PiecesInv(r)'
    <3>1. /\ PiecesInv(r) /\ Call(r)' = Call(r) /\ At(r, {"calling"})' = At(r, {"calling"})
          /\ message'[r] = message[r]
      BY <1>1, <1>4, <1>5, <2>2
    <3>2. CASE reader'[r] = reader[r] /\ queue'[r] = queue[r]
      BY <1>6, <3>1, <3>2 DEF PiecesInv, AtStake, ResetIn
    <3>3. CASE reader'[r] = "replaced" /\ queue'[r] = <<>>
      BY <1>6, <3>1, <3>3 DEF PiecesInv
    <3>4. QED
      BY <1>5, <2>2, <3>2, <3>3
  <2>3. QED
    BY <2>1, <2>2
<1>13. \A r \in Segments : Made(queue[r])'
  <2>1. Made(queue[s])'
    BY <1>6 DEF Made
  <2>2. ASSUME NEW r \in Segments, r # s PROVE Made(queue[r])'
    BY <1>1, <1>5, <1>6, <2>2 DEF Made
  <2>3. QED
    BY <2>1, <2>2
<1>14. PreviewHoldsNoDeadAttempt' /\ CallsShownWhereMade'
  BY <1>1, <1>6 DEF PreviewHoldsNoDeadAttempt, CallsShownWhereMade
<1>15. QED
  BY <1>7, <1>8, <1>9, <1>10, <1>11, <1>12, <1>13, <1>14 DEF StreamInv, Made

LEMMA Asking ==
    ASSUME StreamInv, Ask
    PROVE  StreamInv'
<1>1. /\ TypeOK /\ HandoverInv /\ LogInv /\ FeedInv /\ 1 \in Segments
      /\ \A m \in Segments : ScreenInv(m)
  BY StreamAssumption DEF StreamInv
<1>2. /\ At(1, {"idle"}) /\ Goes(1, "setup") /\ reader' = [reader EXCEPT ![1] = "reading"]
      /\ UNCHANGED <<stream, queue, message, view, pause, filed>>
  BY DEF Ask, At, Filing
<1>3. /\ Alone(1) /\ worker'[1].at = "setup"
      /\ worker'[1].state = State(1) /\ worker'[1].call = Call(1)
  BY <1>1, <1>2, GoesFacts DEF Places
<1>4. /\ Unsent(1) /\ ~Paused(pause) /\ filed.events = <<>> /\ stream[1].emitted = 0
      /\ \A r \in Segments \ {1} : At(r, {"idle"}) /\ reader[r] = "none"
      /\ \A r \in Segments : Log(r) = <<>>
  BY <1>1, <1>2 DEF HandoverInv, Unsent, At, TypeOK, QueueOK
<1>5. ASSUME NEW r \in Segments
      PROVE  /\ Log(r)' = Log(r) /\ Call(r)' = Call(r) /\ ~At(r, Running)' /\ Unsent(r)
             /\ At(r, {"idle"})' => At(r, {"idle"})
             /\ r # 1 => At(r, {"idle"})'
  BY <1>3, <1>4 DEF Alone, Log, State, Call, At, Running, Unsent
<1>6. HandoverInv'
  BY <1>1, <1>2, <1>4, <1>5 DEF HandoverInv
<1>7. LogInv'
  BY <1>1, <1>2, <1>4, <1>5 DEF LogInv
<1>8. ASSUME NEW m \in Segments, NEW k \in DOMAIN view[m].timeline
      PROVE  ~IsRow(view[m].timeline[k])
  <2> SUFFICES ASSUME IsRow(view[m].timeline[k]) PROVE FALSE
    OBVIOUS
  <2> DEFINE row == view[m].timeline[k]
  <2>1. \E r \in Segments : row.seq < Len(Log(r))
    BY <1>1 DEF ScreenInv
  <2>2. row.seq \in Nat
    <3>1. view[m].timeline \in Seq(Timed)
      BY <1>1 DEF TypeOK, Views
    <3>2. row \in Timed
      BY <3>1
    <3>3. QED
      BY <3>2 DEF Timed, IsRow
  <2>3. Len(<<>>) = 0
    OBVIOUS
  <2>4. QED
    BY <1>4, <2>1, <2>2, <2>3
<1>9. reader' \in [Segments -> Readers]
  BY <1>1, <1>2 DEF TypeOK, Readers
<1>10. reader'[1] = "reading" /\ \A r \in Segments \ {1} : reader'[r] = "none"
  BY <1>1, <1>2, <1>4 DEF TypeOK
<1>11. message[1] \in {1, 1}
  BY <1>1 DEF FeedInv
<1>12. Opens(1)
  BY <1>1, <1>2, <1>4, <1>8, <1>9, <1>10, <1>11 DEF TypeOK, Opens
<1>13. QED
  BY <1>1, <1>6, <1>7, <1>12, Opening

LEMMA OpensDecision ==
    ASSUME StreamInv, NEW s \in Segments, OpenDecision(s)
    PROVE  StreamInv'
<1>1. /\ TypeOK /\ HandoverInv /\ LogInv /\ FeedInv /\ 1 \in Segments
      /\ \A m \in Segments : ScreenInv(m)
  BY StreamAssumption DEF StreamInv
<1>2. PICK m \in DecideFrom(s) :
        /\ message' = [message EXCEPT ![s] = m]
        /\ reader' = [r \in Segments |->
                        IF r = s THEN "reading"
                        ELSE IF m = 1 /\ message[r] = 1 /\ reader[r] = "reading"
                             THEN "replaced" ELSE reader[r]]
  BY DEF OpenDecision
<1>3. /\ s # 1 /\ At(s, {"idle"}) /\ Paused(pause) /\ Goes(s, "setup")
      /\ stream' = [stream EXCEPT ![s].emitted = Len(pause.events)]
      /\ queue' = [r \in Segments |-> IF reader'[r] = "replaced" THEN <<>> ELSE queue[r]]
      /\ UNCHANGED <<view, pause, filed>>
  BY DEF OpenDecision, AlreadySeen, Filing
<1>4. m \in {1, s}
  BY DEF DecideFrom
<1>5. /\ Alone(s) /\ worker'[s].at = "setup"
      /\ worker'[s].state = State(s) /\ worker'[s].call = Call(s)
  BY <1>1, <1>3, GoesFacts DEF Places
<1>6. /\ pause.events \in Seq(Rows) /\ Len(pause.events) \in Nat
  <2>1. pause \in States
    BY <1>1, <1>3 DEF TypeOK, Waiting, Paused, NoPause
  <2>2. pause.events \in Seq(Rows)
    BY <2>1 DEF States
  <2>3. QED
    BY <2>2
<1>7. /\ stream' \in [Segments -> Streams]
      /\ \A r \in Segments \ {s} : stream'[r] = stream[r]
      /\ stream'[s].emitted = Len(pause.events)
  <2> DEFINE sent == Len(pause.events)  after == [stream[s] EXCEPT !.emitted = sent]
  <2>1. stream \in [Segments -> Streams] /\ stream[s] \in Streams
    BY <1>1 DEF TypeOK
  <2>2. stream' = [stream EXCEPT ![s] = after]
    BY <1>3, <2>1
  <2>3. after \in Streams /\ after.emitted = sent
    BY <1>6, <2>1 DEF Streams
  <2> HIDE DEF after
  <2>4. QED
    BY <2>1, <2>2, <2>3
<1>8. /\ \A r \in Segments : ~At(r, Running)
      /\ ~Unsent(1) /\ Covers(pause.events) /\ pause.events = filed.events
      /\ Unsent(s) /\ reader[s] = "none" /\ queue[s] = <<>>
  BY <1>1, <1>3 DEF HandoverInv, LogInv, Unsent, At, TypeOK, QueueOK
<1>9. ASSUME NEW r \in Segments
      PROVE  /\ Log(r)' = Log(r) /\ Call(r)' = Call(r) /\ ~At(r, Running)'
             /\ Unsent(r)' = Unsent(r)
             /\ At(r, {"idle"})' => At(r, {"idle"}) /\ r # s
             /\ At(r, {"setup"})' => At(r, {"setup"}) \/ r = s
  BY <1>3, <1>5, <1>8 DEF Alone, Log, State, Call, At, Running, Unsent
<1>10. HandoverInv'
  <2>1. \A r \in Segments : /\ Unsent(r)' => Log(r)' = <<>> /\ Call(r)'.number = 0
                            /\ At(r, {"idle"})' => stream'[r].emitted = 0
    BY <1>1, <1>7, <1>9 DEF HandoverInv
  <2>2. QED
    BY <1>1, <1>8, <1>9, <2>1 DEF HandoverInv
<1>11. Covers(pause.events)'
  <2>1. ASSUME NEW r \in Segments, At(r, {"setup"})'
        PROVE  stream'[r].emitted <= Len(pause.events)
    BY <1>6, <1>7, <1>8, <1>9, <2>1 DEF Covers
  <2>2. QED
    BY <1>3, <1>8, <1>9, <2>1 DEF Covers
<1>12. LogInv'
  BY <1>1, <1>3, <1>8, <1>9, <1>11 DEF LogInv
<1>13. ASSUME NEW n \in Segments, NEW k \in DOMAIN view[n].timeline, IsRow(view[n].timeline[k])
       PROVE  view[n].timeline[k].seq < stream'[s].emitted
  <2> DEFINE row == view[n].timeline[k]
  <2>1. PICK r \in Segments : row.seq < Len(Log(r))
    BY <1>1, <1>13 DEF ScreenInv
  <2>2. row.seq \in Nat
    <3>1. view[n].timeline \in Seq(Timed)
      BY <1>1 DEF TypeOK, Views
    <3>2. row \in Timed
      BY <3>1
    <3>3. QED
      BY <1>13, <3>2 DEF Timed, IsRow
  <2>3. Len(Log(r)) \in Nat /\ Len(Log(r)) <= Len(pause.events)
    <3>1. Log(r) \in Seq(Rows)
      BY <1>1, WorkerTypes
    <3>2. QED
      BY <1>8, <3>1 DEF Covers
  <2>4. QED
    BY <1>6, <1>7, <2>1, <2>2, <2>3
<1>14. reader' \in [Segments -> Readers] /\ reader'[s] = "reading"
  BY <1>1, <1>2 DEF TypeOK, Readers
<1>15. message' \in [Segments -> Segments] /\ message'[s] = m
       /\ \A r \in Segments \ {s} : message'[r] = message[r]
  BY <1>1, <1>2, <1>4 DEF TypeOK
<1>16. queue' \in [Segments -> Seq(Events)] /\ queue'[s] = queue[s]
  BY <1>1, <1>3, <1>14 DEF TypeOK
<1>17. ASSUME NEW r \in Segments \ {s}
       PROVE  /\ \/ reader'[r] = reader[r] /\ queue'[r] = queue[r]
                 \/ reader[r] = "reading" /\ reader'[r] = "replaced" /\ queue'[r] = <<>>
              /\ reader'[r] = "reading" => message[r] # m
  <2>1. message[r] \in {1, r}
    BY <1>1 DEF FeedInv
  <2>2. reader'[r] = IF m = 1 /\ message[r] = 1 /\ reader[r] = "reading"
                     THEN "replaced" ELSE reader[r]
    BY <1>2
  <2>3. queue'[r] = IF reader'[r] = "replaced" THEN <<>> ELSE queue[r]
    BY <1>3
  <2>4. reader[r] # "reading" => queue[r] = <<>>
    BY <1>1 DEF TypeOK, QueueOK
  <2>5. QED
    BY <1>4, <2>1, <2>2, <2>3, <2>4
<1>18. Opens(s)
  BY <1>3, <1>4, <1>7, <1>13, <1>14, <1>15, <1>16, <1>17 DEF Opens
<1>19. QED
  BY <1>10, <1>12, <1>18, Opening

\* What a view makes of an event is a view: its timeline has one entry more,
\* or stays, or starts again.
LEMMA ReducedFacts ==
    ASSUME NEW v \in Views, NEW e \in Events
    PROVE  /\ Reduced(v, e) \in Views
           /\ e \in Timed => Reduced(v, e).timeline = Append(v.timeline, e)
           /\ e \notin Timed => Reduced(v, e).timeline \in {v.timeline, <<>>}
           /\ e.type = "token" => Reduced(v, e).streamed = Preview(v.streamed, e.piece)
           /\ e.type # "token" => Reduced(v, e).streamed \in {v.streamed, <<>>}
           /\ e.type = "reset" => Reduced(v, e).streamed = <<>>
<1> DEFINE kept == Before(v, e)
           status == IF e.type \in DOMAIN Status THEN Status[e.type] ELSE kept.status
           streamed == IF e.type = "token" THEN Preview(kept.streamed, e.piece)
                       ELSE IF e.type = "reset" THEN <<>> ELSE kept.streamed
           timeline == IF e.type \in {"row", "live", "step"} THEN Append(kept.timeline, e)
                       ELSE kept.timeline
           context == IF e.type = "context" THEN e.calls ELSE kept.context
           new == [status |-> status, streamed |-> streamed, timeline |-> timeline,
                   context |-> context]
<1>1. Reduced(v, e) = new
  BY DEF Reduced
<1>2. /\ v.status \in {"starting", "running", "paused", "done", "error"}
      /\ v.streamed \in Seq(Pieces) /\ v.timeline \in Seq(Timed) /\ v.context \in Seq(Steps)
  BY DEF Views
<1>3. /\ e.type \in {"row", "live", "step"} <=> e \in Timed
      /\ e.type = "token" => e.piece \in Pieces
      /\ e.type = "context" => e.calls \in Seq(Steps)
  BY EventFields
<1>4. /\ kept \in {v, InitialTurn}
      /\ e.type # "started" => kept = v
  BY DEF Before
<1>5. /\ kept.status \in {"starting", "running", "paused", "done", "error"}
      /\ kept.streamed \in Seq(Pieces) /\ kept.timeline \in Seq(Timed)
      /\ kept.context \in Seq(Steps)
      /\ kept.streamed \in {v.streamed, <<>>} /\ kept.timeline \in {v.timeline, <<>>}
  <2>1. CASE kept = v
    BY <1>2, <2>1
  <2>2. CASE kept = InitialTurn
    <3>1. /\ InitialTurn.status = "starting" /\ InitialTurn.streamed = <<>>
          /\ InitialTurn.timeline = <<>> /\ InitialTurn.context = <<>>
      BY DEF InitialTurn
    <3>2. <<>> \in Seq(Pieces) /\ <<>> \in Seq(Timed) /\ <<>> \in Seq(Steps)
      OBVIOUS
    <3>3. QED
      BY <2>2, <3>1, <3>2
  <2>3. QED
    BY <1>4, <2>1, <2>2
<1> HIDE DEF kept
<1>6. status \in {"starting", "running", "paused", "done", "error"}
  BY <1>5 DEF Status
<1>7. streamed \in Seq(Pieces)
  BY <1>3, <1>5 DEF Preview
<1>8. timeline \in Seq(Timed)
  <2>1. CASE e \in Timed
    <3> DEFINE T == Timed
    <3>1. kept.timeline \in Seq(T) /\ e \in T
      BY <1>5, <2>1
    <3> HIDE DEF T
    <3>2. Append(kept.timeline, e) \in Seq(T)
      BY <3>1
    <3>3. QED
      BY <1>5, <3>2 DEF T
  <2>2. CASE e \notin Timed
    BY <1>3, <1>5, <2>2
  <2>3. QED
    BY <2>1, <2>2
<1>9. context \in Seq(Steps)
  BY <1>3, <1>5
<1>10. /\ e \in Timed => timeline = Append(v.timeline, e)
       /\ e \notin Timed => timeline \in {v.timeline, <<>>}
       /\ e.type = "token" => streamed = Preview(v.streamed, e.piece)
       /\ e.type # "token" => streamed \in {v.streamed, <<>>}
       /\ e.type = "reset" => streamed = <<>>
  BY <1>3, <1>4, <1>5
<1> HIDE DEF status, streamed, timeline, context
<1>11. new \in Views
  BY <1>6, <1>7, <1>8, <1>9 DEF Views
<1>12. QED
  BY <1>1, <1>10, <1>11

\* A step of a response: threads and other responses stay, and its message
\* shows no piece of another segment that it did not show.
Reads(s) ==
    /\ reader[s] = "reading"
    /\ UNCHANGED <<worker, stream, message, pause, filed>>
    /\ queue' \in [Segments -> Seq(Events)] /\ reader' \in [Segments -> Readers]
    /\ view' \in [Segments -> Views]
    /\ \A r \in Segments \ {s} : queue'[r] = queue[r] /\ reader'[r] = reader[r]
    /\ \A m \in Segments \ {message[s]} : view'[m] = view[m]
    /\ LET old == view[message[s]].streamed
           new == view'[message[s]].streamed
       IN  \A i \in DOMAIN new : new[i][1] = s \/ \E k \in DOMAIN old : new[i] = old[k]

LEMMA OthersRead ==
    ASSUME StreamInv, NEW s \in Segments, Reads(s)
    PROVE  /\ HandoverInv' /\ LogInv' /\ FeedInv'
           /\ \A r \in Segments : NodeInv(r)'
           /\ \A r \in Segments \ {s} :
                 QueueOK(r)' /\ RowsInv(r)' /\ PiecesInv(r)' /\ Made(queue[r])'
           /\ \A m \in Segments \ {message[s]} : ScreenInv(m)' /\ OneCall(m)'
<1>1. /\ TypeOK /\ HandoverInv /\ LogInv /\ FeedInv
      /\ \A r \in Segments : /\ NodeInv(r) /\ RowsInv(r) /\ ScreenInv(r) /\ PiecesInv(r)
                             /\ OneCall(r) /\ Made(queue[r]) /\ QueueOK(r)
  BY DEF StreamInv, Made, TypeOK
<1>2. /\ worker' = worker /\ stream' = stream /\ message' = message /\ pause' = pause
      /\ filed' = filed /\ reader[s] = "reading"
  BY DEF Reads
<1>3. ASSUME NEW r \in Segments, r # s
      PROVE  queue'[r] = queue[r] /\ reader'[r] = reader[r]
  BY <1>3 DEF Reads
<1>4. \A m \in Segments : m # message[s] => view'[m] = view[m]
  BY DEF Reads
<1>5. HandoverInv' /\ LogInv'
  BY <1>1, <1>2 DEF HandoverInv, LogInv, Covers, Log, State, Call, At, Unsent
<1>6. FeedInv'
  BY <1>1, <1>2, <1>3 DEF FeedInv
<1>7. \A r \in Segments : NodeInv(r)'
  BY <1>1, <1>2 DEF NodeInv, InNode, At, State, Call, Log
<1>8. ASSUME NEW r \in Segments, r # s
      PROVE  reader[r] = "reading" => view'[message[r]] = view[message[r]]
  <2>1. reader[r] = "reading" => message[r] # message[s]
    BY <1>1, <1>2, <1>8 DEF FeedInv
  <2>2. message[r] \in Segments
    BY <1>1 DEF TypeOK
  <2>3. QED
    BY <1>4, <2>1, <2>2
<1>9. ASSUME NEW r \in Segments, r # s
      PROVE  QueueOK(r)' /\ RowsInv(r)' /\ Made(queue[r])'
  <2>1. QueueOK(r)'
    BY <1>1, <1>2, <1>3, <1>9 DEF QueueOK, At
  <2>2. RowsInv(r)'
    <3>1. RowsInv(r) /\ queue'[r] = queue[r] /\ reader'[r] = reader[r] /\ Log(r)' = Log(r)
      BY <1>1, <1>2, <1>3, <1>9 DEF Log, State
    <3>2. QED
      BY <1>2, <1>8, <1>9, <3>1 DEF RowsInv
  <2>3. Made(queue[r])'
    BY <1>1, <1>3, <1>9 DEF Made
  <2>4. QED
    BY <2>1, <2>2, <2>3
<1>10. ASSUME NEW r \in Segments, r # s PROVE PiecesInv(r)'
  <2>1. /\ PiecesInv(r) /\ queue'[r] = queue[r] /\ reader'[r] = reader[r]
        /\ Call(r)' = Call(r) /\ At(r, {"calling"})' = At(r, {"calling"})
    BY <1>1, <1>2, <1>3, <1>10 DEF Call, At
  <2>2. ASSUME NEW m \in Segments, NEW k \in DOMAIN view'[m].streamed,
               view'[m].streamed[k][1] = r
        PROVE  \E l \in DOMAIN view[m].streamed : view'[m].streamed[k] = view[m].streamed[l]
    <3>1. CASE m = message[s]
      <4>1. view'[m].streamed[k][1] # s
        BY <1>10, <2>2
      <4>2. QED
        BY <2>2, <3>1, <4>1 DEF Reads
    <3>2. CASE m # message[s]
      BY <1>4, <2>2, <3>2
    <3>3. QED
      BY <3>1, <3>2
  <2>3. ASSUME NEW m \in Segments, NEW k \in DOMAIN view'[m].streamed,
               view'[m].streamed[k][1] = r, m = message[r], reader[r] = "reading"
        PROVE  view'[m] = view[m]
    BY <1>8, <1>10, <2>3
  <2>4. ASSUME NEW m \in Segments, NEW k \in DOMAIN view'[m].streamed,
               view'[m].streamed[k][1] = r
        PROVE  view'[m].streamed[k][2] \in 1..Call(r).number
    BY <2>1, <2>2, <2>4 DEF PiecesInv
  <2>5. QED
    BY SMTT(40), <1>2, <2>1, <2>3, <2>4 DEF PiecesInv, AtStake, ResetIn
<1>11. ASSUME NEW m \in Segments, m # message[s] PROVE ScreenInv(m)' /\ OneCall(m)'
  <2>1. view'[m] = view[m] /\ \A r \in Segments : Log(r)' = Log(r)
    BY <1>2, <1>4, <1>11 DEF Log, State
  <2>2. OneCall(m)'
    BY <1>1, <2>1 DEF OneCall
  <2>3. ScreenInv(m)'
    BY <1>1, <2>1 DEF ScreenInv
  <2>4. QED
    BY <2>2, <2>3
<1>12. QED
  BY <1>5, <1>6, <1>7, <1>9, <1>10, <1>11

\* The parts of the invariant, each where a response's step keeps it.
LEMMA Collected ==
    ASSUME NEW s \in Segments, TypeOK', HandoverInv', LogInv', FeedInv',
           PreviewHoldsNoDeadAttempt', CallsShownWhereMade', \A r \in Segments : NodeInv(r)',
           \A r \in Segments \ {s} : RowsInv(r)' /\ PiecesInv(r)' /\ Made(queue[r])',
           RowsInv(s)', PiecesInv(s)', Made(queue[s])',
           NEW m \in Segments, ScreenInv(m)', OneCall(m)',
           \A n \in Segments \ {m} : ScreenInv(n)' /\ OneCall(n)'
    PROVE  StreamInv'
<1>1. ASSUME NEW r \in Segments
      PROVE  /\ NodeInv(r)' /\ RowsInv(r)' /\ ScreenInv(r)' /\ PiecesInv(r)' /\ OneCall(r)'
             /\ Made(queue[r])'
  <2>1. RowsInv(r)' /\ PiecesInv(r)' /\ Made(queue[r])'
    <3>1. CASE r = s
      BY <3>1
    <3>2. CASE r # s
      BY <3>2
    <3>3. QED
      BY <3>1, <3>2
  <2>2. ScreenInv(r)' /\ OneCall(r)'
    <3>1. CASE r = m
      BY <3>1
    <3>2. CASE r # m
      BY <3>2
    <3>3. QED
      BY <3>1, <3>2
  <2>3. QED
    BY <2>1, <2>2
<1>2. QED
  BY <1>1 DEF StreamInv, Made

\* The user leaves: nothing is on its way, and the page starts again.
LEMMA HangingUp ==
    ASSUME StreamInv, NEW s \in Segments, HangUp(s)
    PROVE  StreamInv'
<1>1. /\ TypeOK /\ PreviewHoldsNoDeadAttempt /\ CallsShownWhereMade
      /\ \A r \in Segments : PiecesInv(r) /\ QueueOK(r)
  BY DEF StreamInv, TypeOK
<1> PICK m \in Segments : m = message[s]
  BY <1>1 DEF TypeOK
<1>2. /\ UNCHANGED <<worker, stream, message, pause, filed>> /\ reader[s] = "reading"
      /\ reader' = [reader EXCEPT ![s] = "stopped"]
      /\ queue' = [queue EXCEPT ![s] = <<>>]
      /\ view' = [view EXCEPT ![m] = InitialTurn]
  BY DEF HangUp, Filing
<1>3. InitialTurn \in Views /\ InitialTurn.streamed = <<>> /\ InitialTurn.timeline = <<>>
      /\ DOMAIN <<>> = {} /\ <<>> \in Seq(Events)
  BY DEF InitialTurn, Views
<1>4. /\ queue'[s] = <<>> /\ reader'[s] = "stopped" /\ view'[m] = InitialTurn
      /\ \A n \in Segments : n # m => view'[n] = view[n]
  BY <1>1, <1>2 DEF TypeOK
<1>5. Reads(s)
  BY <1>1, <1>2, <1>3 DEF Reads, TypeOK, Readers
<1>6. /\ HandoverInv' /\ LogInv' /\ FeedInv' /\ \A r \in Segments : NodeInv(r)'
      /\ \A r \in Segments \ {s} :
            QueueOK(r)' /\ RowsInv(r)' /\ PiecesInv(r)' /\ Made(queue[r])'
      /\ \A n \in Segments \ {m} : ScreenInv(n)' /\ OneCall(n)'
  BY <1>5, OthersRead
<1>7. QueueOK(s)' /\ RowsInv(s)' /\ Made(queue[s])'
  BY <1>1, <1>2, <1>3, <1>4 DEF QueueOK, RowsInv, Made, At
<1>8. ScreenInv(m)' /\ OneCall(m)'
  <2>1. view'[m].timeline = <<>> /\ view'[m].streamed = <<>>
    BY <1>3, <1>4
  <2>2. (\A k \in DOMAIN view'[m].timeline : FALSE) /\ (\A k \in DOMAIN view'[m].streamed : FALSE)
    BY <1>3, <2>1
  <2>3. ScreenInv(m)'
    BY <2>2 DEF ScreenInv
  <2>4. OneCall(m)'
    BY <2>2 DEF OneCall
  <2>5. QED
    BY <2>3, <2>4
<1>9. PiecesInv(s)'
  <2>1. \A n \in Segments : \A k \in DOMAIN view'[n].streamed :
           view'[n].streamed[k][1] = s => view'[n].streamed[k][2] \in 1..Call(s).number
    BY <1>1, <1>3, <1>4 DEF PiecesInv
  <2>2. QED
    BY <1>2, <1>3, <1>4, <2>1 DEF PiecesInv, Call
<1>10. PreviewHoldsNoDeadAttempt' /\ CallsShownWhereMade'
  BY <1>1, <1>3, <1>4 DEF PreviewHoldsNoDeadAttempt, CallsShownWhereMade
<1>11. TypeOK'
  <2>1. \A r \in Segments : QueueOK(r)'
    BY <1>6, <1>7
  <2>2. /\ queue' \in [Segments -> Seq(Events)] /\ reader' \in [Segments -> Readers]
        /\ view' \in [Segments -> Views]
    BY <1>5 DEF Reads
  <2>3. QED
    BY <1>1, <1>2, <2>1, <2>2 DEF TypeOK, Readers, At, State
<1>12. QED
  BY <1>6, <1>7, <1>8, <1>9, <1>10, <1>11, Collected

\* What is left of a queue whose first event was written.
LEMMA Popped ==
    ASSUME TypeOK, NEW s \in Segments, queue[s] # <<>>,
           queue' = [queue EXCEPT ![s] = Tail(@)]
    PROVE  /\ queue' \in [Segments -> Seq(Events)]
           /\ \A r \in Segments \ {s} : queue'[r] = queue[r]
           /\ Head(queue[s]) \in Events /\ Head(queue[s]) = queue[s][1] /\ 1 \in DOMAIN queue[s]
           /\ Len(queue[s]) \in Nat /\ DOMAIN queue[s] = 1..Len(queue[s])
           /\ Len(queue'[s]) \in Nat /\ DOMAIN queue'[s] = 1..Len(queue'[s])
           /\ Len(queue[s]) = Len(queue'[s]) + 1
           /\ \A i \in DOMAIN queue'[s] :
                 /\ i \in Nat /\ i > 0
                 /\ i + 1 \in DOMAIN queue[s] /\ queue'[s][i] = queue[s][i + 1]
<1> DEFINE E == Events  q == queue[s]
<1>1. queue \in [Segments -> Seq(E)] /\ queue' = [queue EXCEPT ![s] = Tail(queue[s])]
  BY DEF TypeOK
<1>2. q \in Seq(E) /\ q # <<>>
  BY <1>1
<1> HIDE DEF E, q
<1>3. /\ Head(q) \in E /\ Tail(q) \in Seq(E) /\ Len(Tail(q)) = Len(q) - 1
      /\ \A i \in 1..Len(Tail(q)) : Tail(q)[i] = q[i + 1]
  BY <1>2, HeadTailProperties
<1>4. Len(q) \in Nat /\ Len(q) # 0 /\ DOMAIN q = 1..Len(q) /\ Head(q) = q[1]
  <2>1. Len(q) \in Nat /\ DOMAIN q = 1..Len(q) /\ Head(q) = q[1]
    BY <1>2
  <2>2. Len(q) # 0
    BY <1>2, EmptySeq
  <2>3. QED
    BY <2>1, <2>2
<1>5. Len(Tail(q)) \in Nat /\ DOMAIN Tail(q) = 1..Len(Tail(q))
  BY <1>3
<1>6. /\ queue' \in [Segments -> Seq(E)] /\ queue'[s] = Tail(q)
      /\ \A r \in Segments \ {s} : queue'[r] = queue[r]
  BY <1>1, <1>3 DEF q
<1> DEFINE n == Tail(q)  ln == Len(n)  lq == Len(q)
<1>7. /\ ln \in Nat /\ DOMAIN n = 1..ln /\ lq \in Nat /\ lq # 0 /\ DOMAIN q = 1..lq
      /\ ln = lq - 1 /\ \A i \in 1..ln : n[i] = q[i + 1]
  BY <1>3, <1>4, <1>5
<1> HIDE DEF n, ln, lq
<1>8. /\ lq = ln + 1 /\ 1 \in DOMAIN q
      /\ \A i \in DOMAIN n : i \in Nat /\ i > 0 /\ i + 1 \in DOMAIN q /\ n[i] = q[i + 1]
  BY <1>7
<1>9. queue' \in [Segments -> Seq(Events)] /\ Head(q) \in Events
  BY <1>3, <1>6 DEF E
<1>10. QED
  BY <1>4, <1>6, <1>7, <1>8, <1>9 DEF n, ln, lq, q

\* A reset on its way is still on its way, unless it was the one written.
LEMMA ResetsCome ==
    ASSUME TypeOK, NEW s \in Segments, queue[s] # <<>>,
           queue' = [queue EXCEPT ![s] = Tail(@)],
           NEW a \in Nat, a > 0, NEW b \in Nat, b + 1 \in DOMAIN queue[s]
    PROVE  /\ ResetIn(s, a + 1, b + 1) => ResetIn(s, a, b)'
           /\ queue[s][1].type # "reset" /\ ResetIn(s, 1, b + 1) => ResetIn(s, 1, b)'
<1> DEFINE q == queue[s]  n == queue'[s]  lq == Len(q)  ln == Len(n)
<1>1. /\ lq \in Nat /\ DOMAIN q = 1..lq /\ lq = ln + 1 /\ ln \in Nat /\ DOMAIN n = 1..ln
      /\ \A x \in DOMAIN n : n[x] = q[x + 1]
      /\ b + 1 \in DOMAIN q
  BY Popped
<1> HIDE DEF q, n, lq, ln
<1>2. ASSUME NEW c \in Nat, c > 0, NEW k \in (c + 1)..(b + 1), q[k].type = "reset"
      PROVE  \E x \in c..b : n[x].type = "reset"
  <2>1. k - 1 \in DOMAIN n /\ k - 1 \in c..b /\ (k - 1) + 1 = k
    BY <1>1, <1>2
  <2>2. n[k - 1].type = "reset"
    BY <1>1, <1>2, <2>1
  <2>3. QED
    BY <2>1, <2>2
<1>3. ASSUME ResetIn(s, a + 1, b + 1) PROVE ResetIn(s, a, b)'
  <2>1. \E k \in (a + 1)..(b + 1) : q[k].type = "reset"
    BY <1>3 DEF ResetIn, q
  <2>2. \E x \in a..b : n[x].type = "reset"
    BY <1>2, <2>1
  <2>3. QED
    BY <2>2 DEF ResetIn, n
<1>4. ASSUME q[1].type # "reset", ResetIn(s, 1, b + 1) PROVE ResetIn(s, 1, b)'
  <2>1. PICK k \in 1..(b + 1) : q[k].type = "reset"
    BY <1>4 DEF ResetIn, q
  <2>2. 1 \in Nat /\ 1 > 0 /\ k \in (1 + 1)..(b + 1) /\ q[k].type = "reset"
    BY <1>4, <2>1
  <2> HIDE <1>1, <1>3, <1>4, <2>1
  <2>3. \E x \in 1..b : n[x].type = "reset"
    BY <1>2, <2>2
  <2>4. QED
    BY <2>3 DEF ResetIn, n
<1>5. QED
  BY <1>3, <1>4 DEF q

LEMMA ShowingEnd ==
    ASSUME StreamInv, NEW s \in Segments, Show(s), Head(queue[s]).type = "end"
    PROVE  StreamInv'
<1>1. /\ TypeOK /\ PreviewHoldsNoDeadAttempt /\ CallsShownWhereMade
      /\ \A r \in Segments :
            PiecesInv(r) /\ QueueOK(r) /\ ScreenInv(r) /\ OneCall(r) /\ RowsInv(r)
  BY DEF StreamInv, TypeOK
<1> PICK m \in Segments : m = message[s]
  BY <1>1 DEF TypeOK
<1>2. /\ UNCHANGED <<worker, stream, message, view, pause, filed>> /\ reader[s] = "reading"
      /\ queue[s] # <<>> /\ queue' = [queue EXCEPT ![s] = Tail(@)]
      /\ reader' = [reader EXCEPT ![s] = "ended"]
  BY DEF Show, Filing
<1>3. /\ queue' \in [Segments -> Seq(Events)]
      /\ \A r \in Segments \ {s} : queue'[r] = queue[r]
      /\ Head(queue[s]) = queue[s][1] /\ 1 \in DOMAIN queue[s]
      /\ Len(queue'[s]) \in Nat /\ Len(queue[s]) = Len(queue'[s]) + 1
  BY <1>1, <1>2, Popped
<1>4. queue'[s] = <<>> /\ DOMAIN <<>> = {}
  <2>1. 1 = Len(queue[s])
    BY <1>1, <1>3 DEF QueueOK
  <2>2. Len(queue'[s]) = 0 /\ queue'[s] \in Seq(Events)
    BY <1>3, <2>1
  <2>3. QED
    BY <2>2, EmptySeq
<1>5. reader'[s] = "ended" /\ \A r \in Segments \ {s} : reader'[r] = reader[r]
  BY <1>1, <1>2 DEF TypeOK
<1>6. Reads(s)
  BY <1>1, <1>2, <1>3, <1>5 DEF Reads, TypeOK, Readers
<1>7. /\ HandoverInv' /\ LogInv' /\ FeedInv' /\ \A r \in Segments : NodeInv(r)'
      /\ \A r \in Segments \ {s} :
            QueueOK(r)' /\ RowsInv(r)' /\ PiecesInv(r)' /\ Made(queue[r])'
      /\ \A n \in Segments \ {m} : ScreenInv(n)' /\ OneCall(n)'
  BY <1>6, OthersRead
<1>8. QueueOK(s)' /\ RowsInv(s)' /\ Made(queue[s])'
  BY <1>1, <1>2, <1>4, <1>5 DEF QueueOK, RowsInv, Made, At
<1>9. ScreenInv(m)' /\ OneCall(m)'
  <2>1. OneCall(m)'
    BY <1>1, <1>2 DEF OneCall
  <2>2. ScreenInv(m) /\ view'[m] = view[m] /\ \A r \in Segments : Log(r)' = Log(r)
    BY <1>1, <1>2 DEF Log, State
  <2>3. ScreenInv(m)'
    BY <2>2 DEF ScreenInv
  <2>4. QED
    BY <2>1, <2>3
<1>10. PiecesInv(s)'
  <2>1. \A n \in Segments : \A k \in DOMAIN view[n].streamed :
           view[n].streamed[k][1] = s => view[n].streamed[k][2] \in 1..Call(s).number
    BY <1>1 DEF PiecesInv
  <2>2. QED
    BY <1>2, <1>4, <1>5, <2>1 DEF PiecesInv, Call
<1>11. PreviewHoldsNoDeadAttempt' /\ CallsShownWhereMade'
  BY <1>1, <1>2 DEF PreviewHoldsNoDeadAttempt, CallsShownWhereMade
<1>12. TypeOK'
  <2>1. \A r \in Segments : QueueOK(r)'
    BY <1>7, <1>8
  <2>2. reader' \in [Segments -> Readers]
    BY <1>6 DEF Reads
  <2>3. QED
    BY <1>1, <1>2, <1>3, <2>1, <2>2 DEF TypeOK, Readers, At, State
<1>13. QED
  BY <1>7, <1>8, <1>9, <1>10, <1>11, <1>12, Collected

\* The event a response writes goes into the view of its message.
Shows(s, m, e) ==
    /\ UNCHANGED <<worker, stream, message, reader, pause, filed>>
    /\ reader[s] = "reading" /\ message[s] = m /\ queue[s] # <<>>
    /\ queue' = [queue EXCEPT ![s] = Tail(@)]
    /\ e = queue[s][1] /\ e \in Events /\ e.type # "end"
    /\ view' = [view EXCEPT ![m] = Reduced(view[m], e)]

LEMMA Appended ==
    ASSUME NEW S, NEW a \in Seq(S), NEW x \in S
    PROVE  /\ Len(a) \in Nat
           /\ \A k \in DOMAIN Append(a, x) :
                 \/ k \in DOMAIN a /\ k <= Len(a) /\ Append(a, x)[k] = a[k]
                 \/ k = Len(a) + 1 /\ Append(a, x)[k] = x
<1>1. /\ Append(a, x) \in Seq(S) /\ Len(Append(a, x)) = Len(a) + 1
      /\ \A i \in 1..Len(a) : Append(a, x)[i] = a[i]
      /\ Append(a, x)[Len(a) + 1] = x
  BY AppendProperties
<1>2. Len(a) \in Nat /\ DOMAIN a = 1..Len(a) /\ DOMAIN Append(a, x) = 1..Len(Append(a, x))
  BY <1>1
<1> DEFINE l == Len(a)  b == Append(a, x)
<1>3. /\ l \in Nat /\ DOMAIN a = 1..l /\ DOMAIN b = 1..(l + 1)
      /\ \A i \in 1..l : b[i] = a[i]
      /\ b[l + 1] = x
  BY <1>1, <1>2
<1> HIDE DEF l, b
<1>4. \A k \in DOMAIN b : \/ k \in DOMAIN a /\ k <= l /\ b[k] = a[k]
                          \/ k = l + 1 /\ b[k] = x
  BY <1>3
<1>5. QED
  BY <1>2, <1>4 DEF l, b

\* An entry of the timeline was there, or is the event and comes last.
LEMMA TimelineGrows ==
    ASSUME TypeOK, NEW s \in Segments, NEW m \in Segments, NEW e, Shows(s, m, e)
    PROVE  LET old == view[m].timeline
               new == view'[m].timeline
           IN  /\ new \in Seq(Timed) /\ old \in Seq(Timed) /\ Len(old) \in Nat
               /\ \A k \in DOMAIN new :
                     \/ k \in DOMAIN old /\ k <= Len(old) /\ new[k] = old[k]
                     \/ k = Len(old) + 1 /\ new[k] = e /\ e \in Timed
<1> DEFINE old == view[m].timeline  new == view'[m].timeline
<1>1. e \in Events /\ view[m] \in Views /\ old \in Seq(Timed)
  BY DEF Shows, TypeOK, Views
<1>2. view'[m] = Reduced(view[m], e)
  BY DEF Shows, TypeOK
<1>3. /\ view'[m] \in Views
      /\ e \in Timed => new = Append(old, e)
      /\ e \notin Timed => new \in {old, <<>>}
  BY <1>1, <1>2, ReducedFacts
<1>4. new \in Seq(Timed)
  BY <1>3 DEF Views
<1> DEFINE T == Timed
<1>5. old \in Seq(T) /\ Len(old) \in Nat /\ DOMAIN old = 1..Len(old)
  BY <1>1
<1> HIDE DEF T, old, new
<1>6. \A k \in DOMAIN new : \/ k \in DOMAIN old /\ k <= Len(old) /\ new[k] = old[k]
                            \/ k = Len(old) + 1 /\ new[k] = e /\ e \in T
  <2>1. CASE e \in T
    BY <1>3, <1>5, <2>1, Appended DEF T
  <2>2. CASE new = old
    <3> DEFINE l == Len(old)
    <3>1. l \in Nat /\ DOMAIN old = 1..l
      BY <1>5
    <3> HIDE DEF l
    <3>2. \A k \in DOMAIN old : k <= l
      BY <3>1
    <3>3. QED
      BY <2>2, <3>2 DEF l
  <2>3. CASE new = <<>>
    <3>1. DOMAIN <<>> = {}
      OBVIOUS
    <3>2. QED
      BY <2>3, <3>1
  <2>4. QED
    BY <1>3, <2>1, <2>2, <2>3 DEF T
<1>7. QED
  BY <1>1, <1>4, <1>5, <1>6 DEF old, new, T

LEMMA RowsShown ==
    ASSUME StreamInv, NEW s \in Segments, NEW m \in Segments, NEW e, Shows(s, m, e)
    PROVE  RowsInv(s)' /\ ScreenInv(m)' /\ CallsShownWhereMade' /\ Made(queue[s])'
<1> DEFINE old == view[m].timeline  new == view'[m].timeline
           q == queue[s]  n == queue'[s]  sent == stream[s].emitted  log == Log(s)
           l == Len(old)
<1>1. /\ TypeOK /\ RowsInv(s) /\ ScreenInv(m) /\ CallsShownWhereMade /\ Made(q)
  BY DEF StreamInv, Made
<1>2. /\ UNCHANGED <<worker, stream, message, reader>> /\ reader[s] = "reading"
      /\ message[s] = m /\ e = q[1] /\ e \in Events
      /\ \A r \in Segments : Log(r)' = Log(r)
  BY DEF Shows, Log, State
<1>3. /\ 1 \in DOMAIN q
      /\ \A i \in DOMAIN n : i \in Nat /\ i > 0 /\ i + 1 \in DOMAIN q /\ n[i] = q[i + 1]
  <2>1. queue[s] # <<>> /\ queue' = [queue EXCEPT ![s] = Tail(@)]
    BY DEF Shows
  <2> HIDE DEF q, n
  <2>2. QED
    BY <1>1, <2>1, Popped DEF q, n
<1>4. /\ l \in Nat /\ DOMAIN new \subseteq Nat
      /\ \A k \in DOMAIN new : \/ k \in DOMAIN old /\ k <= l /\ new[k] = old[k]
                               \/ k = l + 1 /\ new[k] = e
  <2>1. new \in Seq(Timed)
    BY <1>1, TimelineGrows
  <2>2. DOMAIN new \subseteq Nat
    BY <2>1
  <2>3. QED
    BY <1>1, <2>2, TimelineGrows
<1>5. /\ \A i \in DOMAIN q : IsRow(q[i]) =>
            /\ q[i].seq < sent /\ q[i].seq < Len(log) /\ q[i].row = log[q[i].seq + 1]
            /\ \A j \in DOMAIN q : j > i /\ IsRow(q[j]) => q[i].seq < q[j].seq
      /\ \A k \in DOMAIN old : IsRow(old[k]) =>
            /\ old[k].seq < sent
            /\ \A i \in DOMAIN q : IsRow(q[i]) => old[k].seq < q[i].seq
  BY <1>1, <1>2 DEF RowsInv
<1> HIDE DEF old, new, q, n, sent, log, l
<1>6. \A k \in DOMAIN new : \/ k \in DOMAIN old /\ k <= l /\ new[k] = old[k]
                            \/ k = l + 1 /\ new[k] = q[1]
  BY <1>2, <1>4
<1>7. RowsInv(s)'
  <2>1. ASSUME NEW i \in DOMAIN n, IsRow(n[i])
        PROVE  /\ n[i].seq < sent /\ n[i].seq < Len(log) /\ n[i].row = log[n[i].seq + 1]
               /\ \A j \in DOMAIN n : j > i /\ IsRow(n[j]) => n[i].seq < n[j].seq
    <3>1. i + 1 \in DOMAIN q /\ n[i] = q[i + 1] /\ i \in Nat
      BY <1>3
    <3>2. ASSUME NEW j \in DOMAIN n, j > i, IsRow(n[j]) PROVE n[i].seq < n[j].seq
      <4>1. j + 1 \in DOMAIN q /\ n[j] = q[j + 1] /\ j + 1 > i + 1
        BY <1>3, <3>1, <3>2
      <4>2. QED
        BY <1>5, <2>1, <3>1, <3>2, <4>1
    <3>3. QED
      BY <1>5, <2>1, <3>1, <3>2
  <2>2. ASSUME NEW k \in DOMAIN new, IsRow(new[k])
        PROVE  /\ new[k].seq < sent
               /\ \A i \in DOMAIN n : IsRow(n[i]) => new[k].seq < n[i].seq
    <3>1. CASE k \in DOMAIN old /\ new[k] = old[k]
      BY <1>3, <1>5, <2>2, <3>1
    <3>2. CASE new[k] = q[1]
      <4>1. \A i \in DOMAIN n : i + 1 \in DOMAIN q /\ n[i] = q[i + 1] /\ i + 1 > 1
        BY <1>3
      <4>2. QED
        BY <1>3, <1>5, <2>2, <3>2, <4>1
    <3>3. QED
      BY <1>6, <3>1, <3>2
  <2>3. /\ n = queue'[s] /\ new = view'[message'[s]].timeline /\ sent = stream'[s].emitted
        /\ log = Log(s)'
    BY <1>2 DEF n, new, sent, log
  <2>4. QED
    BY <2>1, <2>2, <2>3 DEF RowsInv
<1>8. ScreenInv(m)'
  <2>1. \A k \in DOMAIN old : IsRow(old[k]) =>
          /\ \E r \in Segments : /\ old[k].seq < Len(Log(r))
                                 /\ old[k].row = Log(r)[old[k].seq + 1]
          /\ \A j \in DOMAIN old : j > k /\ IsRow(old[j]) => old[k].seq < old[j].seq
    BY <1>1 DEF ScreenInv, old
  <2>2. ASSUME NEW k \in DOMAIN new, IsRow(new[k])
        PROVE  \E r \in Segments : /\ new[k].seq < Len(Log(r))
                                   /\ new[k].row = Log(r)[new[k].seq + 1]
    <3>1. CASE k \in DOMAIN old /\ new[k] = old[k]
      BY <2>1, <2>2, <3>1
    <3>2. CASE new[k] = q[1]
      <4>1. new[k].seq < Len(log) /\ new[k].row = log[new[k].seq + 1]
        BY <1>3, <1>5, <2>2, <3>2
      <4>2. QED
        BY <4>1 DEF log
    <3>3. QED
      BY <1>6, <3>1, <3>2
  <2>3. ASSUME NEW k \in DOMAIN new, IsRow(new[k]), NEW j \in DOMAIN new, j > k, IsRow(new[j])
        PROVE  new[k].seq < new[j].seq
    <3>1. l \in Nat
      BY <1>4
    <3>2. k \in DOMAIN old /\ new[k] = old[k]
      <4>1. CASE k = l + 1
        <5>1. j \in Nat /\ (j <= l \/ j = l + 1)
          BY <1>4
        <5>2. QED
          BY <2>3, <3>1, <4>1, <5>1
      <4>2. QED
        BY <1>6, <4>1
    <3>3. CASE j \in DOMAIN old /\ new[j] = old[j]
      BY <2>1, <2>3, <3>2, <3>3
    <3>4. CASE new[j] = q[1]
      BY <1>3, <1>5, <2>3, <3>2, <3>4
    <3>5. QED
      BY <1>6, <3>3, <3>4
  <2>4. new = view'[m].timeline
    BY DEF new
  <2>5. QED
    BY <1>2, <2>2, <2>3, <2>4 DEF ScreenInv
<1>9. Made(queue[s])'
  BY <1>1, <1>3 DEF Made, n
<1>10. CallsShownWhereMade'
  <2>1. ASSUME NEW k \in DOMAIN new PROVE ShownWhereMade(new[k])
    <3>1. CASE k \in DOMAIN old /\ new[k] = old[k]
      BY <1>1, <3>1 DEF CallsShownWhereMade, old
    <3>2. CASE new[k] = q[1]
      BY <1>1, <1>3, <3>2 DEF Made
    <3>3. QED
      BY <1>6, <3>1, <3>2
  <2>2. \A o \in Segments : o # m => view'[o] = view[o]
    BY <1>1 DEF Shows, TypeOK
  <2>3. QED
    BY <1>1, <2>1, <2>2 DEF CallsShownWhereMade, new
<1>11. QED
  BY <1>7, <1>8, <1>9, <1>10

\* A piece of the preview was there, of the call that is heard now or with no
\* other heard since, or is the fragment of the event.
LEMMA StreamedGrows ==
    ASSUME TypeOK, NEW s \in Segments, NEW m \in Segments, NEW e, Shows(s, m, e)
    PROVE  LET old == view[m].streamed
               new == view'[m].streamed
           IN  /\ new \in Seq(Pieces)
               /\ \A k \in DOMAIN new :
                     \/ /\ \E i \in DOMAIN old : new[k] = old[i]
                        /\ e.type # "reset"
                        /\ e.type = "token" => \E j \in DOMAIN old : SameCall(old[j], e.piece)
                     \/ e.type = "token" /\ new[k] = e.piece
<1> DEFINE old == view[m].streamed  new == view'[m].streamed
<1>1. e \in Events /\ view[m] \in Views /\ old \in Seq(Pieces)
  BY DEF Shows, TypeOK, Views
<1>2. view'[m] = Reduced(view[m], e)
  BY DEF Shows, TypeOK
<1>3. /\ view'[m] \in Views
      /\ e.type = "token" => new = Preview(old, e.piece) /\ e.piece \in Pieces
      /\ e.type # "token" => new \in {old, <<>>}
      /\ e.type = "reset" => new = <<>>
  BY <1>1, <1>2, ReducedFacts, EventFields
<1>4. new \in Seq(Pieces) /\ DOMAIN <<>> = {}
  BY <1>3 DEF Views
<1> HIDE DEF old, new
<1>5. CASE e.type # "token"
  BY <1>3, <1>4, <1>5 DEF old, new
<1>6. CASE e.type = "token" /\ \E j \in DOMAIN old : SameCall(old[j], e.piece)
  <2>1. new = Append(old, e.piece) /\ e.piece \in Pieces
    BY <1>3, <1>6 DEF Preview
  <2>2. \A k \in DOMAIN new : (\E i \in DOMAIN old : new[k] = old[i]) \/ new[k] = e.piece
    BY <1>1, <2>1, Appended
  <2>3. QED
    BY <1>4, <1>6, <2>2 DEF old, new
<1>7. CASE e.type = "token" /\ ~\E j \in DOMAIN old : SameCall(old[j], e.piece)
  <2>1. new = <<e.piece>>
    BY <1>3, <1>7 DEF Preview
  <2>2. \A k \in DOMAIN new : new[k] = e.piece
    BY <2>1
  <2>3. QED
    BY <1>4, <1>7, <2>2 DEF old, new
<1>8. QED
  BY <1>5, <1>6, <1>7

LEMMA PiecesShown ==
    ASSUME StreamInv, NEW s \in Segments, NEW m \in Segments, NEW e, Shows(s, m, e)
    PROVE  PiecesInv(s)' /\ OneCall(m)' /\ PreviewHoldsNoDeadAttempt'
<1> DEFINE old == view[m].streamed  new == view'[m].streamed
           q == queue[s]  n == queue'[s]  lq == Len(q)  ln == Len(n)
           call == Call(s)
           Sent(a, b) == \E k \in a..b : n[k].type = "reset"
<1>1. TypeOK /\ PiecesInv(s) /\ OneCall(m) /\ PreviewHoldsNoDeadAttempt
  BY DEF StreamInv
<1>2. /\ UNCHANGED <<worker, stream, message, reader>> /\ reader[s] = "reading"
      /\ message[s] = m /\ e = q[1] /\ e \in Events
      /\ queue[s] # <<>> /\ queue' = [queue EXCEPT ![s] = Tail(@)]
  BY DEF Shows
<1>3. /\ 1 \in DOMAIN q /\ lq = ln + 1 /\ ln \in Nat /\ DOMAIN q = 1..lq /\ DOMAIN n = 1..ln
      /\ \A i \in DOMAIN n : i \in Nat /\ i > 0 /\ i + 1 \in DOMAIN q /\ n[i] = q[i + 1]
  <2>1. /\ 1 \in DOMAIN queue[s] /\ Len(queue[s]) = Len(queue'[s]) + 1 /\ Len(queue'[s]) \in Nat
        /\ DOMAIN queue[s] = 1..Len(queue[s]) /\ DOMAIN queue'[s] = 1..Len(queue'[s])
        /\ \A i \in DOMAIN queue'[s] :
              i \in Nat /\ i > 0 /\ i + 1 \in DOMAIN queue[s] /\ queue'[s][i] = queue[s][i + 1]
    BY <1>1, <1>2, Popped
  <2>2. QED
    BY <2>1
<1>4. \A k \in DOMAIN new :
         \/ /\ \E i \in DOMAIN old : new[k] = old[i]
            /\ e.type # "reset"
            /\ e.type = "token" => \E j \in DOMAIN old : SameCall(old[j], e.piece)
         \/ e.type = "token" /\ new[k] = e.piece
  BY <1>1, StreamedGrows
<1>5. /\ \A i \in DOMAIN q : q[i].type = "token" =>
            /\ q[i].piece[1] = s /\ q[i].piece[2] \in 1..call.number
            /\ AtStake(s, q[i].piece) => q[i].piece[3] = call.attempt \/ ResetIn(s, i, lq)
            /\ \A j \in DOMAIN q :
                  j > i /\ q[j].type = "token" /\ SameCall(q[i].piece, q[j].piece) =>
                     q[i].piece[3] = q[j].piece[3] \/ ResetIn(s, i, j)
      /\ \A o \in Segments : \A k \in DOMAIN view[o].streamed :
            view[o].streamed[k][1] = s => view[o].streamed[k][2] \in 1..call.number
      /\ \A k \in DOMAIN old : old[k][1] = s =>
            /\ AtStake(s, old[k]) => old[k][3] = call.attempt \/ ResetIn(s, 1, lq)
            /\ \A i \in DOMAIN q : q[i].type = "token" /\ SameCall(old[k], q[i].piece) =>
                  old[k][3] = q[i].piece[3] \/ ResetIn(s, 1, i)
  BY <1>1, <1>2 DEF PiecesInv
\* Where the resets are after the step.
<1>6. \A a \in Nat, b \in 0..ln : a > 0 /\ ResetIn(s, a + 1, b + 1) => Sent(a, b)
  <2>1. ASSUME NEW a \in Nat, NEW b \in 0..ln, a > 0, ResetIn(s, a + 1, b + 1)
        PROVE  ResetIn(s, a, b)'
    <3>1. b \in Nat /\ b + 1 \in DOMAIN q
      <4> HIDE DEF q, ln, lq
      <4>1. QED
        BY <1>3
    <3>2. QED
      BY <1>1, <1>2, <2>1, <3>1, ResetsCome
  <2>2. QED
    BY <2>1 DEF ResetIn
<1>7. \A b \in 0..ln : e.type # "reset" /\ ResetIn(s, 1, b + 1) => Sent(1, b)
  <2>1. ASSUME NEW b \in 0..ln, e.type # "reset", ResetIn(s, 1, b + 1)
        PROVE  ResetIn(s, 1, b)'
    <3>1. b \in Nat /\ b + 1 \in DOMAIN q
      <4> HIDE DEF q, ln, lq
      <4>1. QED
        BY <1>3
    <3>2. 1 \in Nat /\ 1 > 0
      OBVIOUS
    <3>3. QED
      BY <1>1, <1>2, <2>1, <3>1, <3>2, ResetsCome
  <2>2. QED
    BY <2>1 DEF ResetIn
<1>8. /\ n = queue'[s] /\ ln = Len(queue'[s]) /\ call = Call(s)'
      /\ \A x : AtStake(s, x)' = AtStake(s, x)
      /\ new = view'[message'[s]].streamed /\ reader'[s] = "reading" /\ message'[s] = m
      /\ \A a, b : ResetIn(s, a, b)' = Sent(a, b)
      /\ \A o \in Segments : o # m => view'[o] = view[o]
      /\ m \in Segments /\ new = view'[m].streamed
  BY <1>1, <1>2 DEF Call, AtStake, At, Shows, TypeOK, ResetIn
<1> HIDE DEF old, new, q, n, lq, ln, call, Sent
<1>9. ASSUME NEW i \in DOMAIN n, n[i].type = "token"
      PROVE  /\ n[i].piece[1] = s /\ n[i].piece[2] \in 1..call.number
             /\ AtStake(s, n[i].piece) => n[i].piece[3] = call.attempt \/ Sent(i, ln)
             /\ \A j \in DOMAIN n :
                   j > i /\ n[j].type = "token" /\ SameCall(n[i].piece, n[j].piece) =>
                      n[i].piece[3] = n[j].piece[3] \/ Sent(i, j)
  <2>1. i \in Nat /\ i > 0 /\ i + 1 \in DOMAIN q /\ n[i] = q[i + 1]
    BY <1>3
  <2>2. ASSUME AtStake(s, n[i].piece) PROVE n[i].piece[3] = call.attempt \/ Sent(i, ln)
    <3>1. n[i].piece[3] = call.attempt \/ ResetIn(s, i + 1, ln + 1)
      BY <1>3, <1>5, <1>9, <2>1, <2>2
    <3>2. ln \in 0..ln
      BY <1>3
    <3>3. QED
      BY <1>6, <2>1, <3>1, <3>2
  <2>3. ASSUME NEW j \in DOMAIN n, j > i, n[j].type = "token", SameCall(n[i].piece, n[j].piece)
        PROVE  n[i].piece[3] = n[j].piece[3] \/ Sent(i, j)
    <3>1. j \in Nat /\ j + 1 \in DOMAIN q /\ n[j] = q[j + 1] /\ j + 1 > i + 1 /\ j \in 0..ln
      BY <1>3, <2>1, <2>3
    <3>2. n[i].piece[3] = n[j].piece[3] \/ ResetIn(s, i + 1, j + 1)
      BY <1>5, <1>9, <2>1, <2>3, <3>1
    <3>3. QED
      BY <1>6, <2>1, <3>1, <3>2
  <2>4. QED
    BY <1>5, <1>9, <2>1, <2>2, <2>3
<1>10. ASSUME NEW k \in DOMAIN new, new[k][1] = s
       PROVE  /\ AtStake(s, new[k]) => new[k][3] = call.attempt \/ Sent(1, ln)
              /\ \A i \in DOMAIN n : n[i].type = "token" /\ SameCall(new[k], n[i].piece) =>
                    new[k][3] = n[i].piece[3] \/ Sent(1, i)
  <2> DEFINE x == new[k]
  <2>1. e.type # "reset"
    BY <1>4
  <2>2. /\ AtStake(s, x) => x[3] = call.attempt \/ ResetIn(s, 1, lq)
        /\ \A i \in DOMAIN q : i > 1 /\ q[i].type = "token" /\ SameCall(x, q[i].piece) =>
              x[3] = q[i].piece[3] \/ ResetIn(s, 1, i)
    <3>1. CASE \E i \in DOMAIN old : x = old[i]
      BY <1>5, <1>10, <3>1
    <3>2. CASE e.type = "token" /\ x = e.piece
      BY <1>2, <1>3, <1>5, <3>2
    <3>3. QED
      BY <1>4, <3>1, <3>2
  <2> HIDE DEF x
  <2>3. AtStake(s, x) => x[3] = call.attempt \/ Sent(1, ln)
    <3>1. ln \in 0..ln /\ lq = ln + 1
      BY <1>3
    <3>2. QED
      BY <1>7, <2>1, <2>2, <3>1
  <2>4. ASSUME NEW i \in DOMAIN n, n[i].type = "token", SameCall(x, n[i].piece)
        PROVE  x[3] = n[i].piece[3] \/ Sent(1, i)
    <3>1. i + 1 \in DOMAIN q /\ i + 1 > 1 /\ n[i] = q[i + 1] /\ i \in 0..ln
      BY <1>3
    <3>2. x[3] = n[i].piece[3] \/ ResetIn(s, 1, i + 1)
      BY <2>2, <2>4, <3>1
    <3>3. QED
      BY <1>7, <2>1, <3>1, <3>2
  <2>5. QED
    BY <2>3, <2>4 DEF x
<1>11. ASSUME NEW o \in Segments, NEW k \in DOMAIN view'[o].streamed, view'[o].streamed[k][1] = s
       PROVE  view'[o].streamed[k][2] \in 1..call.number
  <2>1. CASE o # m
    BY <1>5, <1>8, <1>11, <2>1
  <2>2. CASE o = m
    <3>1. k \in DOMAIN new /\ view'[o].streamed[k] = new[k]
      BY <1>8, <1>11, <2>2
    <3>2. CASE \E i \in DOMAIN old : new[k] = old[i]
      BY <1>5, <1>8, <1>11, <3>1, <3>2 DEF old
    <3>3. CASE e.type = "token" /\ new[k] = e.piece
      BY <1>2, <1>3, <1>5, <3>1, <3>3
    <3>4. QED
      BY <1>4, <3>1, <3>2, <3>3
  <2>3. QED
    BY <2>1, <2>2
<1>12. PiecesInv(s)'
  BY SMTT(40), <1>8, <1>9, <1>10, <1>11 DEF PiecesInv
<1>13. OneCall(m)'
  <2>1. \A i, j \in DOMAIN old : SameCall(old[i], old[j])
    BY <1>1 DEF OneCall, old
  <2>2. ASSUME NEW i \in DOMAIN new, NEW j \in DOMAIN new PROVE SameCall(new[i], new[j])
    BY <1>4, <2>1 DEF SameCall
  <2>3. QED
    BY <1>8, <2>2 DEF OneCall
<1>14. PreviewHoldsNoDeadAttempt'
  <2>1. \A i, j \in DOMAIN old : SameCall(old[i], old[j]) => old[i][3] = old[j][3]
    BY <1>1 DEF PreviewHoldsNoDeadAttempt, SameCall, old
  <2>2. ASSUME e.type = "token", NEW i \in DOMAIN old, SameCall(old[i], e.piece)
        PROVE  old[i][3] = e.piece[3]
    <3>1. e.piece[1] = s /\ old[i][1] = s
      BY <1>2, <1>3, <1>5, <2>2 DEF SameCall
    <3>2. old[i][3] = e.piece[3] \/ ResetIn(s, 1, 1)
      BY <1>2, <1>3, <1>5, <2>2, <3>1
    <3>3. ~ResetIn(s, 1, 1)
      BY <1>2, <2>2 DEF ResetIn, q
    <3>4. QED
      BY <3>2, <3>3
  <2>3. ASSUME NEW i \in DOMAIN new, NEW j \in DOMAIN new, SameCall(new[i], new[j])
        PROVE  new[i][3] = new[j][3]
    BY <1>4, <2>1, <2>2, <2>3 DEF SameCall
  <2>4. \A o \in Segments : \A i, j \in DOMAIN view'[o].streamed :
           SameCall(view'[o].streamed[i], view'[o].streamed[j]) =>
              view'[o].streamed[i][3] = view'[o].streamed[j][3]
    BY <1>1, <1>8, <2>3 DEF PreviewHoldsNoDeadAttempt, SameCall
  <2>5. QED
    BY <2>4 DEF PreviewHoldsNoDeadAttempt, SameCall
<1>15. QED
  BY <1>12, <1>13, <1>14

LEMMA ShowingEvent ==
    ASSUME StreamInv, NEW s \in Segments, Show(s), Head(queue[s]).type # "end"
    PROVE  StreamInv'
<1> DEFINE e == Head(queue[s])
<1>1. TypeOK /\ QueueOK(s)
  BY DEF StreamInv, TypeOK
<1> PICK m \in Segments : m = message[s]
  BY <1>1 DEF TypeOK
<1>2. queue[s] # <<>> /\ queue' = [queue EXCEPT ![s] = Tail(@)] /\ reader[s] = "reading"
  BY DEF Show
<1>3. /\ queue' \in [Segments -> Seq(Events)]
      /\ \A r \in Segments \ {s} : queue'[r] = queue[r]
      /\ e \in Events /\ e = queue[s][1]
      /\ Len(queue[s]) = Len(queue'[s]) + 1 /\ Len(queue'[s]) \in Nat
      /\ \A i \in DOMAIN queue'[s] :
            i \in Nat /\ i + 1 \in DOMAIN queue[s] /\ queue'[s][i] = queue[s][i + 1]
  BY <1>1, <1>2, Popped
<1>4. Shows(s, m, e)
  BY <1>2, <1>3 DEF Show, Shows, Filing
<1>5. /\ RowsInv(s)' /\ ScreenInv(m)' /\ CallsShownWhereMade' /\ Made(queue[s])'
      /\ PiecesInv(s)' /\ OneCall(m)' /\ PreviewHoldsNoDeadAttempt'
  BY <1>4, RowsShown, PiecesShown
<1>6. UNCHANGED <<worker, stream, message, reader, pause, filed>>
  BY <1>4 DEF Shows
<1>7. Reads(s)
  <2>1. view[m] \in Views /\ view' = [view EXCEPT ![m] = Reduced(view[m], e)]
    BY <1>1, <1>4 DEF TypeOK, Shows
  <2>2. Reduced(view[m], e) \in Views
    BY <1>3, <2>1, ReducedFacts
  <2> HIDE DEF e
  <2>3. /\ view' \in [Segments -> Views]
        /\ \A o \in Segments \ {m} : view'[o] = view[o]
    BY <1>1, <2>1, <2>2 DEF TypeOK
  <2>4. \A i \in DOMAIN view'[m].streamed :
           \/ \E k \in DOMAIN view[m].streamed : view'[m].streamed[i] = view[m].streamed[k]
           \/ e.type = "token" /\ view'[m].streamed[i] = e.piece
    BY <1>1, <1>4, StreamedGrows
  <2>5. e.type = "token" => e.piece[1] = s
    <3>1. PiecesInv(s) /\ 1 \in DOMAIN queue[s]
      BY <1>1, <1>2, Popped DEF StreamInv
    <3>2. QED
      BY <1>3, <3>1 DEF PiecesInv
  <2>6. reader' \in [Segments -> Readers]
    BY <1>1, <1>6 DEF TypeOK, Readers
  <2>7. QED
    BY <1>2, <1>3, <1>6, <2>3, <2>4, <2>5, <2>6 DEF Reads
<1>8. /\ HandoverInv' /\ LogInv' /\ FeedInv' /\ \A r \in Segments : NodeInv(r)'
      /\ \A r \in Segments \ {s} :
            QueueOK(r)' /\ RowsInv(r)' /\ PiecesInv(r)' /\ Made(queue[r])'
      /\ \A n \in Segments \ {m} : ScreenInv(n)' /\ OneCall(n)'
  BY <1>7, OthersRead
<1>9. QueueOK(s)'
  <2> DEFINE n == queue'[s]  ln == Len(n)
  <2>1. ASSUME NEW i \in DOMAIN n, n[i].type = "end" PROVE i = ln /\ At(s, {"closed"})
    <3>1. /\ i \in Nat /\ i + 1 \in DOMAIN queue[s] /\ queue[s][i + 1].type = "end"
          /\ Len(queue[s]) = ln + 1 /\ ln \in Nat
      BY <1>3, <2>1
    <3>2. i + 1 = Len(queue[s]) /\ At(s, {"closed"})
      BY <1>1, <3>1 DEF QueueOK
    <3> HIDE DEF ln
    <3>3. QED
      BY <3>1, <3>2
  <2>2. QED
    BY <1>1, <1>2, <1>6, <2>1 DEF QueueOK, At
<1>10. TypeOK'
  <2>1. \A r \in Segments : QueueOK(r)'
    BY <1>8, <1>9
  <2>2. view' \in [Segments -> Views]
    BY <1>7 DEF Reads
  <2>3. QED
    BY <1>1, <1>3, <1>6, <2>1, <2>2 DEF TypeOK, At, State
<1>11. QED
  BY <1>5, <1>8, <1>10, Collected

-----------------------------------------------------------------------------
LEMMA InitEstablishes ==
    ASSUME Init
    PROVE  StreamInv
<1>1. 1 \in Segments /\ 0 \in Steps /\ 0 \in 0..MaxAttempts /\ 0 \in 0..MaxQueries
  BY StreamAssumption DEF Steps
<1>2. /\ DOMAIN <<>> = {} /\ Len(<<>>) = 0 /\ <<>> \in Seq(Rows) /\ <<>> \in Seq(Steps)
      /\ <<>> \in Seq(Events) /\ <<>> \in Seq(Pieces) /\ <<>> \in Seq(Timed)
  OBVIOUS
<1>3. Fresh \in States /\ NoCall \in Calls /\ NewStream \in Streams /\ InitialTurn \in Views
  BY <1>1, <1>2 DEF Fresh, States, Nodes, NoCall, Calls, NewStream, Streams, InitialTurn, Views
<1>4. NewWorker \in Workers
  BY <1>1, <1>3 DEF NewWorker, Workers, Places
<1>5. ASSUME NEW s \in Segments
      PROVE  /\ worker[s].at = "idle" /\ Log(s) = <<>> /\ Call(s).number = 0
             /\ stream[s].emitted = 0 /\ queue[s] = <<>> /\ reader[s] = "none"
             /\ message[s] = s /\ view[s].timeline = <<>> /\ view[s].streamed = <<>>
  BY DEF Init, NewWorker, NewStream, Log, State, Fresh, Call, NoCall, InitialTurn
<1>6. pause = NoPause /\ filed.events = <<>> /\ ~Paused(pause)
  BY DEF Init, NoPause, Paused
<1>7. TypeOK
  <2>1. \A s \in Segments : QueueOK(s)
    BY <1>2, <1>5 DEF QueueOK, At
  <2>2. \A s \in Segments : stream[s].emitted <= Len(State(s).events)
    BY <1>2, <1>5 DEF Log
  <2>3. filed \in [outcome : {"none", "paused", "terminal"}, events : Seq(Rows)]
    BY <1>2 DEF Init
  <2>4. QED
    BY <1>2, <1>3, <1>4, <2>1, <2>2, <2>3 DEF TypeOK, Init
<1>8. HandoverInv
  BY <1>1, <1>5, <1>6 DEF HandoverInv, At, Unsent, Running
<1>9. LogInv
  BY <1>2, <1>5, <1>6 DEF LogInv, Agree, At, Running
<1>10. FeedInv
  BY <1>5 DEF FeedInv
<1>11. ASSUME NEW s \in Segments
       PROVE  /\ NodeInv(s) /\ RowsInv(s) /\ ScreenInv(s) /\ PiecesInv(s) /\ OneCall(s)
              /\ Made(queue[s])
  <2>1. NodeInv(s)
    BY <1>5 DEF NodeInv, InNode, At
  <2>2. RowsInv(s) /\ Made(queue[s])
    BY <1>2, <1>5 DEF RowsInv, Made
  <2>3. ScreenInv(s) /\ OneCall(s)
    BY <1>2, <1>5 DEF ScreenInv, OneCall
  <2>4. PiecesInv(s)
    BY <1>2, <1>5 DEF PiecesInv
  <2>5. QED
    BY <2>1, <2>2, <2>3, <2>4
<1>12. PreviewHoldsNoDeadAttempt /\ CallsShownWhereMade
  BY <1>2, <1>5 DEF PreviewHoldsNoDeadAttempt, CallsShownWhereMade
<1>13. QED
  BY <1>7, <1>8, <1>9, <1>10, <1>11, <1>12 DEF StreamInv, Made

LEMMA TurnKeeps ==
    ASSUME StreamInv, NEW s \in Segments, Turn(s)
    PROVE  StreamInv'
BY Closed, Beginning, Introducing, Speaking, Retrying, Declaring, CallEnding, Entering,
   Exhausting, Stopping, Deciding, Gating, Searching, Retrieving, Leaving, Consolidating,
   FilesRun, Flushing, Claiming, LosingClaim, Recording, Denying DEF Turn

LEMMA NextKeeps ==
    ASSUME StreamInv, [Next]_vars
    PROVE  StreamInv'
<1>1. CASE Ask
  BY <1>1, Asking
<1>2. ASSUME NEW s \in Segments, Turn(s) \/ OpenDecision(s) \/ Show(s) \/ HangUp(s)
      PROVE  StreamInv'
  BY <1>2, TurnKeeps, OpensDecision, ShowingEnd, ShowingEvent, HangingUp
<1>3. CASE UNCHANGED vars
  <2>1. /\ UNCHANGED <<worker, stream, queue, reader, message, view, pause, filed>>
        /\ TypeOK /\ HandoverInv /\ LogInv /\ FeedInv
        /\ PreviewHoldsNoDeadAttempt /\ CallsShownWhereMade
    BY <1>3 DEF vars, StreamInv
  <2>2. TypeOK'
    BY <2>1 DEF TypeOK, QueueOK, At, State
  <2>3. HandoverInv' /\ FeedInv'
    BY <2>1 DEF HandoverInv, FeedInv, At, Unsent, Log, State, Call
  <2>4. LogInv'
    BY <2>1 DEF LogInv, Covers, Log, State, At
  <2>5. ASSUME NEW s \in Segments
        PROVE  /\ NodeInv(s)' /\ RowsInv(s)' /\ ScreenInv(s)' /\ PiecesInv(s)' /\ OneCall(s)'
               /\ Made(queue[s])'
    <3>1. /\ NodeInv(s) /\ RowsInv(s) /\ ScreenInv(s) /\ PiecesInv(s) /\ OneCall(s)
          /\ Made(queue[s])
      BY DEF StreamInv, Made
    <3>2. NodeInv(s)'
      BY <2>1, <3>1 DEF NodeInv, InNode, At, State, Call, Log
    <3>3. RowsInv(s)' /\ OneCall(s)' /\ Made(queue[s])'
      BY <2>1, <3>1 DEF RowsInv, OneCall, Made, Log, State
    <3>4. ScreenInv(s)'
      BY <2>1, <3>1 DEF ScreenInv, Log, State
    <3>5. PiecesInv(s)'
      BY <2>1, <3>1 DEF PiecesInv, AtStake, ResetIn, At, Call
    <3>6. QED
      BY <3>2, <3>3, <3>4, <3>5
  <2>6. PreviewHoldsNoDeadAttempt' /\ CallsShownWhereMade'
    BY <2>1 DEF PreviewHoldsNoDeadAttempt, CallsShownWhereMade
  <2>7. QED
    BY <2>2, <2>3, <2>4, <2>5, <2>6 DEF StreamInv, Made
<1>4. QED
  BY <1>1, <1>2, <1>3 DEF Next

\* Everything below holds because this does, whatever the threads, the
\* readers and the approvers do (web/service.py, web/stream.py).
THEOREM StreamInvariant == Spec => []StreamInv
<1>1. Init => StreamInv
  BY InitEstablishes
<1>2. StreamInv /\ [Next]_vars => StreamInv'
  BY NextKeeps
<1>3. QED
  BY <1>1, <1>2, PTL DEF Spec

\* Every queue is in order for every number of segments: the sentinel comes
\* last and once its thread is done, only a live reader has events, and no row
\* is sent that the state does not hold (web/stream.py: close, step).
THEOREM TypeCorrect == Spec => []TypeOK
<1>1. StreamInv => TypeOK
  BY DEF StreamInv
<1>2. QED
  BY <1>1, StreamInvariant, PTL

\* However many attempts a call takes and however far the browser is behind,
\* the preview never runs two attempts together (llm/gateway.py).
THEOREM DeadAttemptsGone == Spec => []PreviewHoldsNoDeadAttempt
<1>1. StreamInv => PreviewHoldsNoDeadAttempt
  BY DEF StreamInv
<1>2. QED
  BY <1>1, StreamInvariant, PTL

\* Every call, search and gateway row is shown under the node it was made in,
\* in a first segment as in a resumed one (web/stream.py).
THEOREM CallsBelong == Spec => []CallsShownWhereMade
<1>1. StreamInv => CallsShownWhereMade
  BY DEF StreamInv
<1>2. QED
  BY <1>1, StreamInvariant, PTL

\* What a screen shows of a trace agrees with what is filed of it.
LEMMA RowsFollow == ASSUME StreamInv PROVE RowsAreTheRecord
<1> SUFFICES ASSUME NEW m \in Segments, NEW i \in DOMAIN view[m].timeline,
                    view[m].timeline[i].type = "row"
             PROVE  /\ view[m].timeline[i].seq < Len(Report.events) =>
                         view[m].timeline[i].row = Report.events[view[m].timeline[i].seq + 1]
                    /\ \A j \in DOMAIN view[m].timeline :
                          j > i /\ view[m].timeline[j].type = "row" =>
                             view[m].timeline[i].seq < view[m].timeline[j].seq
  BY DEF RowsAreTheRecord
<1> DEFINE shown == view[m].timeline[i]
<1>1. TypeOK /\ LogInv /\ ScreenInv(m)
  BY DEF StreamInv
<1>2. shown.seq \in Nat
  <2>1. view[m].timeline \in Seq(Timed)
    BY <1>1 DEF TypeOK, Views
  <2>2. shown \in Timed
    BY <2>1
  <2>3. QED
    BY <2>2 DEF Timed
<1>3. PICK s \in Segments : shown.seq < Len(Log(s)) /\ shown.row = Log(s)[shown.seq + 1]
  BY <1>1 DEF ScreenInv, IsRow
<1>4. Log(s) \in Seq(Rows) /\ filed.events \in Seq(Rows) /\ Agree(Log(s), filed.events)
  BY <1>1, WorkerTypes DEF TypeOK, LogInv
<1>5. shown.seq < Len(filed.events) => shown.row = filed.events[shown.seq + 1]
  <2> DEFINE a == Log(s)  b == filed.events  la == Len(a)  lb == Len(b)
  <2>1. la \in Nat /\ lb \in Nat /\ DOMAIN a = 1..la /\ DOMAIN b = 1..lb
    BY <1>4
  <2>2. shown.seq < la /\ shown.row = a[shown.seq + 1] /\ Agree(a, b)
    BY <1>3, <1>4
  <2> HIDE DEF a, b, la, lb, shown
  <2>3. ASSUME shown.seq < lb PROVE shown.row = b[shown.seq + 1]
    <3>1. shown.seq + 1 \in DOMAIN a /\ shown.seq + 1 \in DOMAIN b
      BY <1>2, <2>1, <2>2, <2>3
    <3>2. QED
      BY <2>2, <3>1 DEF Agree
  <2>4. QED
    BY <2>3 DEF b, lb
<1>6. QED
  BY <1>1, <1>5 DEF ScreenInv, IsRow, Report

\* A message shows each row of the run once, in order, and as it was filed,
\* over every pause and decision and whichever screen shows it.
THEOREM RowsFollowTheRecord == Spec => []RowsAreTheRecord
<1>1. StreamInv => RowsAreTheRecord
  BY RowsFollow
<1>2. QED
  BY <1>1, StreamInvariant, PTL
=============================================================================
