-------------------------- MODULE RunApprovalProofs --------------------------
(***************************************************************************)
(* What RunApproval guarantees for every number of segments and every set  *)
(* of approvers, whatever crashes.                                         *)
(***************************************************************************)
EXTENDS RunApproval, TLAPS

Rows == [status : {"pending", "resolved"}, decision : {"none", "approved", "denied"}]

Active == {"running", "ran", "filed"}

(***************************************************************************)
(* What the invariant says about the line of segments.                     *)
(***************************************************************************)
\* Rows are numbered, and every pause is that of a segment with a successor.
LEMMA RowFacts ==
    ASSUME RunInv
    PROVE  /\ pauses \in Seq(Rows) /\ Len(pauses) \in Nat
           /\ DOMAIN pauses = 1..Len(pauses)
           /\ \A k \in DOMAIN pauses :
                /\ k \in Segments /\ k + 1 \in Segments /\ k < MaxSegments
                /\ pauses[k] \in Rows
<1>1. pauses \in Seq(Rows)
  BY DEF RunInv, TypeOK, Rows
<1>2. Len(pauses) \in Nat /\ DOMAIN pauses = 1..Len(pauses)
  BY <1>1
<1>3. ASSUME NEW k \in DOMAIN pauses
      PROVE  k \in Segments /\ k + 1 \in Segments /\ k < MaxSegments /\ pauses[k] \in Rows
  <2>1. k \in Segments
    BY <1>1, <1>2, RunAssumption DEF RunInv, TypeOK, Segments
  <2>2. ending[k] = "paused"
    BY DEF RunInv, ChainInv
  <2>3. k < MaxSegments
    BY <2>1, <2>2 DEF RunInv, EndingInv
  <2>4. QED
    BY <1>1, <1>2, <2>1, <2>3, RunAssumption DEF Segments
<1>4. QED
  BY <1>1, <1>2, <1>3

\* An unfinished segment is the one after the last pause.
LEMMA ActiveIsLast ==
    ASSUME RunInv, NEW k \in Segments, stage[k] \in Active
    PROVE  k = Len(pauses) + 1 /\ k \notin DOMAIN pauses
<1>1. k \notin DOMAIN pauses
  BY DEF RunInv, ChainInv, Active
<1>2. k = 1 \/ k - 1 \in DOMAIN pauses
  BY DEF RunInv, ChainInv, Active, Settled, Segments
<1>3. QED
  BY <1>1, <1>2, RowFacts, RunAssumption DEF Segments

\* While a segment is unfinished no human is asked.
LEMMA ActiveMeansNothingPends ==
    ASSUME RunInv, NEW k \in Segments, stage[k] \in Active
    PROVE  Pending = {}
<1>1. SUFFICES ASSUME NEW j \in Pending PROVE FALSE
  OBVIOUS
<1>2. j \in DOMAIN pauses /\ pauses[j].status = "pending" /\ j >= Len(pauses)
  BY RowFacts DEF Pending, RunInv, QueueInv
<1>3. k = j + 1 /\ k > 1 /\ k - 1 = j
  BY <1>2, ActiveIsLast, RowFacts, RunAssumption DEF Segments
<1>4. Settled(j)
  BY <1>3 DEF RunInv, ChainInv, Active
<1>5. QED
  BY <1>2, <1>4 DEF Settled

\* A pending pause is the last row, and the segment after it has not started.
LEMMA PendingIsLast ==
    ASSUME RunInv, NEW k \in Pending
    PROVE  /\ k = Len(pauses) /\ k \in DOMAIN pauses /\ k \in Segments
           /\ k + 1 \in Segments /\ stage[k + 1] = "none"
           /\ pauses[k] = PendingRow
           /\ ran[k] = 0
<1>1. k \in DOMAIN pauses /\ pauses[k].status = "pending" /\ k = Len(pauses)
  BY RowFacts DEF Pending, RunInv, QueueInv
<1>2. k \in Segments /\ k + 1 \in Segments /\ k < MaxSegments
  BY <1>1, RowFacts
<1>3. stage[k + 1] = "none"
  <2>1. k + 1 > 1 /\ (k + 1) - 1 = k /\ ~Settled(k)
    BY <1>1, <1>2, RunAssumption DEF Settled, Segments
  <2>2. QED
    BY <1>2, <2>1 DEF RunInv, ChainInv
<1>4. pauses[k] = PendingRow
  BY <1>1, RowFacts DEF Rows, PendingRow, RunInv, QueueInv
<1>5. ran[k] = 0
  BY <1>2, <1>3 DEF RunInv, StartInv
<1>6. QED
  BY <1>1, <1>2, <1>3, <1>4, <1>5

-----------------------------------------------------------------------------
(***************************************************************************)
(* RunInv holds at first, and every action preserves it.                   *)
(***************************************************************************)
LEMMA InitEstablishes == Init => RunInv
<1> SUFFICES ASSUME Init PROVE RunInv
  OBVIOUS
<1>1. pauses = <<>> /\ DOMAIN pauses = {} /\ Len(pauses) = 0
  BY DEF Init
<1>2. TypeOK
  BY <1>1, RunAssumption
     DEF Init, TypeOK, Segments, Stages, Outcomes, Desks, Answered
<1>3. PausesAreFiled /\ QueueInv
  BY <1>1 DEF Init, PausesAreFiled, QueueInv
<1>4. ChainInv
  BY <1>1, RunAssumption DEF Init, ChainInv, Settled, Segments
<1>5. EndingInv /\ RecordInv /\ ClaimInv
  BY <1>1, RunAssumption DEF Init, EndingInv, RecordInv, ClaimInv, Segments
<1>6. StartInv
  BY <1>1, RunAssumption DEF Init, StartInv, Segments, granted, DecisionOf
<1>7. QED
  BY <1>2, <1>3, <1>4, <1>5, <1>6 DEF RunInv

\* An approver that only reads, or walks away, disturbs nothing.
LEMMA ReadingPreserves ==
    ASSUME RunInv, UNCHANGED <<rowVars, segmentVars>>,
           desk' \in [Approvers -> Desks], shown' \in [Approvers -> 0..MaxSegments],
           \/ UNCHANGED claimed
           \/ \E a \in Approvers : claimed' = [claimed EXCEPT ![a] = 0]
    PROVE  RunInv'
<1>1. TypeOK'
  BY RunAssumption DEF RunInv, TypeOK, rowVars, segmentVars
<1>2. PausesAreFiled' /\ QueueInv' /\ ChainInv' /\ EndingInv' /\ RecordInv' /\ StartInv'
  BY DEF RunInv, PausesAreFiled, QueueInv, ChainInv, EndingInv, RecordInv, StartInv,
         rowVars, segmentVars, Settled, granted, DecisionOf
<1>3. ClaimInv'
  BY DEF RunInv, TypeOK, ClaimInv, rowVars, segmentVars, Settled
<1>4. QED
  BY <1>1, <1>2, <1>3 DEF RunInv

-----------------------------------------------------------------------------
(***************************************************************************)
(* The segments.                                                           *)
(***************************************************************************)
\* A write is started only by the segment its approval started.
LEMMA StartsAreApproved ==
    ASSUME RunInv, NEW k \in Segments, DecisionOf(k - 1) = "approved"
    PROVE  k > 1 /\ k - 1 \in Segments /\ k - 1 < MaxSegments /\ k - 1 \in DOMAIN pauses
           /\ pauses[k - 1].decision = "approved" /\ granted[k - 1] = 1
<1>1. k - 1 \in DOMAIN pauses /\ pauses[k - 1].decision = "approved"
  BY DEF DecisionOf
<1>2. k - 1 \in Segments /\ k - 1 < MaxSegments
  BY <1>1, RowFacts
<1>3. k > 1
  BY <1>2, RunAssumption DEF Segments
<1>4. granted[k - 1] = 1
  BY <1>2 DEF granted
<1>5. QED
  BY <1>1, <1>2, <1>3, <1>4

LEMMA RunEnginePreserves ==
    ASSUME RunInv, NEW k \in Segments, RunEngine(k)
    PROVE  RunInv'
<1> PICK e \in {"paused", "terminal"}, starts \in BOOLEAN :
      /\ starts => DecisionOf(k - 1) = "approved"
      /\ e = "paused" => k < MaxSegments /\ (starts \/ k = 1)
      /\ ending' = [ending EXCEPT ![k] = e]
      /\ ran' = IF starts THEN [ran EXCEPT ![k - 1] = @ + 1] ELSE ran
  BY DEF RunEngine
<1>1. /\ stage[k] = "running" /\ stage' = [stage EXCEPT ![k] = "ran"]
      /\ UNCHANGED <<pauses, record, window, desk, shown, claimed>>
  BY DEF RunEngine, Moves, rowVars, deskVars
<1>2. k \notin DOMAIN pauses
  BY <1>1, ActiveIsLast DEF Active
<1>3. starts => ran[k - 1] = 0 /\ k - 1 \in Segments /\ k > 1 /\ granted[k - 1] = 1
  BY <1>1, StartsAreApproved, RunAssumption DEF RunInv, StartInv, Segments
<1>4. TypeOK'
  <2>1. ran' \in [Segments -> Nat]
    BY <1>3 DEF RunInv, TypeOK
  <2>2. stage' \in [Segments -> Stages] /\ ending' \in [Segments -> Outcomes]
    BY <1>1 DEF RunInv, TypeOK, Stages, Outcomes
  <2>3. QED
    BY <1>1, <2>1, <2>2 DEF RunInv, TypeOK
<1>5. PausesAreFiled'
  BY <1>1 DEF RunInv, PausesAreFiled, TypeOK
<1>6. QueueInv'
  BY <1>1 DEF RunInv, QueueInv
<1>7. ChainInv'
  BY <1>1, <1>2, RowFacts DEF RunInv, ChainInv, TypeOK, Settled
<1>8. EndingInv'
  <2>1. e = "paused" => k < MaxSegments /\ DecisionOf(k - 1) # "denied"
    BY RowFacts, RunAssumption DEF DecisionOf, Segments
  <2>2. QED
    BY <1>1, <2>1 DEF RunInv, EndingInv, TypeOK, DecisionOf
<1>9. RecordInv'
  BY <1>1, RunAssumption DEF RunInv, RecordInv, TypeOK, Segments
<1>10. ClaimInv'
  BY <1>1 DEF RunInv, ClaimInv, Settled
<1>11. StartInv'
  <2> SUFFICES ASSUME NEW j \in Segments
               PROVE  /\ ran'[j] <= granted'[j]
                      /\ (j < MaxSegments => stage'[j + 1] \in {"none", "running"}) => ran'[j] = 0
    BY DEF StartInv
  <2>1. granted'[j] = granted[j]
    BY <1>1 DEF granted, DecisionOf
  <2>2. CASE starts /\ j = k - 1
    <3>1. ran'[j] = 1 /\ granted[j] = 1
      BY <1>3, <2>2 DEF RunInv, TypeOK
    <3>2. j < MaxSegments /\ j + 1 = k
      BY <2>2, StartsAreApproved, RunAssumption DEF Segments
    <3>3. stage'[j + 1] = "ran"
      BY <1>1, <3>2 DEF RunInv, TypeOK
    <3>4. QED
      BY <2>1, <3>1, <3>2, <3>3
  <2>3. CASE ~(starts /\ j = k - 1)
    <3>1. ran'[j] = ran[j]
      BY <1>3, <2>3 DEF RunInv, TypeOK
    <3>2. (j < MaxSegments => stage'[j + 1] \in {"none", "running"})
          => (j < MaxSegments => stage[j + 1] \in {"none", "running"})
      BY <1>1, RunAssumption DEF RunInv, TypeOK, Segments
    <3>3. QED
      BY <2>1, <3>1, <3>2 DEF RunInv, StartInv
  <2>4. QED
    BY <2>2, <2>3
<1>12. QED
  BY <1>4, <1>5, <1>6, <1>7, <1>8, <1>9, <1>10, <1>11 DEF RunInv

\* Between "ran" and "done" a segment only moves its stage and its rows.
LEMMA FilingKeepsTheRest ==
    ASSUME RunInv, NEW k \in Segments, NEW to \in Stages \ {"none", "running", "ran"},
           stage[k] \notin {"none", "running"}, to # "refused",
           k \in DOMAIN pauses => to \in {"queued", "done", "lost"},
           stage' = [stage EXCEPT ![k] = to],
           to = "lost" \/ ending[k] # "none",
           UNCHANGED <<pauses, ending, ran, desk, shown, claimed>>
    PROVE  /\ PausesAreFiled' /\ QueueInv' /\ ChainInv' /\ EndingInv'
           /\ ClaimInv' /\ StartInv'
<1>1. PausesAreFiled' /\ QueueInv' /\ ClaimInv'
  BY DEF RunInv, PausesAreFiled, QueueInv, ClaimInv, Settled, TypeOK
<1>2. ChainInv'
  BY RowFacts DEF RunInv, ChainInv, TypeOK, Settled
<1>3. EndingInv'
  BY DEF RunInv, EndingInv, TypeOK, DecisionOf
<1>4. StartInv'
  BY RunAssumption DEF RunInv, StartInv, TypeOK, granted, DecisionOf, Segments
<1>5. QED
  BY <1>1, <1>2, <1>3, <1>4

LEMMA SaveRunPreserves ==
    ASSUME RunInv, NEW k \in Segments, SaveRun(k)
    PROVE  RunInv' /\ record'.segment >= record.segment
<1>1. /\ stage[k] = "ran" /\ stage' = [stage EXCEPT ![k] = "filed"]
      /\ record' = [segment |-> k, outcome |-> ending[k]]
      /\ UNCHANGED <<pauses, window, ending, ran, desk, shown, claimed>>
  BY DEF SaveRun, Moves, deskVars
<1>2. k = Len(pauses) + 1 /\ k \notin DOMAIN pauses
  BY <1>1, ActiveIsLast DEF Active
<1>3. ending[k] # "none"
  BY <1>1 DEF RunInv, EndingInv
<1>4. PausesAreFiled' /\ QueueInv' /\ ChainInv' /\ EndingInv' /\ ClaimInv' /\ StartInv'
  BY <1>1, <1>2, <1>3, FilingKeepsTheRest DEF Stages
<1>5. TypeOK'
  BY <1>1, RunAssumption DEF RunInv, TypeOK, Stages, Outcomes, Segments
<1>6. ASSUME NEW j \in Segments, stage[j] # "none" PROVE j <= k
  <2>1. j = 1 \/ j - 1 \in DOMAIN pauses
    BY <1>6, RunAssumption DEF RunInv, ChainInv, Settled, Segments
  <2>2. QED
    BY <1>2, <2>1, RowFacts, RunAssumption DEF Segments
<1>7. RecordInv'
  <2>1. \A j \in DOMAIN pauses : k >= j
    BY <1>2, RowFacts
  <2>2. QED
    BY <1>1, <1>6, <2>1, RunAssumption DEF RunInv, RecordInv, TypeOK, Segments
<1>8. record'.segment >= record.segment
  <2>1. CASE record.segment = 0
    BY <1>1, <2>1, RunAssumption DEF Segments
  <2>2. CASE record.segment # 0
    <3>1. record.segment \in Segments /\ stage[record.segment] # "none"
      BY <2>2, RunAssumption DEF RunInv, TypeOK, RecordInv, Segments
    <3>2. QED
      BY <1>1, <1>6, <3>1
  <2>3. QED
    BY <2>1, <2>2
<1>9. QED
  BY <1>4, <1>5, <1>7, <1>8 DEF RunInv

\* A segment that files a pause finds none of its own waiting, and its row is
\* the next one of the queue.
LEMMA SavePauseFacts ==
    ASSUME RunInv, NEW k \in Segments, SavePause(k)
    PROVE  /\ stage[k] = "filed" /\ stage' = [stage EXCEPT ![k] = "queued"]
           /\ ending[k] = "paused" /\ k < MaxSegments /\ k + 1 \in Segments
           /\ stage[k + 1] = "none" /\ ran[k] = 0
           /\ k = Len(pauses) + 1 /\ k \notin DOMAIN pauses /\ Pending = {}
           /\ pauses' = Append(pauses, PendingRow)
           /\ DOMAIN pauses' = DOMAIN pauses \cup {k} /\ Len(pauses') = k
           /\ pauses'[k] = PendingRow
           /\ \A j \in DOMAIN pauses : pauses'[j] = pauses[j] /\ j < k
           /\ UNCHANGED <<record, window, ending, ran, desk, shown, claimed>>
<1>1. /\ stage[k] = "filed" /\ ending[k] = "paused"
      /\ UNCHANGED <<record, window, ending, ran, desk, shown, claimed>>
  BY DEF SavePause, Moves, deskVars
<1>2. Pending = {} /\ k = Len(pauses) + 1 /\ k \notin DOMAIN pauses
  BY <1>1, ActiveIsLast, ActiveMeansNothingPends DEF Active
<1>3. stage' = [stage EXCEPT ![k] = "queued"] /\ pauses' = Append(pauses, PendingRow)
  BY <1>2 DEF SavePause, Moves
<1>4. k < MaxSegments /\ k + 1 \in Segments
  BY <1>1, RunAssumption DEF RunInv, EndingInv, Segments
<1>5. stage[k + 1] = "none"
  <2>1. ~Settled(k) /\ k + 1 > 1 /\ (k + 1) - 1 = k
    BY <1>2, RunAssumption DEF Settled, Segments
  <2>2. QED
    BY <1>4, <2>1 DEF RunInv, ChainInv
<1>6. ran[k] = 0
  BY <1>5 DEF RunInv, StartInv
<1>7. PendingRow \in Rows
  BY DEF PendingRow, Rows
<1>8. /\ DOMAIN pauses' = DOMAIN pauses \cup {k} /\ Len(pauses') = k
      /\ pauses'[k] = PendingRow
      /\ \A j \in DOMAIN pauses : pauses'[j] = pauses[j] /\ j < k
  BY <1>2, <1>3, <1>7, RowFacts
<1>9. QED
  BY <1>1, <1>2, <1>3, <1>4, <1>5, <1>6, <1>8

LEMMA SavePausePreserves ==
    ASSUME RunInv, NEW k \in Segments, SavePause(k)
    PROVE  RunInv'
<1>0. /\ stage[k] = "filed" /\ stage' = [stage EXCEPT ![k] = "queued"]
      /\ ending[k] = "paused" /\ k < MaxSegments /\ k + 1 \in Segments
      /\ stage[k + 1] = "none" /\ ran[k] = 0
      /\ k = Len(pauses) + 1 /\ k \notin DOMAIN pauses /\ Pending = {}
      /\ pauses' = Append(pauses, PendingRow)
      /\ DOMAIN pauses' = DOMAIN pauses \cup {k} /\ Len(pauses') = k
      /\ pauses'[k] = PendingRow
      /\ \A j \in DOMAIN pauses : pauses'[j] = pauses[j] /\ j < k
      /\ UNCHANGED <<record, window, ending, ran, desk, shown, claimed>>
  BY SavePauseFacts
<1>1. TypeOK'
  <2>1. pauses' \in Seq(Rows)
    BY <1>0, RowFacts DEF PendingRow, Rows
  <2>2. Len(pauses') <= MaxSegments
    BY <1>0, RunAssumption DEF Segments
  <2>3. QED
    BY <1>0, <2>1, <2>2 DEF RunInv, TypeOK, Stages, Rows
<1>2. PausesAreFiled'
  BY <1>0 DEF RunInv, PausesAreFiled, TypeOK
<1>3. \A j \in DOMAIN pauses : pauses[j].status = "resolved"
  BY <1>0, RowFacts DEF Pending, Rows
<1>4. QueueInv'
  BY <1>0, <1>3 DEF RunInv, QueueInv, PendingRow
<1>5. \A j \in Segments : Settled(j)' <=> Settled(j)
  BY <1>0 DEF Settled, PendingRow
<1>6. ChainInv'
  <2>1. stage'[1] # "none"
    BY <1>0, RunAssumption DEF RunInv, ChainInv, TypeOK, Segments
  <2>2. \A j \in Segments : j > 1 => (stage'[j] # "none" <=> Settled(j - 1)')
    BY <1>0, <1>5, RunAssumption DEF RunInv, ChainInv, TypeOK, Segments
  <2>3. \A j \in DOMAIN pauses' :
          stage'[j] \in {"queued", "done", "lost"} /\ ending'[j] = "paused"
    BY <1>0, RowFacts DEF RunInv, ChainInv, TypeOK
  <2>4. QED
    BY <2>1, <2>2, <2>3 DEF ChainInv
<1>7. \A j \in Segments : DecisionOf(j - 1)' = DecisionOf(j - 1)
  BY <1>0 DEF DecisionOf, PendingRow
<1>8. EndingInv'
  BY <1>0, <1>7 DEF RunInv, EndingInv, TypeOK
<1>9. RecordInv'
  BY <1>0 DEF RunInv, RecordInv, TypeOK
<1>10. ClaimInv'
  BY <1>0 DEF RunInv, ClaimInv, Settled, TypeOK
<1>11. StartInv'
  <2>1. \A j \in Segments : granted'[j] = granted[j]
    BY <1>0 DEF granted, DecisionOf, PendingRow
  <2>2. ASSUME NEW j \in Segments, j < MaxSegments, stage'[j + 1] \in {"none", "running"}
        PROVE  stage[j + 1] \in {"none", "running"}
    BY <1>0, <2>2, RunAssumption DEF RunInv, TypeOK, Segments
  <2>3. QED
    BY <1>0, <2>1, <2>2 DEF RunInv, StartInv
<1>12. QED
  BY <1>1, <1>2, <1>4, <1>6, <1>8, <1>9, <1>10, <1>11 DEF RunInv

LEMMA NothingToQueuePreserves ==
    ASSUME RunInv, NEW k \in Segments, NothingToQueue(k)
    PROVE  RunInv'
<1>1. /\ stage[k] = "filed" /\ stage' = [stage EXCEPT ![k] = "queued"]
      /\ ending[k] = "terminal"
      /\ UNCHANGED <<pauses, record, window, ending, ran, desk, shown, claimed>>
  BY DEF NothingToQueue, Moves, rowVars, deskVars
<1>2. PausesAreFiled' /\ QueueInv' /\ ChainInv' /\ EndingInv' /\ ClaimInv' /\ StartInv'
  BY <1>1, FilingKeepsTheRest DEF Stages
<1>3. TypeOK' /\ RecordInv'
  BY <1>1 DEF RunInv, TypeOK, RecordInv, Stages
<1>4. QED
  BY <1>2, <1>3 DEF RunInv

LEMMA RecordTurnPreserves ==
    ASSUME RunInv, NEW k \in Segments, RecordTurn(k)
    PROVE  RunInv'
<1>1. /\ stage[k] = "queued" /\ stage' = [stage EXCEPT ![k] = "done"]
      /\ window' \in {[segment |-> k, outcome |-> ending[k]], window}
      /\ UNCHANGED <<pauses, record, ending, ran, desk, shown, claimed>>
  BY DEF RecordTurn, Moves, deskVars
<1>2. ending[k] # "none"
  BY <1>1 DEF RunInv, EndingInv
<1>3. PausesAreFiled' /\ QueueInv' /\ ChainInv' /\ EndingInv' /\ ClaimInv' /\ StartInv'
  BY <1>1, <1>2, FilingKeepsTheRest DEF Stages
<1>4. TypeOK'
  BY <1>1, RunAssumption DEF RunInv, TypeOK, Stages, Outcomes, Segments
<1>5. RecordInv'
  BY <1>1 DEF RunInv, TypeOK, RecordInv
<1>6. QED
  BY <1>3, <1>4, <1>5 DEF RunInv

LEMMA CrashPreserves ==
    ASSUME RunInv, NEW k \in Segments, Crash(k)
    PROVE  RunInv'
<1>1. /\ stage[k] \in {"running", "ran", "filed", "queued"}
      /\ stage' = [stage EXCEPT ![k] = "lost"]
      /\ UNCHANGED <<pauses, record, window, ending, ran, desk, shown, claimed>>
  BY DEF Crash, rowVars, deskVars
<1>2. TypeOK' /\ PausesAreFiled' /\ QueueInv' /\ EndingInv' /\ RecordInv' /\ ClaimInv'
  BY <1>1 DEF RunInv, TypeOK, PausesAreFiled, QueueInv, EndingInv, RecordInv, ClaimInv,
              Settled, DecisionOf, Stages
<1>3. ChainInv'
  BY <1>1, RowFacts DEF RunInv, ChainInv, TypeOK, Settled
<1>4. StartInv'
  BY <1>1, RunAssumption DEF RunInv, StartInv, TypeOK, granted, DecisionOf, Segments
<1>5. QED
  BY <1>2, <1>3, <1>4 DEF RunInv

-----------------------------------------------------------------------------
(***************************************************************************)
(* The approvers.                                                          *)
(***************************************************************************)
\* A claim settles the last row, which was waiting, and starts the segment
\* after it, which had not started.
LEMMA ClaimFacts ==
    ASSUME RunInv, NEW a \in Approvers, NEW decision \in {"approved", "denied"},
           ClaimPause(a, decision)
    PROVE  \E k \in Pending :
             /\ k = Len(pauses) /\ k \in DOMAIN pauses /\ k \in Segments
             /\ k + 1 \in Segments /\ stage[k + 1] = "none"
             /\ pauses[k] = PendingRow /\ ran[k] = 0
             /\ stage' = [stage EXCEPT ![k + 1] = "running"]
             /\ DOMAIN pauses' = DOMAIN pauses /\ Len(pauses') = Len(pauses)
             /\ pauses' \in Seq(Rows)
             /\ pauses'[k] = [status |-> "resolved", decision |-> decision]
             /\ \A j \in DOMAIN pauses : j # k => pauses'[j] = pauses[j]
             /\ claimed' = [claimed EXCEPT ![a] = k]
             /\ desk' = [desk EXCEPT ![a] = "won"]
             /\ UNCHANGED <<record, window, ending, ran, shown>>
<1>1. PICK k \in Pending :
        /\ pauses' = [pauses EXCEPT ![k] = [status |-> "resolved", decision |-> decision]]
        /\ stage' = [stage EXCEPT ![k + 1] = "running"]
        /\ claimed' = [claimed EXCEPT ![a] = k]
        /\ desk' = [desk EXCEPT ![a] = "won"]
        /\ UNCHANGED <<record, window, ending, ran, shown>>
  BY DEF ClaimPause, Moves
<1>2. /\ k = Len(pauses) /\ k \in DOMAIN pauses /\ k \in Segments
      /\ k + 1 \in Segments /\ stage[k + 1] = "none"
      /\ pauses[k] = PendingRow /\ ran[k] = 0
  BY PendingIsLast
<1>3. [status |-> "resolved", decision |-> decision] \in Rows
  BY DEF Rows
<1>4. /\ DOMAIN pauses' = DOMAIN pauses /\ Len(pauses') = Len(pauses)
      /\ pauses' \in Seq(Rows)
      /\ pauses'[k] = [status |-> "resolved", decision |-> decision]
      /\ \A j \in DOMAIN pauses : j # k => pauses'[j] = pauses[j]
  BY <1>1, <1>2, <1>3, RowFacts
<1>5. QED
  BY <1>1, <1>2, <1>4

LEMMA ClaimPausePreserves ==
    ASSUME RunInv, NEW a \in Approvers, NEW decision \in {"approved", "denied"},
           ClaimPause(a, decision)
    PROVE  RunInv'
<1>0. PICK k \in Pending :
         /\ k = Len(pauses) /\ k \in DOMAIN pauses /\ k \in Segments
         /\ k + 1 \in Segments /\ stage[k + 1] = "none"
         /\ pauses[k] = PendingRow /\ ran[k] = 0
         /\ stage' = [stage EXCEPT ![k + 1] = "running"]
         /\ DOMAIN pauses' = DOMAIN pauses /\ Len(pauses') = Len(pauses)
         /\ pauses' \in Seq(Rows)
         /\ pauses'[k] = [status |-> "resolved", decision |-> decision]
         /\ \A j \in DOMAIN pauses : j # k => pauses'[j] = pauses[j]
         /\ claimed' = [claimed EXCEPT ![a] = k]
         /\ desk' = [desk EXCEPT ![a] = "won"]
         /\ UNCHANGED <<record, window, ending, ran, shown>>
  BY ClaimFacts
<1>1. TypeOK'
  BY <1>0, RunAssumption
     DEF RunInv, TypeOK, Stages, Rows, Segments, Desks, Answered
<1>2. PausesAreFiled'
  BY <1>0 DEF RunInv, PausesAreFiled, TypeOK
<1>3. QueueInv'
  BY <1>0 DEF RunInv, QueueInv
<1>4. ~Settled(k) /\ Settled(k)' /\ \A j \in Segments : j # k => (Settled(j)' <=> Settled(j))
  BY <1>0 DEF Settled, PendingRow
<1>5. k + 1 \notin DOMAIN pauses
  BY <1>0, RowFacts
<1>6. ChainInv'
  <2>1. stage'[1] # "none"
    BY <1>0, RunAssumption DEF RunInv, ChainInv, TypeOK, Segments
  <2>2. ASSUME NEW j \in Segments, j > 1 PROVE stage'[j] # "none" <=> Settled(j - 1)'
    <3>1. j - 1 \in Segments
      BY <2>2, RunAssumption DEF Segments
    <3>2. CASE j = k + 1
      BY <1>0, <1>4, <3>2, RunAssumption DEF RunInv, TypeOK, Segments
    <3>3. CASE j # k + 1
      <4>1. j - 1 # k /\ stage'[j] = stage[j]
        BY <1>0, <3>3, RunAssumption DEF RunInv, TypeOK, Segments
      <4>2. QED
        BY <1>4, <2>2, <3>1, <4>1 DEF RunInv, ChainInv
    <3>4. QED
      BY <3>2, <3>3
  <2>3. \A j \in DOMAIN pauses' :
          stage'[j] \in {"queued", "done", "lost"} /\ ending'[j] = "paused"
    BY <1>0, <1>5, RowFacts DEF RunInv, ChainInv, TypeOK
  <2>4. QED
    BY <2>1, <2>2, <2>3 DEF ChainInv
<1>7. EndingInv'
  <2> SUFFICES ASSUME NEW j \in Segments
               PROVE  /\ stage'[j] \in {"none", "running"} => ending[j] = "none"
                      /\ stage'[j] \in {"ran", "filed", "queued", "done"} => ending[j] # "none"
                      /\ ending[j] = "paused" =>
                           j < MaxSegments /\ DecisionOf(j - 1)' # "denied"
    BY <1>0 DEF EndingInv
  <2>1. CASE j = k + 1
    BY <1>0, <2>1 DEF RunInv, EndingInv, TypeOK
  <2>2. CASE j # k + 1
    <3>1. stage'[j] = stage[j]
      BY <1>0, <2>2 DEF RunInv, TypeOK
    <3>2. j - 1 # k
      BY <2>2, <1>0, RunAssumption DEF Segments
    <3>3. DecisionOf(j - 1)' = DecisionOf(j - 1)
      BY <1>0, <3>2 DEF DecisionOf
    <3>4. QED
      BY <3>1, <3>3 DEF RunInv, EndingInv
  <2>3. QED
    BY <2>1, <2>2
<1>8. RecordInv'
  <2>1. record.segment > 0 => record.segment # k + 1
    BY <1>0 DEF RunInv, RecordInv
  <2>2. QED
    BY <1>0, <2>1, RunAssumption DEF RunInv, RecordInv, TypeOK, Segments
<1>9. ClaimInv'
  <2>1. \A b \in Approvers : claimed[b] # k \/ claimed[b] = 0
    BY <1>4 DEF RunInv, ClaimInv
  <2>2. \A b \in Approvers : claimed'[b] = IF b = a THEN k ELSE claimed[b]
    BY <1>0 DEF RunInv, TypeOK
  <2>3. ASSUME NEW b \in Approvers, claimed'[b] # 0
        PROVE  claimed'[b] \in DOMAIN pauses' /\ pauses'[claimed'[b]].status = "resolved"
    <3>1. CASE b = a
      BY <1>0, <2>2, <3>1
    <3>2. CASE b # a
      <4>1. claimed'[b] = claimed[b] /\ claimed[b] # k /\ Settled(claimed[b])
        BY <2>1, <2>2, <2>3, <3>2 DEF RunInv, ClaimInv
      <4>2. QED
        BY <1>0, <4>1 DEF Settled
    <3>3. QED
      BY <3>1, <3>2
  <2>4. \A b, c \in Approvers : claimed'[b] # 0 /\ claimed'[b] = claimed'[c] => b = c
    BY <1>0, <2>1, <2>2, RunAssumption DEF RunInv, ClaimInv, Segments
  <2>5. QED
    BY <2>3, <2>4 DEF ClaimInv, Settled
<1>10. StartInv'
  <2> SUFFICES ASSUME NEW j \in Segments
               PROVE  /\ ran[j] <= granted'[j]
                      /\ (j < MaxSegments => stage'[j + 1] \in {"none", "running"}) => ran[j] = 0
    BY <1>0 DEF StartInv
  <2>1. CASE j = k
    <3>1. granted'[j] \in {0, 1}
      BY DEF granted
    <3>2. QED
      BY <1>0, <2>1, <3>1
  <2>2. CASE j # k
    <3>1. granted'[j] = granted[j]
      BY <1>0, <2>2 DEF granted, DecisionOf
    <3>2. j < MaxSegments => stage'[j + 1] = stage[j + 1]
      BY <1>0, <2>2, RunAssumption DEF RunInv, TypeOK, Segments
    <3>3. QED
      BY <3>1, <3>2 DEF RunInv, StartInv
  <2>3. QED
    BY <2>1, <2>2
<1>11. QED
  BY <1>1, <1>2, <1>3, <1>6, <1>7, <1>8, <1>9, <1>10 DEF RunInv

\* Listing, checking, loading, losing the race and walking away.
LEMMA DeskPreserves ==
    ASSUME RunInv, NEW a \in Approvers,
           \/ ListApprovals(a) \/ CheckStatus(a) \/ LoadPending(a)
           \/ AlreadySettled(a) \/ Forget(a)
    PROVE  RunInv' /\ UNCHANGED <<rowVars, segmentVars>>
<1>1. UNCHANGED <<rowVars, segmentVars>>
  BY DEF ListApprovals, CheckStatus, LoadPending, AlreadySettled, Forget
<1>2. desk' \in [Approvers -> Desks]
  BY DEF RunInv, TypeOK, Desks, Answered, ListApprovals, CheckStatus, LoadPending,
         AlreadySettled, Forget
<1>3. shown' \in [Approvers -> 0..MaxSegments]
  <2>1. \A k \in Pending : k \in 0..MaxSegments
    BY PendingIsLast, RunAssumption DEF Segments
  <2>2. QED
    BY <2>1 DEF RunInv, TypeOK, ListApprovals, CheckStatus, LoadPending, AlreadySettled, Forget
<1>4. UNCHANGED claimed \/ \E b \in Approvers : claimed' = [claimed EXCEPT ![b] = 0]
  BY DEF ListApprovals, CheckStatus, LoadPending, AlreadySettled, Forget
<1>5. QED
  BY <1>1, <1>2, <1>3, <1>4, ReadingPreserves

LEMMA StepPreserves == RunInv /\ [Next]_vars => RunInv'
<1> SUFFICES ASSUME RunInv, [Next]_vars PROVE RunInv'
  OBVIOUS
<1>1. ASSUME NEW k \in Segments, Segment(k) PROVE RunInv'
  BY <1>1, RunEnginePreserves, SaveRunPreserves, SavePausePreserves,
     NothingToQueuePreserves, RecordTurnPreserves DEF Segment
<1>2. ASSUME NEW k \in Segments, Crash(k) PROVE RunInv'
  BY <1>2, CrashPreserves
<1>3. ASSUME NEW a \in Approvers, Approver(a) PROVE RunInv'
  BY <1>3, DeskPreserves, ClaimPausePreserves DEF Approver
<1>4. CASE UNCHANGED vars
  BY <1>4 DEF vars, rowVars, segmentVars, deskVars, RunInv, TypeOK, PausesAreFiled,
     QueueInv, ChainInv, EndingInv, RecordInv, ClaimInv, StartInv, Settled, granted,
     DecisionOf
<1>5. QED
  BY <1>1, <1>2, <1>3, <1>4 DEF Next

-----------------------------------------------------------------------------
(***************************************************************************)
(* What follows from the invariant.                                        *)
(***************************************************************************)
\* The line of segments and pauses is kept, for any number of segments and
\* approvers, through every crash.
THEOREM RunInvariant == Spec => []RunInv
<1>1. Init => RunInv
  BY InitEstablishes
<1>2. RunInv /\ [Next]_vars => RunInv'
  BY StepPreserves
<1>3. QED
  BY <1>1, <1>2, PTL DEF Spec

\* The rows, the segments and the desks keep their types.
THEOREM TypeCorrect == Spec => []TypeOK
<1>1. RunInv => TypeOK
  BY DEF RunInv
<1>2. QED
  BY <1>1, RunInvariant, PTL

\* PauseAlreadyPending is never raised.
THEOREM PausesFiled == Spec => []PausesAreFiled
<1>1. RunInv => PausesAreFiled
  BY DEF RunInv
<1>2. QED
  BY <1>1, RunInvariant, PTL

LEMMA PendingRecorded == RunInv => PendingHasItsRecord
<1> SUFFICES ASSUME RunInv, NEW k \in Pending
             PROVE  record = [segment |-> k, outcome |-> "paused"]
  BY DEF PendingHasItsRecord
<1>1. k = Len(pauses) /\ k \in DOMAIN pauses /\ k \in Segments /\ stage[k + 1] = "none"
  BY PendingIsLast
<1>2. record.segment >= k /\ record.segment \in 0..MaxSegments
  BY <1>1 DEF RunInv, RecordInv, TypeOK
<1>3. record.segment \in Segments /\ stage[record.segment] # "none"
  BY <1>1, <1>2, RunAssumption DEF RunInv, RecordInv, Segments
<1>4. record.segment <= k
  <2>1. record.segment = 1 \/ record.segment - 1 \in DOMAIN pauses
    BY <1>3, RunAssumption DEF RunInv, ChainInv, Settled, Segments
  <2>2. record.segment <= k + 1
    BY <1>1, <1>3, <2>1, RowFacts, RunAssumption DEF Segments
  <2>3. record.segment # k + 1
    BY <1>1, <1>3
  <2>4. QED
    BY <1>1, <1>2, <2>2, <2>3, RunAssumption DEF Segments
<1>5. record.segment = k
  BY <1>1, <1>2, <1>4, RunAssumption DEF Segments
<1>6. record.outcome = "paused"
  BY <1>1, <1>2, <1>5, RunAssumption DEF RunInv, RecordInv, ChainInv, Segments
<1>7. QED
  BY <1>5, <1>6 DEF RunInv, TypeOK

\* While a human is asked about the k-th pause, the run record is the one of
\* the k-th segment and says that the run waits.
THEOREM PendingRuns == Spec => []PendingHasItsRecord
BY PendingRecorded, RunInvariant, PTL

LEMMA OneDrives == RunInv => OneProcessDrivesTheRun
<1> SUFFICES ASSUME RunInv PROVE OneProcessDrivesTheRun
  OBVIOUS
<1>1. \A j, k \in Segments : stage[j] \in Active /\ stage[k] \in Active => j = k
  BY ActiveIsLast
<1>2. QED
  BY <1>1 DEF OneProcessDrivesTheRun, RunInv, ClaimInv, Active

\* No pause is settled twice, and no two segments are between their start and
\* the filing of their record.
THEOREM OneProcess == Spec => []OneProcessDrivesTheRun
BY OneDrives, RunInvariant, PTL

Advances ==
    /\ record'.segment >= record.segment
    /\ \A k \in DOMAIN pauses :
         pauses[k].status = "resolved" => pauses'[k] = pauses[k]

LEMMA StepAdvances == RunInv /\ [Next]_vars => Advances
<1> SUFFICES ASSUME RunInv, [Next]_vars PROVE Advances
  OBVIOUS
<1>1. ASSUME UNCHANGED <<pauses, record>> PROVE Advances
  BY <1>1 DEF Advances, RunInv, TypeOK
<1>2. ASSUME NEW k \in Segments, SaveRun(k) PROVE Advances
  BY <1>2, SaveRunPreserves DEF SaveRun, Advances
<1>3. ASSUME NEW k \in Segments, SavePause(k) PROVE Advances
  <2>1. record' = record /\ \A j \in DOMAIN pauses : pauses'[j] = pauses[j]
    BY <1>3, SavePauseFacts
  <2>2. record.segment >= record.segment
    BY DEF RunInv, TypeOK
  <2>3. QED
    BY <2>1, <2>2 DEF Advances
<1>4. ASSUME NEW a \in Approvers, NEW decision \in {"approved", "denied"},
             ClaimPause(a, decision)
      PROVE  Advances
  <2>1. PICK k \in Pending :
          /\ pauses[k] = PendingRow /\ record' = record
          /\ \A j \in DOMAIN pauses : j # k => pauses'[j] = pauses[j]
    BY <1>4, ClaimFacts
  <2>2. QED
    BY <2>1 DEF Advances, PendingRow, RunInv, TypeOK
<1>5. ASSUME NEW k \in Segments, Segment(k) PROVE Advances
  <2>1. CASE RunEngine(k) \/ NothingToQueue(k) \/ RecordTurn(k)
    BY <1>1, <2>1 DEF RunEngine, NothingToQueue, RecordTurn, rowVars
  <2>2. QED
    BY <1>2, <1>3, <1>5, <2>1 DEF Segment
<1>6. ASSUME NEW k \in Segments, Crash(k) PROVE Advances
  BY <1>1, <1>6 DEF Crash, rowVars
<1>7. ASSUME NEW a \in Approvers, Approver(a) PROVE Advances
  BY <1>1, <1>4, <1>7, DeskPreserves DEF Approver, rowVars
<1>8. CASE UNCHANGED vars
  BY <1>1, <1>8 DEF vars, rowVars
<1>9. QED
  BY <1>5, <1>6, <1>7, <1>8 DEF Next

\* The run record is never replaced by an older segment's, and a settled pause
\* never changes.
THEOREM RecordsAdvance == Spec => RecordsOnlyAdvance
<1>1. RunInv /\ [Next]_vars => [Advances]_vars
  BY StepAdvances
<1>2. QED
  BY <1>1, RunInvariant, PTL DEF Spec, RecordsOnlyAdvance, Advances

-----------------------------------------------------------------------------
(***************************************************************************)
(* The run is the gate of HumanGate.                                       *)
(***************************************************************************)
Denied == \E k \in DOMAIN pauses : pauses[k].decision = "denied"

\* Segment k still has something to do that the gate would see.
Busy(k) ==
    \/ stage[k] = "running"
    \/ stage[k] \in {"ran", "filed"} /\ ending[k] = "paused"

LEMMA PhaseIs ==
    phase = IF Denied THEN "over"
            ELSE IF Pending # {} THEN "waiting"
            ELSE IF \E k \in Segments : Busy(k) THEN "running" ELSE "over"
BY DEF phase, Denied, Busy

\* A denial settles the last pause, and the segment it starts files no other.
LEMMA DenialIsLast ==
    ASSUME RunInv, NEW k \in DOMAIN pauses, pauses[k].decision = "denied"
    PROVE  k = Len(pauses) /\ k \notin Pending
<1>1. k \notin Pending
  BY DEF Pending, RunInv, QueueInv
<1>2. ASSUME k # Len(pauses) PROVE FALSE
  <2>1. k + 1 \in DOMAIN pauses /\ k + 1 \in Segments /\ (k + 1) - 1 = k
    BY <1>2, RowFacts, RunAssumption DEF Segments
  <2>2. ending[k + 1] = "paused"
    BY <2>1 DEF RunInv, ChainInv
  <2>3. DecisionOf(k) # "denied"
    BY <2>1, <2>2 DEF RunInv, EndingInv
  <2>4. QED
    BY <2>3 DEF DecisionOf
<1>3. QED
  BY <1>1, <1>2

\* A step that starts nothing, leaves the queue alone and wakes no segment is
\* invisible to the gate or finishes the run.
LEMMA QuietStep ==
    ASSUME UNCHANGED <<pauses, ran>>,
           \A k \in Segments : Busy(k)' => Busy(k)
    PROVE  [Gate!Next]_Gate!gateVars
<1>1. granted' = granted
  BY DEF granted, DecisionOf
<1>2. Denied' = Denied /\ Pending' = Pending
  BY DEF Denied, Pending
<1>3. phase' = phase \/ (phase = "running" /\ phase' = "over")
  BY <1>2, PhaseIs DEF phase, Denied, Busy
<1>4. QED
  BY <1>1, <1>3 DEF Gate!Next, Gate!Finish, Gate!gateVars

LEMMA EngineStep ==
    ASSUME RunInv, NEW k \in Segments, RunEngine(k)
    PROVE  [Gate!Next]_Gate!gateVars
<1> PICK e \in {"paused", "terminal"}, starts \in BOOLEAN :
      /\ starts => DecisionOf(k - 1) = "approved"
      /\ ending' = [ending EXCEPT ![k] = e]
      /\ ran' = IF starts THEN [ran EXCEPT ![k - 1] = @ + 1] ELSE ran
  BY DEF RunEngine
<1>1. stage[k] = "running" /\ stage' = [stage EXCEPT ![k] = "ran"] /\ pauses' = pauses
  BY DEF RunEngine, Moves, rowVars
<1>2. CASE ~starts
  <2>1. \A j \in Segments : Busy(j)' => Busy(j)
    BY <1>1 DEF RunInv, TypeOK, Busy
  <2>2. QED
    BY <1>1, <1>2, <2>1, QuietStep
<1>3. CASE starts
  <2>1. /\ k - 1 \in Segments /\ k - 1 < MaxSegments /\ (k - 1) + 1 = k
        /\ k - 1 \in DOMAIN pauses /\ pauses[k - 1].decision = "approved"
        /\ granted[k - 1] = 1
    BY <1>3, StartsAreApproved, RunAssumption DEF Segments
  <2>2. ran[k - 1] = 0
    BY <1>1, <2>1 DEF RunInv, StartInv
  <2>3. k = Len(pauses) + 1 /\ Pending = {}
    BY <1>1, ActiveIsLast, ActiveMeansNothingPends DEF Active
  <2>4. ~Denied
    <3>1. ASSUME NEW j \in DOMAIN pauses, pauses[j].decision = "denied" PROVE FALSE
      BY <2>1, <2>3, <3>1, DenialIsLast, RowFacts, RunAssumption DEF Segments
    <3>2. QED
      BY <3>1 DEF Denied
  <2>5. phase = "running"
    BY <1>1, <2>3, <2>4, PhaseIs DEF Busy
  <2>6. phase' \in {"running", "over"}
    BY <1>1, <2>3, <2>4 DEF phase, Denied, Pending
  <2>7. granted' = granted
    BY <1>1 DEF granted, DecisionOf
  <2>8. Gate!Start(k - 1)
    BY <1>3, <2>1, <2>2, <2>5, <2>6, <2>7 DEF Gate!Start
  <2>9. QED
    BY <2>1, <2>8 DEF Gate!Next
<1>4. QED
  BY <1>2, <1>3

LEMMA PauseStep ==
    ASSUME RunInv, NEW k \in Segments, SavePause(k)
    PROVE  [Gate!Next]_Gate!gateVars
<1>1. /\ stage[k] = "filed" /\ ending[k] = "paused"
      /\ k = Len(pauses) + 1 /\ k \notin DOMAIN pauses /\ Pending = {}
      /\ DOMAIN pauses' = DOMAIN pauses \cup {k} /\ pauses'[k] = PendingRow
      /\ \A j \in DOMAIN pauses : pauses'[j] = pauses[j]
      /\ ran' = ran
  BY SavePauseFacts
<1>2. ~Denied
  <2>1. ASSUME NEW j \in DOMAIN pauses, pauses[j].decision = "denied" PROVE FALSE
    <3>1. j = k - 1
      BY <1>1, <2>1, DenialIsLast, RowFacts
    <3>2. QED
      BY <1>1, <2>1, <3>1 DEF RunInv, EndingInv, DecisionOf
  <2>2. QED
    BY <2>1 DEF Denied
<1>3. phase = "running"
  BY <1>1, <1>2, PhaseIs DEF Busy
<1>4. ~Denied' /\ k \in Pending'
  BY <1>1, <1>2 DEF Denied, Pending, PendingRow
<1>5. phase' = "waiting"
  BY <1>4 DEF phase, Denied
<1>6. granted' = granted
  BY <1>1 DEF granted, DecisionOf, PendingRow
<1>7. QED
  BY <1>1, <1>3, <1>5, <1>6 DEF Gate!Next, Gate!Ask

LEMMA ClaimStep ==
    ASSUME RunInv, NEW a \in Approvers, NEW decision \in {"approved", "denied"},
           ClaimPause(a, decision)
    PROVE  [Gate!Next]_Gate!gateVars
<1>1. PICK k \in Pending :
        /\ k = Len(pauses) /\ k \in DOMAIN pauses /\ k \in Segments
        /\ k + 1 \in Segments /\ pauses[k] = PendingRow
        /\ stage' = [stage EXCEPT ![k + 1] = "running"]
        /\ DOMAIN pauses' = DOMAIN pauses
        /\ pauses'[k] = [status |-> "resolved", decision |-> decision]
        /\ \A j \in DOMAIN pauses : j # k => pauses'[j] = pauses[j]
        /\ ran' = ran
  BY ClaimFacts
<1>2. ~Denied
  BY <1>1, DenialIsLast DEF Denied
<1>3. phase = "waiting"
  BY <1>1, <1>2, PhaseIs
<1>4. CASE decision = "denied"
  <2>1. phase' = "over"
    BY <1>1, <1>4 DEF phase
  <2>2. granted' = granted
    BY <1>1, <1>4 DEF granted, DecisionOf, PendingRow
  <2>3. QED
    BY <1>1, <1>3, <2>1, <2>2 DEF Gate!Next, Gate!Deny
<1>5. CASE decision = "approved"
  <2>1. ~Denied'
    BY <1>1, <1>2, <1>5 DEF Denied
  <2>2. Pending' = {}
    <3>1. \A j \in DOMAIN pauses : j # k => j \notin Pending
      BY <1>1, PendingIsLast
    <3>2. QED
      BY <1>1, <3>1 DEF Pending
  <2>3. stage'[k + 1] = "running"
    BY <1>1 DEF RunInv, TypeOK
  <2>4. phase' = "running"
    BY <1>1, <2>1, <2>2, <2>3 DEF phase, Denied
  <2>5. granted[k] = 0 /\ granted'[k] = 1
    BY <1>1, <1>5 DEF granted, DecisionOf, PendingRow
  <2>6. granted' = [granted EXCEPT ![k] = @ + 1]
    <3>1. \A j \in Segments : j # k => granted'[j] = granted[j]
      BY <1>1 DEF granted, DecisionOf
    <3>2. granted \in [Segments -> {0, 1}] /\ granted' \in [Segments -> {0, 1}]
      BY DEF granted
    <3>3. QED
      BY <1>1, <2>5, <3>1, <3>2
  <2>7. Gate!Approve(k)
    BY <1>1, <1>3, <2>4, <2>6 DEF Gate!Approve
  <2>8. QED
    BY <1>1, <2>7 DEF Gate!Next
<1>6. QED
  BY <1>4, <1>5

LEMMA StepIsGateStep == RunInv /\ [Next]_vars => [Gate!Next]_Gate!gateVars
<1> SUFFICES ASSUME RunInv, [Next]_vars PROVE [Gate!Next]_Gate!gateVars
  OBVIOUS
<1>1. ASSUME NEW k \in Segments, SaveRun(k) \/ NothingToQueue(k) \/ RecordTurn(k) \/ Crash(k)
      PROVE  [Gate!Next]_Gate!gateVars
  <2>1. UNCHANGED <<pauses, ran>>
    BY <1>1 DEF SaveRun, NothingToQueue, RecordTurn, Crash, rowVars
  <2>2. \A j \in Segments : Busy(j)' => Busy(j)
    BY <1>1 DEF RunInv, TypeOK, Busy, SaveRun, NothingToQueue, RecordTurn, Crash, Moves
  <2>3. QED
    BY <2>1, <2>2, QuietStep
<1>2. ASSUME NEW k \in Segments, Segment(k) PROVE [Gate!Next]_Gate!gateVars
  BY <1>1, <1>2, EngineStep, PauseStep DEF Segment
<1>3. ASSUME UNCHANGED <<rowVars, segmentVars>> PROVE [Gate!Next]_Gate!gateVars
  BY <1>3, QuietStep DEF rowVars, segmentVars, Busy
<1>4. ASSUME NEW a \in Approvers, Approver(a) PROVE [Gate!Next]_Gate!gateVars
  BY <1>3, <1>4, DeskPreserves, ClaimStep DEF Approver
<1>5. CASE UNCHANGED vars
  BY <1>3, <1>5 DEF vars
<1>6. QED
  BY <1>1, <1>2, <1>4, <1>5 DEF Next

\* The k-th write is started at most once per approval of the k-th pause, and
\* nothing is started while a human is asked or after a denial: over many
\* processes the run is still a behaviour of HumanGate.
THEOREM RunImplementsGate == Spec => ImplementsGate
<1>1. Init => Gate!Init
  <2> SUFFICES ASSUME Init PROVE Gate!Init
    OBVIOUS
  <2>1. pauses = <<>> /\ DOMAIN pauses = {} /\ stage[1] = "running" /\ 1 \in Segments
    BY RunAssumption DEF Init, Segments
  <2>2. phase = "running"
    BY <2>1 DEF phase, Pending
  <2>3. granted = [k \in Segments |-> 0]
    BY <2>1 DEF granted, DecisionOf
  <2>4. QED
    BY <2>2, <2>3 DEF Init, Gate!Init
<1>2. RunInv /\ [Next]_vars => [Gate!Next]_Gate!gateVars
  BY StepIsGateStep
<1>3. QED
  BY <1>1, <1>2, RunInvariant, PTL DEF Spec, ImplementsGate, Gate!Spec

=============================================================================
