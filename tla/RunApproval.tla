----------------------------- MODULE RunApproval -----------------------------
(***************************************************************************)
(* One run that waits for humans, across processes: engine/orchestrator.py *)
(* files it, persistence/postgres_pause.py holds the queue, and            *)
(* web/service.py lets approvers answer.                                   *)
(*                                                                         *)
(* A run is a sequence of segments.  Segment 1 is handle(); each approval  *)
(* that is claimed starts the next one, resume(), in the process of the    *)
(* approver that claimed it.  A segment ends the run or pauses it on the   *)
(* next write, so the k-th segment files the k-th pause.  The rows of other *)
(* runs are out of reach of every statement used here.                     *)
(*                                                                         *)
(* A definition with no use (ClaimAnyRow, say) is a likely mistake in the  *)
(* definition after it, which one of the properties would catch.           *)
(***************************************************************************)
EXTENDS Naturals, Sequences

CONSTANTS
    Approvers,      \* people who may decide, each at a screen
    MaxSegments,    \* the bound on the segments of a run
    MayCrash        \* processes may die and stores may raise

ASSUME RunAssumption ==
    /\ MaxSegments \in Nat \ {0}
    /\ MayCrash \in BOOLEAN

VARIABLES
    pauses,     \* the run's rows of the pauses table, in insertion order
    record,     \* its row of the runs table
    window,     \* its row of the session_turns table
    stage,      \* stage[k]: how far segment k has come
    ending,     \* ending[k]: how the engine left segment k
    ran,        \* history: how often the write of pause k was started
    desk,       \* where each approver's request is
    shown,      \* the pause whose call each approver was shown
    claimed     \* the pause each approver's latest claim settled

rowVars     == <<pauses, record, window>>
segmentVars == <<stage, ending, ran>>
deskVars    == <<desk, shown, claimed>>
vars == <<rowVars, segmentVars, deskVars>>

Segments == 1..MaxSegments

Outcomes == {"none", "paused", "terminal"}

Stages == {"none", "running", "ran", "filed", "queued", "done", "lost", "refused"}

\* Where a request of an approver may be; at the last six it is answered.
Answered == {"idle", "conflict", "assertion", "settled", "won", "forgotten"}
Desks == Answered \cup {"reading", "checked", "prechecked"}

PendingRow == [status |-> "pending", decision |-> "none"]

Pending == {k \in DOMAIN pauses : pauses[k].status = "pending"}

Init ==
    /\ pauses = <<>>
    /\ record = [segment |-> 0, outcome |-> "none"]
    /\ window = [segment |-> 0, outcome |-> "none"]
    /\ stage = [k \in Segments |-> IF k = 1 THEN "running" ELSE "none"]
    /\ ending = [k \in Segments |-> "none"]
    /\ ran = [k \in Segments |-> 0]
    /\ desk = [a \in Approvers |-> "idle"]
    /\ shown = [a \in Approvers |-> 0]
    /\ claimed = [a \in Approvers |-> 0]

-----------------------------------------------------------------------------
(***************************************************************************)
(* The orchestrator.                                                       *)
(***************************************************************************)
Moves(k, from, to) == stage[k] = from /\ stage' = [stage EXCEPT ![k] = to]

\* How pause k was answered; the call of segment 1 is nobody's.
DecisionOf(k) == IF k \in DOMAIN pauses THEN pauses[k].decision ELSE "none"

RunUndecided(k) ==
    /\ Moves(k, "running", "ran")
    /\ \E e \in {"paused", "terminal"} :
         /\ e = "paused" => k < MaxSegments
         /\ ending' = [ending EXCEPT ![k] = e]
    /\ ran' = IF k > 1 THEN [ran EXCEPT ![k - 1] = @ + 1] ELSE ran
    /\ UNCHANGED <<rowVars, deskVars>>

\* runtime.run or resume_approval: an approved write is started, unless the
\* gateway refuses it or the budget is spent, and the run ends or, after a
\* write that succeeded, pauses on another one; a denial ends it.
RunEngine(k) ==
    /\ Moves(k, "running", "ran")
    /\ \E e \in {"paused", "terminal"}, starts \in BOOLEAN :
         /\ starts => DecisionOf(k - 1) = "approved"
         /\ e = "paused" => k < MaxSegments /\ (starts \/ k = 1)
         /\ ending' = [ending EXCEPT ![k] = e]
         /\ ran' = IF starts THEN [ran EXCEPT ![k - 1] = @ + 1] ELSE ran
    /\ UNCHANGED <<rowVars, deskVars>>

SaveRunBeforeItEnds(k) ==
    /\ Moves(k, "ran", "filed")
    /\ record' = [segment |-> k, outcome |-> stage[k]]
    /\ UNCHANGED <<pauses, window, ending, ran, deskVars>>

SaveRun(k) ==
    /\ Moves(k, "ran", "filed")
    /\ record' = [segment |-> k, outcome |-> ending[k]]
    /\ UNCHANGED <<pauses, window, ending, ran, deskVars>>

PauseBeforeRecord(k) ==
    /\ ending[k] = "paused"
    /\ Pending = {}
    /\ Moves(k, "ran", "queued")
    /\ pauses' = Append(pauses, PendingRow)
    /\ UNCHANGED <<record, window, ending, ran, deskVars>>

ResumeFilesNoPause(k) ==
    /\ k = 1 /\ ending[k] = "paused"
    /\ Moves(k, "filed", "queued")
    /\ pauses' = Append(pauses, PendingRow)
    /\ UNCHANGED <<record, window, ending, ran, deskVars>>

\* The partial unique index lets one pending row of a run in.
SavePause(k) ==
    /\ ending[k] = "paused"
    /\ IF Pending = {}
       THEN Moves(k, "filed", "queued") /\ pauses' = Append(pauses, PendingRow)
       ELSE Moves(k, "filed", "refused") /\ UNCHANGED pauses
    /\ UNCHANGED <<record, window, ending, ran, deskVars>>

NothingToQueue(k) ==
    /\ ending[k] = "terminal"
    /\ Moves(k, "filed", "queued")
    /\ UNCHANGED <<rowVars, ending, ran, deskVars>>

\* _recorded: an upsert whose failure is only logged.
RecordTurn(k) ==
    /\ Moves(k, "queued", "done")
    /\ window' \in {[segment |-> k, outcome |-> ending[k]]} \cup
                   (IF MayCrash THEN {window} ELSE {})
    /\ UNCHANGED <<pauses, record, ending, ran, deskVars>>

\* The process of segment k dies, or a store it calls raises.  Nobody takes
\* the segment up again.
Crash(k) ==
    /\ MayCrash
    /\ stage[k] \in {"running", "ran", "filed", "queued"}
    /\ stage' = [stage EXCEPT ![k] = "lost"]
    /\ UNCHANGED <<rowVars, ending, ran, deskVars>>

Segment(k) ==
    RunEngine(k) \/ SaveRun(k) \/ SavePause(k) \/ NothingToQueue(k) \/ RecordTurn(k)

-----------------------------------------------------------------------------
(***************************************************************************)
(* An approver: the queue is listed, then the decision is posted.  The     *)
(* request names the run, not the pause.                                   *)
(***************************************************************************)
ListApprovals(a) ==
    /\ desk[a] \in Answered
    /\ \E k \in Pending : shown' = [shown EXCEPT ![a] = k]
    /\ desk' = [desk EXCEPT ![a] = "reading"]
    /\ claimed' = [claimed EXCEPT ![a] = 0]
    /\ UNCHANGED <<rowVars, segmentVars>>

\* precheck_approval, first statement: the status of one row of the run, in no
\* stated order.
CheckStatus(a) ==
    /\ desk[a] = "reading"
    /\ \E k \in DOMAIN pauses :
         desk' = [desk EXCEPT ![a] =
                    IF pauses[k].status = "pending" THEN "checked" ELSE "conflict"]
    /\ UNCHANGED <<rowVars, segmentVars, shown, claimed>>

\* Second statement: the pending state, asserted to be there.
LoadPending(a) ==
    /\ desk[a] = "checked"
    /\ desk' = [desk EXCEPT ![a] = IF Pending = {} THEN "assertion" ELSE "prechecked"]
    /\ UNCHANGED <<rowVars, segmentVars, shown, claimed>>

ReadWithoutSettling(a, decision) ==
    /\ desk[a] = "prechecked"
    /\ \E k \in Pending :
         /\ pauses' = [pauses EXCEPT ![k].decision = decision]
         /\ Moves(k + 1, "none", "running")
         /\ claimed' = [claimed EXCEPT ![a] = k]
         /\ desk' = [desk EXCEPT ![a] = "won"]
    /\ UNCHANGED <<record, window, ending, ran, shown>>

ClaimAnyRow(a, decision) ==
    /\ desk[a] = "prechecked"
    /\ \E k \in DOMAIN pauses :
         /\ pauses' = [pauses EXCEPT ![k] = [status |-> "resolved", decision |-> decision]]
         /\ stage' = [stage EXCEPT ![k + 1] = "running"]
         /\ claimed' = [claimed EXCEPT ![a] = k]
         /\ desk' = [desk EXCEPT ![a] = "won"]
    /\ UNCHANGED <<record, window, ending, ran, shown>>

\* resume_turn claims, in one UPDATE, whatever row of the run is pending, and
\* goes on from there as the run's next segment.
ClaimPause(a, decision) ==
    /\ desk[a] = "prechecked"
    /\ \E k \in Pending :
         /\ pauses' = [pauses EXCEPT ![k] = [status |-> "resolved", decision |-> decision]]
         /\ Moves(k + 1, "none", "running")
         /\ claimed' = [claimed EXCEPT ![a] = k]
         /\ desk' = [desk EXCEPT ![a] = "won"]
    /\ UNCHANGED <<record, window, ending, ran, shown>>

AlreadySettled(a) ==
    /\ desk[a] = "prechecked"
    /\ Pending = {}
    /\ desk' = [desk EXCEPT ![a] = "settled"]
    /\ UNCHANGED <<rowVars, segmentVars, shown, claimed>>

\* The approver walks away, or the request dies before it claims anything.
Forget(a) ==
    /\ desk[a] \in {"reading", "checked", "prechecked"}
    /\ desk' = [desk EXCEPT ![a] = "forgotten"]
    /\ UNCHANGED <<rowVars, segmentVars, shown, claimed>>

Approver(a) ==
    \/ ListApprovals(a) \/ CheckStatus(a) \/ LoadPending(a)
    \/ \E decision \in {"approved", "denied"} : ClaimPause(a, decision)
    \/ AlreadySettled(a) \/ Forget(a)

Next ==
    \/ \E k \in Segments : Segment(k) \/ Crash(k)
    \/ \E a \in Approvers : Approver(a)

Spec == Init /\ [][Next]_vars

\* Every process that is not killed finishes its segment; people may do nothing.
FairSpec == Spec /\ \A k \in Segments : WF_vars(Segment(k))

-----------------------------------------------------------------------------
\* The rows, the segments and the desks keep their types.
TypeOK ==
    /\ pauses \in Seq([status : {"pending", "resolved"},
                       decision : {"none", "approved", "denied"}])
    /\ Len(pauses) <= MaxSegments
    /\ record \in [segment : 0..MaxSegments, outcome : Outcomes]
    /\ window \in [segment : 0..MaxSegments, outcome : Outcomes]
    /\ stage \in [Segments -> Stages]
    /\ ending \in [Segments -> Outcomes]
    /\ ran \in [Segments -> Nat]
    /\ desk \in [Approvers -> Desks]
    /\ shown \in [Approvers -> 0..MaxSegments]
    /\ claimed \in [Approvers -> 0..MaxSegments]

\* A pause never exists without its run record beside it: while a human is
\* asked about the k-th pause the record is the one of the k-th segment and
\* says the run is waiting.
PendingHasItsRecord ==
    \A k \in Pending : record = [segment |-> k, outcome |-> "paused"]

\* A pausing run never finds an earlier pause of its own still waiting, so
\* PauseAlreadyPending is never raised, whatever crashed before.
PausesAreFiled == \A k \in Segments : stage[k] # "refused"

\* One decision, one row, one process: no two approvers settled the same
\* pause, and no two segments of the run are between their start and the
\* filing of their record.
OneProcessDrivesTheRun ==
    /\ \A a, b \in Approvers : claimed[a] # 0 /\ claimed[a] = claimed[b] => a = b
    /\ \A j, k \in Segments :
         stage[j] \in {"running", "ran", "filed"} /\ stage[k] \in {"running", "ran", "filed"}
         => j = k

\* The run's record is never replaced by an older segment's, and a settled
\* pause never changes.
RecordsOnlyAdvance ==
    [][/\ record'.segment >= record.segment
       /\ \A k \in DOMAIN pauses :
            pauses[k].status = "resolved" => pauses'[k] = pauses[k]]_vars

\* A run recorded as waiting reaches the approvers' queue, unless the process
\* that was filing it is lost.
WaitingRunsAreQueued ==
    \A k \in Segments :
        (record = [segment |-> k, outcome |-> "paused"]) ~>
            (k \in DOMAIN pauses \/ stage[k] = "lost")

(***************************************************************************)
(* Filed over many processes, the run is still the gate of HumanGate.      *)
(***************************************************************************)
phase ==
    IF \E k \in DOMAIN pauses : pauses[k].decision = "denied" THEN "over"
    ELSE IF Pending # {} THEN "waiting"
    ELSE IF \E k \in Segments :
               \/ stage[k] = "running"
               \/ stage[k] \in {"ran", "filed"} /\ ending[k] = "paused"
         THEN "running" ELSE "over"

granted == [k \in Segments |-> IF DecisionOf(k) = "approved" THEN 1 ELSE 0]

Gate == INSTANCE HumanGate WITH Calls <- Segments, Writes <- Segments

\* The k-th write is started at most once per approval of the k-th pause, and
\* nothing is started while a human is asked or after a denial.
ImplementsGate == Gate!Spec

(***************************************************************************)
(* The inductive invariant.  A run is a line of segments: the k-th has     *)
(* started exactly when the pause before it is settled, so at most one is  *)
(* unfinished and at most one pause, the last, is pending.                 *)
(***************************************************************************)
Settled(k) == k \in DOMAIN pauses /\ pauses[k].status = "resolved"

\* Only the last pause may be pending, and settled means decided.
QueueInv ==
    \A k \in DOMAIN pauses :
        /\ k < Len(pauses) => pauses[k].status = "resolved"
        /\ pauses[k].status = "pending" <=> pauses[k].decision = "none"

\* A segment after the first has started exactly when the pause before it is
\* settled, and a pause is filed by a segment that has finished pausing.
ChainInv ==
    /\ stage[1] # "none"
    /\ \A k \in Segments : k > 1 => (stage[k] # "none" <=> Settled(k - 1))
    /\ \A k \in DOMAIN pauses :
         stage[k] \in {"queued", "done", "lost"} /\ ending[k] = "paused"

\* How the engine left a segment is known once it has, and a segment that was
\* started by a denial does not pause.
EndingInv ==
    \A k \in Segments :
        /\ stage[k] \in {"none", "running"} => ending[k] = "none"
        /\ stage[k] \in {"ran", "filed", "queued", "done"} => ending[k] # "none"
        /\ ending[k] = "paused" => k < MaxSegments /\ DecisionOf(k - 1) # "denied"

\* The record is that of a segment that filed it, and no later one has.
RecordInv ==
    /\ record.segment > 0 =>
         /\ stage[record.segment] \notin {"none", "running", "ran"}
         /\ record.outcome = ending[record.segment]
    /\ \A k \in Segments :
         stage[k] \in {"filed", "queued", "done"} \/ k \in DOMAIN pauses
         => record.segment >= k

\* A claim settled its pause, and nobody else's did.
ClaimInv ==
    /\ \A a \in Approvers : claimed[a] # 0 => Settled(claimed[a])
    /\ \A a, b \in Approvers : claimed[a] # 0 /\ claimed[a] = claimed[b] => a = b

\* A write is started by the segment its approval started, once.
StartInv ==
    \A k \in Segments :
        /\ ran[k] <= granted[k]
        /\ (k < MaxSegments => stage[k + 1] \in {"none", "running"}) => ran[k] = 0

\* Every step of a segment, a crash and an approver preserves this.
RunInv ==
    /\ TypeOK /\ PausesAreFiled
    /\ QueueInv /\ ChainInv /\ EndingInv /\ RecordInv /\ ClaimInv /\ StartInv

(***************************************************************************)
(* What the repository's own comments say and the code does not do.        *)
(***************************************************************************)
\* persistence/postgres_pause.py refuses what "would let an approver answer a
\* call they were never shown".  A claim settles the pause its approver saw.
ApproversSawTheCall == \A a \in Approvers : claimed[a] \in {0, shown[a]}

\* web/service.py: "Conflict: The pause exists but is not pending anymore."
ConflictMeansSettled ==
    [][\A a \in Approvers :
         (desk[a] = "reading" /\ desk'[a] = "conflict") => Pending = {}]_vars

=============================================================================
