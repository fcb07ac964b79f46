------------------------- MODULE SessionMemoryProofs -------------------------
(***************************************************************************)
(* What the records of a project's memory are, for every set of turns and  *)
(* of statements, whatever fails and however the turns interleave.         *)
(*                                                                         *)
(* And what becomes of the turns a session's window no longer shows: they  *)
(* are folded into summaries, one after the other, for every number of     *)
(* turns, every length of window, of batch and of section, whatever fails: *)
(* the goal stands, the window leaves no gap, and no question is lost.     *)
(***************************************************************************)
EXTENDS SessionMemory, EnumerationProofs, FiniteSetTheorems, SequenceTheorems,
        WellFoundedInduction, TLAPS

Others(p) == \A q \in Processes : q # p => job'[q] = job[q]

LEMMA SizesOf ==
    /\ Turns \in SUBSET (Nat \ {0}) /\ Clarified \in SUBSET Turns /\ Pausers \in SUBSET Turns
    /\ TurnLimit \in Nat \ {0} /\ Batch \in Nat \ {0} /\ ItemCap \in Nat \ {0}
    /\ MaxFailures \in Nat
  BY MemoryAssumption, SummaryAssumption DEF MemoryAssumption, SummaryAssumption

(***************************************************************************)
(* How each action changes the job of its process.                         *)
(***************************************************************************)
LEMMA MoveShape ==
    ASSUME JobShape, NEW p \in Processes, NEW from, NEW to, Moves(p, from, to)
    PROVE  /\ JobShape' /\ Others(p)
           /\ job[p].at = from /\ job'[p].at = to
           /\ job'[p].wrote = job[p].wrote /\ job'[p].retiring = job[p].retiring
           /\ job'[p].existing = job[p].existing /\ job'[p].left = job[p].left
  BY DEF JobShape, Fields, Idle, Moves, Others

LEMMA ResetShape ==
    ASSUME JobShape, NEW p \in Processes, NEW to,
           \/ job' = [job EXCEPT ![p] = [Idle EXCEPT !.at = to]]
           \/ job' = [job EXCEPT ![p] = [Idle EXCEPT !.at = to, !.evicted = job[p].evicted]]
    PROVE  /\ JobShape' /\ Others(p)
           /\ job'[p].at = to /\ job'[p].wrote = {} /\ job'[p].retiring = {}
<1>1. PICK r : /\ job' = [job EXCEPT ![p] = r]
               /\ \/ r = [Idle EXCEPT !.at = to]
                  \/ r = [Idle EXCEPT !.at = to, !.evicted = job[p].evicted]
  OBVIOUS
<1>2. DOMAIN r = Fields /\ r = [f \in Fields |-> r[f]]
  BY <1>1 DEF Fields, Idle
<1>3. r.at = to /\ r.wrote = {} /\ r.retiring = {}
  BY <1>1 DEF Idle
<1>4. Others(p) /\ job'[p] = r /\ DOMAIN job' = Processes
  BY <1>1 DEF JobShape, Others
<1>5. JobShape'
  BY <1>1, <1>2, <1>4 DEF JobShape, Others
<1>6. QED
  BY <1>3, <1>4, <1>5

LEMMA ReadEvictedShape ==
    ASSUME JobShape, NEW p \in Processes, ReadEvicted(p)
    PROVE  /\ JobShape' /\ Others(p)
           /\ job[p].at = "ended" /\ job'[p].at = "evicted"
           /\ job'[p].wrote = job[p].wrote /\ job'[p].retiring = job[p].retiring
  BY DEF JobShape, Fields, Idle, Others, ReadEvicted

LEMMA ReadExistingShape ==
    ASSUME JobShape, NEW p \in Processes, ReadExisting(p)
    PROVE  /\ JobShape' /\ Others(p) /\ job[p].at = "evicted"
           /\ job'[p].wrote = job[p].wrote /\ job'[p].retiring = job[p].retiring
           /\ \/ job'[p].at = "promoting"
              \/ /\ job'[p].at = "judging" /\ job'[p].existing = Live(ScopeOf[p[1]])
                 /\ job'[p].left \in Proposals[p[1]]
<1>1. job[p].at = "evicted"
  BY DEF ReadExisting
<1>2. CASE job' = [job EXCEPT ![p].at = "promoting"]
  BY <1>1, <1>2 DEF JobShape, Fields, Idle, Others
<1>3. CASE \E list \in Proposed(p[1]) :
             job' = [job EXCEPT ![p].at = "judging", ![p].left = list,
                                ![p].existing = Live(ScopeOf[p[1]])]
  <2>1. PICK list, existing :
               /\ list \in Proposals[p[1]] /\ existing = Live(ScopeOf[p[1]])
               /\ job' = [job EXCEPT ![p].at = "judging", ![p].left = list,
                                     ![p].existing = existing]
    BY <1>3 DEF Proposed
  <2>2. QED
    BY <1>1, <2>1 DEF JobShape, Fields, Idle, Others
<1>4. QED
  BY <1>2, <1>3 DEF ReadExisting

LEMMA ReadPreviousShape ==
    ASSUME JobShape, NEW p \in Processes, ReadPrevious(p)
    PROVE  /\ JobShape' /\ Others(p)
           /\ job[p].at = "promoting" /\ job'[p].at \in {"retiring", "folding"}
           /\ job'[p].wrote = job[p].wrote /\ job'[p].retiring = job[p].retiring
  BY DEF JobShape, Fields, Idle, Others, ReadPrevious

(***************************************************************************)
(* What a fold comes to, for what its proposer named.                      *)
(***************************************************************************)
FoldGoal(p, named) == Safe(Goal(job[p].evicted, named.goal, Carried(p).goal))

FoldMerged(p, named) == Merged(job[p].evicted, named.asked, Carried(p).items)

FoldItems(p, named) == Safe(Capped(FoldMerged(p, named)))

FoldRow(p, named, text) ==
    [run |-> p[1], live |-> TRUE, links |-> job[p].evicted,
     named |-> named.goal # <<>>, text |-> text]

SaysNothing(p, named, other) ==
    FoldGoal(p, named) = <<>> /\ FoldItems(p, named) = <<>> /\ ~other

FoldCase(p, named, other, text) ==
    /\ named \in Summaries[p[1]] \cup {Silent}
    /\ text \in Statements(FoldGoal(p, named), FoldItems(p, named), other)
    /\ spilled' = spilled \cup Spilled(FoldMerged(p, named), FoldItems(p, named), text)
    /\ job' = IF SaysNothing(p, named, other)
              THEN [job EXCEPT ![p].at = "retiring", ![p].previous = 0]
              ELSE [job EXCEPT ![p].at = "writing", ![p].previous = 0,
                               ![p].summary = <<FoldRow(p, named, text)>>,
                               ![p].replaces = LiveSummaries(p[1])]

LEMMA FoldIs ==
    ASSUME NEW p \in Processes, Fold(p)
    PROVE  /\ job[p].at = "folding"
           /\ \E named, other, text : FoldCase(p, named, other, text)
           /\ live' = live /\ searchable' = searchable /\ summaries' = summaries
           /\ table' = table /\ promoted' = promoted /\ filed' = filed
           /\ overlapped' = overlapped /\ returned' = returned /\ failures' = failures
<1>u. /\ live' = live /\ searchable' = searchable /\ summaries' = summaries
      /\ table' = table /\ promoted' = promoted /\ filed' = filed
      /\ overlapped' = overlapped /\ returned' = returned /\ failures' = failures
  BY Zenon DEF Fold, storeVars, windowVars
<1>1. job[p].at = "folding"
  BY Zenon DEF Fold
<1>2. PICK named \in Summaries[p[1]] \cup {Silent}, other \in BOOLEAN :
        \E text \in Statements(FoldGoal(p, named), FoldItems(p, named), other) :
           /\ spilled' = spilled \cup Spilled(FoldMerged(p, named), FoldItems(p, named), text)
           /\ job' = IF FoldGoal(p, named) = <<>> /\ FoldItems(p, named) = <<>> /\ ~other
                     THEN [job EXCEPT ![p].at = "retiring", ![p].previous = 0]
                     ELSE [job EXCEPT ![p].at = "writing", ![p].previous = 0,
                                      ![p].summary = <<FoldRow(p, named, text)>>,
                                      ![p].replaces = LiveSummaries(p[1])]
  BY Zenon DEF Fold, FoldGoal, FoldItems, FoldMerged, FoldRow
<1>3. QED
  BY <1>u, <1>1, <1>2, Zenon DEF FoldCase, SaysNothing

LEMMA FoldShape ==
    ASSUME JobShape, NEW p \in Processes, Fold(p)
    PROVE  /\ JobShape' /\ Others(p)
           /\ job[p].at = "folding" /\ job'[p].at \in {"retiring", "writing"}
           /\ job'[p].evicted = job[p].evicted
           /\ job'[p].wrote = job[p].wrote /\ job'[p].retiring = job[p].retiring
<1>1. job[p].at = "folding"
  BY FoldIs
<1>2. PICK summary, replaces :
        \/ job' = [job EXCEPT ![p].at = "retiring", ![p].previous = 0]
        \/ job' = [job EXCEPT ![p].at = "writing", ![p].previous = 0,
                             ![p].summary = summary, ![p].replaces = replaces]
  <2>1. PICK named, other, text : FoldCase(p, named, other, text)
    BY FoldIs
  <2> DEFINE rows == <<FoldRow(p, named, text)>>
             replaced == LiveSummaries(p[1])
  <2>2. \/ job' = [job EXCEPT ![p].at = "retiring", ![p].previous = 0]
        \/ job' = [job EXCEPT ![p].at = "writing", ![p].previous = 0,
                             ![p].summary = rows, ![p].replaces = replaced]
    BY <2>1, Zenon DEF FoldCase
  <2> HIDE DEF rows, replaced
  <2>3. QED
    BY <2>2, Zenon
<1>3. CASE job' = [job EXCEPT ![p].at = "retiring", ![p].previous = 0]
  BY <1>1, <1>3 DEF JobShape, Fields, Idle, Others
<1>4. CASE job' = [job EXCEPT ![p].at = "writing", ![p].previous = 0,
                              ![p].summary = summary, ![p].replaces = replaces]
  BY <1>1, <1>4 DEF JobShape, Fields, Idle, Others
<1>5. QED
  BY <1>2, <1>3, <1>4

LEMMA RetireShape ==
    ASSUME JobShape, NEW p \in Processes, Retire(p)
    PROVE  /\ JobShape' /\ Others(p)
           /\ job[p].at = "retiring" /\ job'[p].at = "unindexing"
           /\ job'[p].wrote = job[p].wrote /\ job'[p].retiring = job[p].retiring \cap live
           /\ live' = live \ job[p].retiring
  BY DEF JobShape, Fields, Idle, Others, Retire, Superseded

\* A candidate that is kept is written under its scope, and replaces records
\* of its own kind and scope that say something else; every record under the
\* key it is given is among them.
LEMMA VerdictReplaces ==
    ASSUME NEW existing, NEW scope, NEW c \in Candidates,
           NEW verdict \in Decide(c, existing, scope), Stores(verdict),
           NEW id, id = MemoryId([c EXCEPT !.key = verdict.key], scope)
    PROVE  /\ InBounds(id, scope)
           /\ verdict.supersedes \subseteq existing
           /\ \A old \in verdict.supersedes : Replaces(id, old) /\ Heir(id, old)
           /\ verdict.supersedes # {} =>
                \E old \in verdict.supersedes : Slot(id) = Slot(old)
           /\ OnePerKey(existing) =>
                \A old \in existing :
                   InBounds(old, scope) /\ old.kind = id.kind /\ old.key = id.key
                        => old \in verdict.supersedes
<1> DEFINE same == SameKey(c, existing, scope)
           topic == SameTopic(c, existing, scope)
<1>1. id.kind = c.kind /\ id.key = verdict.key /\ id.text = c.text
      /\ id.owner = OwnerOf(c.kind, scope)
  BY DEF Candidates, MemoryId
<1>r. \A reason : ~Stores(Refusal(reason))
  BY DEF Stores, Refusal
<1>2. verdict \in Conflict(c, existing, scope)
  BY <1>r, Zenon DEF Decide
<1>3. Twins(c, existing, scope) = {}
  BY <1>r, <1>2, Zenon DEF Conflict
<1>4. \/ same # {} /\ verdict.supersedes = same /\ verdict.key = c.key
      \/ same = {} /\ topic # {} /\ verdict.supersedes = topic
              /\ \E key \in KeptKeys(c, topic) : verdict.key = key
      \/ same = {} /\ verdict.supersedes = {} /\ verdict.key = c.key
  BY <1>2, <1>3 DEF Conflict
<1>5. \A old \in existing :
         InBounds(old, scope) /\ old.kind = c.kind => old.text # c.text
  BY <1>3 DEF Twins
<1>6. \A old \in same \cup topic :
         old \in existing /\ InBounds(old, scope) /\ old.kind = c.kind
  BY DEF SameKey, SameTopic
<1>7. InBounds(id, scope)
  BY <1>1 DEF InBounds
<1>8. \A old \in same \cup topic : Replaces(id, old)
  BY <1>1, <1>5, <1>6 DEF Replaces, InBounds
<1>h. \A old \in verdict.supersedes : Heir(id, old)
  <2>1. \A old \in same : old.key = c.key
    BY DEF SameKey
  <2>2. \A old \in topic : old.kind = "preference"
    BY DEF SameTopic
  <2>3. QED
    BY <1>1, <1>4, <1>8, <2>1, <2>2 DEF Heir, Replaces
<1>s. ASSUME verdict.supersedes # {}
      PROVE  \E old \in verdict.supersedes : Slot(id) = Slot(old)
  <2>1. PICK old \in verdict.supersedes : old.key = id.key
    <3>1. CASE verdict.supersedes = same /\ verdict.key = c.key
      BY <1>1, <1>s, <3>1 DEF SameKey
    <3>2. CASE verdict.supersedes = topic /\ \E key \in KeptKeys(c, topic) : verdict.key = key
      BY <1>1, <3>2 DEF KeptKeys
    <3>3. QED
      BY <1>4, <1>s, <3>1, <3>2
  <2>2. old.kind = id.kind /\ old.owner = id.owner
    BY <1>h, <2>1 DEF Heir
  <2>3. QED
    BY <2>1, <2>2 DEF Slot
<1>9. ASSUME OnePerKey(existing), NEW old \in existing, InBounds(old, scope),
             old.kind = id.kind, old.key = id.key
      PROVE  old \in verdict.supersedes
  <2>1. CASE verdict.key = c.key
    BY <1>1, <1>4, <1>9, <2>1 DEF SameKey
  <2>2. CASE verdict.supersedes = topic /\ \E key \in KeptKeys(c, topic) : verdict.key = key
    <3>1. PICK kept \in topic : kept.key = id.key
      BY <1>1, <2>2 DEF KeptKeys
    <3>2. kept = old
      BY <1>1, <1>6, <1>9, <3>1 DEF OnePerKey, InBounds
    <3>3. QED
      BY <2>2, <3>1, <3>2
  <2>3. QED
    BY <1>4, <2>1, <2>2
<1>10. QED
  BY <1>4, <1>6, <1>7, <1>8, <1>9, <1>h, <1>s

\* What judging a candidate does to the job and to the table.
LEMMA JudgeShape ==
    ASSUME JobShape, NEW p \in Processes, Judge(p), HandInv(p)
    PROVE  /\ JobShape' /\ Others(p)
           /\ job[p].at = "judging" /\ job'[p].at \in {"judging", "promoting"}
           /\ job'[p].left \in Seq(Candidates)
           /\ job'[p].at = "judging" => job'[p].left # <<>>
           /\ \/ /\ job'[p].wrote = job[p].wrote /\ job'[p].retiring = job[p].retiring
                 /\ job'[p].existing = job[p].existing
                 /\ live' = live /\ returned' = returned
              \/ \E c \in Candidates :
                 \E verdict \in Decide(c, job[p].existing, ScopeOf[p[1]]) :
                   LET id == MemoryId([c EXCEPT !.key = verdict.key], ScopeOf[p[1]])
                   IN /\ Stores(verdict)
                      /\ job'[p].wrote = job[p].wrote \cup {id}
                      /\ job'[p].retiring = job[p].retiring \cup verdict.supersedes
                      /\ job'[p].existing = (job[p].existing \ verdict.supersedes) \cup {id}
                      /\ live' = live \cup {id}
                      /\ returned' = (returned \/ id \in job[p].retiring)
<1> DEFINE scope == ScopeOf[p[1]]
           c == Head(job[p].left)
           rest == Tail(job[p].left)
           to == IF rest = <<>> THEN "promoting" ELSE "judging"
           Id(verdict) == MemoryId([c EXCEPT !.key = verdict.key], scope)
<1>1. job[p].at = "judging" /\ c \in Candidates /\ rest \in Seq(Candidates)
  <2>1. job[p].at = "judging"
    BY Zenon DEF Judge
  <2>2. job[p].left \in Seq(Candidates) /\ job[p].left # <<>>
    BY <2>1 DEF HandInv
  <2>3. QED
    BY <2>1, <2>2
<1>2. PICK verdict \in Decide(c, job[p].existing, scope) :
           IF Stores(verdict)
           THEN /\ live' = Written(Id(verdict))
                /\ returned' = (returned \/ Id(verdict) \in job[p].retiring)
                /\ job' = [job EXCEPT
                     ![p].at = to, ![p].left = rest,
                     ![p].wrote = @ \cup {Id(verdict)},
                     ![p].existing = (@ \ verdict.supersedes) \cup {Id(verdict)},
                     ![p].retiring = @ \cup verdict.supersedes]
           ELSE /\ job' = [job EXCEPT ![p].at = to, ![p].left = rest]
                /\ UNCHANGED <<live, returned>>
  BY Zenon DEF Judge
<1>3. PICK next, id, gone :
        /\ next = to /\ id = Id(verdict) /\ gone = verdict.supersedes
  OBVIOUS
<1>4. next \in {"judging", "promoting"} /\ (next = "judging" => rest # <<>>)
  BY <1>3
<1> HIDE DEF Id, rest, to
<1>5. CASE Stores(verdict)
  <2>1. /\ live' = live \cup {id}
        /\ returned' = (returned \/ id \in job[p].retiring)
        /\ job' = [job EXCEPT
             ![p].at = next, ![p].left = rest,
             ![p].wrote = @ \cup {id},
             ![p].existing = (@ \ gone) \cup {id},
             ![p].retiring = @ \cup gone]
    BY <1>2, <1>3, <1>5, Zenon DEF Written
  <2>2. /\ JobShape' /\ Others(p)
        /\ job'[p].at = next /\ job'[p].left = rest
        /\ job'[p].wrote = job[p].wrote \cup {id}
        /\ job'[p].retiring = job[p].retiring \cup gone
        /\ job'[p].existing = (job[p].existing \ gone) \cup {id}
    BY <2>1 DEF JobShape, Fields, Idle, Others
  <2>3. QED
    BY <1>1, <1>2, <1>3, <1>4, <1>5, <2>1, <2>2, Zenon DEF Id
<1>6. CASE ~Stores(verdict)
  <2>1. /\ live' = live /\ returned' = returned
        /\ job' = [job EXCEPT ![p].at = next, ![p].left = rest]
    BY <1>2, <1>3, <1>6, Zenon
  <2>2. /\ JobShape' /\ Others(p)
        /\ job'[p].at = next /\ job'[p].left = rest
        /\ job'[p].wrote = job[p].wrote
        /\ job'[p].retiring = job[p].retiring
        /\ job'[p].existing = job[p].existing
    BY <2>1 DEF JobShape, Fields, Idle, Others
  <2>3. QED
    BY <1>1, <1>4, <2>1, <2>2, Zenon
<1>7. QED
  BY <1>5, <1>6
-----------------------------------------------------------------------------
(***************************************************************************)
(* A step of one process leaves what the others hold, and as long as       *)
(* nothing has overlapped there is no other at work.                       *)
(***************************************************************************)
LEMMA OneProcessSteps ==
    ASSUME RecordsInv, NEW p \in Active, JobShape', Others(p), HandInv(p)',
           overlapped' = overlapped, failures' \in {failures, failures + 1},
           Untroubled /\ Untroubled' =>
              /\ JudgingInv(p)'
              /\ p \in Active' \/ (OnePerKey(live') /\ live' \subseteq searchable')
    PROVE  RecordsInv'
<1>1. \A q \in Processes : HandInv(q)'
  BY DEF RecordsInv, Others, HandInv
<1>2. AloneInv'
  BY DEF RecordsInv, Others, AloneInv, Active
<1>3. ASSUME Untroubled' PROVE RestingInv' /\ \A q \in Processes : JudgingInv(q)'
  <2>1. Untroubled
    BY <1>3 DEF RecordsInv, Untroubled
  <2>2. JudgingInv(p)' /\ RestingInv'
    BY <1>3, <2>1 DEF RestingInv, Active
  <2>3. ASSUME NEW q \in Processes, q # p PROVE JudgingInv(q)'
    <3>1. q \notin Active /\ job'[q] = job[q]
      BY <2>1, <2>3 DEF RecordsInv, AloneInv, Untroubled, Others
    <3>2. job'[q].at \in Resting /\ q \notin Active'
      BY <3>1 DEF Active
    <3>3. QED
      BY <3>2 DEF JudgingInv, Resting, Settling
  <2>4. QED
    BY <2>2, <2>3
<1>4. overlapped' \in BOOLEAN /\ failures' \in Nat
  BY DEF RecordsInv
<1>5. QED
  BY <1>1, <1>2, <1>3, <1>4 DEF RecordsInv

LEMMA InitEstablishes == Init => RecordsInv
<1> SUFFICES ASSUME Init PROVE RecordsInv
  OBVIOUS
<1>1. JobShape
  BY DEF Init, JobShape, Fields, Idle
<1>2. Active = {} /\ AloneInv
  BY DEF Init, Active, Idle, Resting, AloneInv
<1>3. \A p \in Processes : HandInv(p) /\ JudgingInv(p)
  BY <1>2 DEF Init, Idle, HandInv, JudgingInv, Working, Settling
<1>4. RestingInv
  BY HeldAssumption DEF Init, RestingInv
<1>5. QED
  BY <1>1, <1>2, <1>3, <1>4 DEF Init, RecordsInv

\* A process that has started while nobody was at work finds the stores at rest.
LEMMA StartStep ==
    ASSUME RecordsInv, NEW p \in Processes, NEW to \in {"ended", "paused"}, Starts(p, to)
    PROVE  RecordsInv'
<1>1. /\ JobShape' /\ Others(p)
      /\ job[p].at = "idle" /\ job'[p].at = to
      /\ job'[p].wrote = {} /\ job'[p].retiring = {}
  BY MoveShape DEF RecordsInv, Starts, HandInv, Working, Settling
<1>2. \A q \in Processes : HandInv(q)'
  BY <1>1 DEF RecordsInv, HandInv, Others, Working, Settling
<1>3. Active' = Active \cup {p}
  BY <1>1 DEF Active, Others, Resting
<1>4. overlapped' = (overlapped \/ Active # {})
  BY DEF Starts
<1>5. AloneInv'
  BY <1>3, <1>4 DEF AloneInv, RecordsInv
<1>6. ASSUME Untroubled' PROVE RestingInv' /\ \A q \in Processes : JudgingInv(q)'
  <2>1. Untroubled /\ Active = {}
    BY <1>4, <1>6 DEF Untroubled, Starts, RecordsInv
  <2>2. OnePerKey(live) /\ live \subseteq searchable
    BY <2>1 DEF RecordsInv, RestingInv
  <2>3. ASSUME NEW q \in Processes PROVE JudgingInv(q)'
    <3>1. job'[q].at \notin Settling \cup {"judging"}
      BY <1>1, <2>1 DEF Others, Active, Resting, Settling
    <3>2. OnePerKey(live' \ job'[q].retiring) /\ live' \subseteq searchable'
      BY <2>2 DEF OnePerKey, Starts, storeVars
    <3>3. QED
      BY <3>1, <3>2 DEF JudgingInv, Settling
  <2>4. QED
    BY <1>3, <2>3 DEF RestingInv
<1>7. QED
  BY <1>1, <1>2, <1>4, <1>5, <1>6 DEF RecordsInv, Starts

\* Steps of a process that change neither what it holds nor the records.
LEMMA HoldingStep ==
    ASSUME RecordsInv, NEW p \in Processes, JobShape', Others(p),
           job[p].at \notin Resting \cup Settling \cup {"judging"},
           job'[p].at \in {"evicted", "retiring", "folding", "writing", "promoting", "recording"},
           job'[p].at \in Working \/ job[p].at \notin Working,
           job'[p].wrote = job[p].wrote, job'[p].retiring = job[p].retiring,
           live' = live, searchable' = searchable, overlapped' = overlapped,
           failures' \in {failures, failures + 1}
    PROVE  RecordsInv'
<1>1. p \in Active /\ p \in Active'
  BY DEF Active, Resting
<1>2. HandInv(p)'
  BY DEF RecordsInv, HandInv, Working, Settling
<1>3. ASSUME Untroubled PROVE JudgingInv(p)'
  <2>1. OnePerKey(live \ job[p].retiring) /\ live \subseteq searchable \cup job[p].wrote
    BY <1>1, <1>3 DEF RecordsInv, JudgingInv
  <2>2. QED
    BY <2>1 DEF JudgingInv, Settling
<1>4. QED
  BY <1>1, <1>2, <1>3, OneProcessSteps

LEMMA ReadExistingStep ==
    ASSUME RecordsInv, NEW p \in Processes, ReadExisting(p)
    PROVE  RecordsInv'
<1>1. /\ JobShape' /\ Others(p) /\ job[p].at = "evicted"
      /\ job'[p].wrote = {} /\ job'[p].retiring = {}
      /\ \/ job'[p].at = "promoting"
         \/ /\ job'[p].at = "judging" /\ job'[p].existing = Live(ScopeOf[p[1]])
            /\ job'[p].left \in Proposals[p[1]]
  BY ReadExistingShape DEF RecordsInv, HandInv, Working, Settling
<1>2. /\ live' = live /\ searchable' = searchable
      /\ overlapped' = overlapped /\ failures' = failures
  BY DEF ReadExisting, storeVars, history
<1>3. p \in Active /\ p \in Active'
  BY <1>1 DEF Active, Resting
<1>4. HandInv(p)'
  <2>1. p[1] \in Turns
    BY DEF Processes
  <2>2. QED
    BY <1>1, <2>1, ProposalAssumption DEF HandInv, Working, Settling
<1>5. ASSUME Untroubled PROVE JudgingInv(p)'
  <2>1. OnePerKey(live \ job[p].retiring) /\ live \subseteq searchable \cup job[p].wrote
    BY <1>3, <1>5 DEF RecordsInv, JudgingInv
  <2>2. OnePerKey(live) /\ live \subseteq searchable
    BY <1>1, <2>1 DEF RecordsInv, HandInv, Working, Settling
  <2>3. OnePerKey(Live(ScopeOf[p[1]]))
    BY <2>2 DEF OnePerKey, Live
  <2>4. job'[p].at = "judging" =>
              /\ OnePerKey(job'[p].existing)
              /\ \A id \in job'[p].existing : InBounds(id, ScopeOf[p[1]])
              /\ Live(ScopeOf[p[1]])' \ job'[p].retiring \subseteq job'[p].existing
    BY <1>1, <1>2, <2>3 DEF Live
  <2>5. OnePerKey(live' \ job'[p].retiring) /\ live' \subseteq searchable' \cup job'[p].wrote
    BY <1>1, <1>2, <2>2 DEF OnePerKey
  <2>6. job'[p].at \notin Settling
    BY <1>1 DEF Settling
  <2>7. QED
    BY <2>4, <2>5, <2>6 DEF JudgingInv, Settling
<1>6. QED
  BY <1>1, <1>2, <1>3, <1>4, <1>5, OneProcessSteps

\* A record that is written takes the place of those under its key: what will
\* be left once the replaced ones are retired still has one record per key.
LEMMA JudgeStep ==
    ASSUME RecordsInv, NEW p \in Processes, Judge(p)
    PROVE  RecordsInv'
<1> DEFINE scope == ScopeOf[p[1]]
<1>1. HandInv(p) /\ JobShape
  BY DEF RecordsInv
<1>2. /\ JobShape' /\ Others(p)
      /\ job[p].at = "judging" /\ job'[p].at \in {"judging", "promoting"}
      /\ job'[p].left \in Seq(Candidates)
      /\ job'[p].at = "judging" => job'[p].left # <<>>
  BY <1>1, JudgeShape
<1>3. /\ searchable' = searchable /\ overlapped' = overlapped /\ failures' = failures
  BY DEF Judge
<1>4. p \in Active /\ p \in Active'
  BY <1>2 DEF Active, Resting
<1>5. \/ /\ job'[p].wrote = job[p].wrote /\ job'[p].retiring = job[p].retiring
         /\ job'[p].existing = job[p].existing /\ live' = live
      \/ \E c \in Candidates : \E verdict \in Decide(c, job[p].existing, scope) :
           LET id == MemoryId([c EXCEPT !.key = verdict.key], scope)
           IN /\ Stores(verdict)
              /\ job'[p].wrote = job[p].wrote \cup {id}
              /\ job'[p].retiring = job[p].retiring \cup verdict.supersedes
              /\ job'[p].existing = (job[p].existing \ verdict.supersedes) \cup {id}
              /\ live' = live \cup {id}
  BY <1>1, JudgeShape
<1>6. ASSUME Untroubled
      PROVE  /\ OnePerKey(job[p].existing)
             /\ \A old \in job[p].existing : InBounds(old, scope)
             /\ \A old \in live : InBounds(old, scope) =>
                   old \in job[p].retiring \/ old \in job[p].existing
             /\ OnePerKey(live \ job[p].retiring)
             /\ live \subseteq searchable \cup job[p].wrote
  BY <1>2, <1>4, <1>6 DEF RecordsInv, JudgingInv, Live
<1>7. CASE /\ job'[p].wrote = job[p].wrote /\ job'[p].retiring = job[p].retiring
           /\ job'[p].existing = job[p].existing /\ live' = live
  <2>1. HandInv(p)'
    BY <1>1, <1>2, <1>7 DEF HandInv, Working
  <2>2. ASSUME Untroubled PROVE JudgingInv(p)'
    BY <1>2, <1>3, <1>6, <1>7, <2>2 DEF JudgingInv, Settling, Live
  <2>3. QED
    BY <1>2, <1>3, <1>4, <2>1, <2>2, OneProcessSteps
<1>8. ASSUME NEW c \in Candidates, NEW verdict \in Decide(c, job[p].existing, scope),
             NEW id, id = MemoryId([c EXCEPT !.key = verdict.key], scope),
             Stores(verdict),
             job'[p].wrote = job[p].wrote \cup {id},
             job'[p].retiring = job[p].retiring \cup verdict.supersedes,
             job'[p].existing = (job[p].existing \ verdict.supersedes) \cup {id},
             live' = live \cup {id}
      PROVE  RecordsInv'
  <2>1. /\ InBounds(id, scope)
        /\ verdict.supersedes \subseteq job[p].existing
        /\ \A old \in verdict.supersedes : Replaces(id, old)
        /\ OnePerKey(job[p].existing) =>
             \A old \in job[p].existing :
                InBounds(old, scope) /\ old.kind = id.kind /\ old.key = id.key
                     => old \in verdict.supersedes
    BY <1>8, VerdictReplaces
  <2>2. HandInv(p)'
    <3>1. \A old \in job'[p].retiring : \E new \in job'[p].wrote : Replaces(new, old)
      BY <1>1, <1>8, <2>1 DEF HandInv
    <3>2. QED
      BY <1>2, <3>1 DEF HandInv, Working
  <2>3. ASSUME Untroubled PROVE JudgingInv(p)'
    <3>1. /\ OnePerKey(job[p].existing)
          /\ \A old \in job[p].existing : InBounds(old, scope)
          /\ \A old \in live : InBounds(old, scope) =>
                old \in job[p].retiring \/ old \in job[p].existing
          /\ OnePerKey(live \ job[p].retiring)
          /\ live \subseteq searchable \cup job[p].wrote
      BY <1>6, <2>3
    <3>2. \A old \in job[p].existing \ verdict.supersedes :
             ~(old.kind = id.kind /\ old.key = id.key /\ old.owner = id.owner)
      BY <2>1, <3>1
    <3>3. OnePerKey(job'[p].existing)
      BY <1>8, <3>1, <3>2 DEF OnePerKey
    <3>4. \A old \in job'[p].existing : InBounds(old, scope)
      BY <1>8, <2>1, <3>1
    <3>5. \A old \in live' : InBounds(old, scope) =>
             old \in job'[p].retiring \/ old \in job'[p].existing
      BY <1>8, <3>1
    <3>6. \A old \in live \ job'[p].retiring :
             ~(old.kind = id.kind /\ old.key = id.key /\ old.owner = id.owner)
      BY <1>8, <2>1, <3>1, <3>2 DEF InBounds
    <3>7. OnePerKey(live' \ job'[p].retiring)
      BY <1>8, <3>1, <3>6 DEF OnePerKey
    <3>8. live' \subseteq searchable' \cup job'[p].wrote
      BY <1>3, <1>8, <3>1
    <3>9. QED
      BY <1>2, <3>3, <3>4, <3>5, <3>7, <3>8 DEF JudgingInv, Settling, Live
  <2>4. QED
    BY <1>2, <1>3, <1>4, <2>2, <2>3, OneProcessSteps
<1>9. QED
  BY <1>5, <1>7, <1>8

LEMMA RetireStep ==
    ASSUME RecordsInv, NEW p \in Processes, Retire(p)
    PROVE  RecordsInv'
<1>1. /\ JobShape' /\ Others(p)
      /\ job[p].at = "retiring" /\ job'[p].at = "unindexing"
      /\ job'[p].wrote = job[p].wrote /\ job'[p].retiring = job[p].retiring \cap live
      /\ live' = live \ job[p].retiring
  BY RetireShape DEF RecordsInv
<1>2. searchable' = searchable /\ overlapped' = overlapped /\ failures' = failures
  BY DEF Retire, history
<1>3. p \in Active /\ p \in Active'
  BY <1>1 DEF Active, Resting
<1>4. HandInv(p)'
  BY <1>1 DEF RecordsInv, HandInv, Working, Settling
<1>5. ASSUME Untroubled PROVE JudgingInv(p)'
  <2>1. OnePerKey(live \ job[p].retiring) /\ live \subseteq searchable \cup job[p].wrote
    BY <1>3, <1>5 DEF RecordsInv, JudgingInv
  <2>2. OnePerKey(live' \ job'[p].retiring)
    BY <1>1, <2>1 DEF OnePerKey
  <2>3. live' \subseteq searchable' \cup job'[p].wrote /\ live' \cap job'[p].retiring = {}
    BY <1>1, <1>2, <2>1
  <2>4. QED
    BY <1>1, <2>2, <2>3 DEF JudgingInv
<1>6. QED
  BY <1>1, <1>2, <1>3, <1>4, <1>5, OneProcessSteps

\* The points go only after their records are gone.
LEMMA RetirePointsStep ==
    ASSUME RecordsInv, NEW p \in Processes, RetirePoints(p)
    PROVE  RecordsInv'
<1>1. /\ JobShape' /\ Others(p)
      /\ job[p].at = "unindexing" /\ job'[p].at = "indexing"
      /\ job'[p].wrote = job[p].wrote /\ job'[p].retiring = job[p].retiring
  BY MoveShape DEF RecordsInv, RetirePoints
<1>2. /\ live' = live /\ overlapped' = overlapped
      /\ \/ failures' = failures /\ searchable' = searchable \ job[p].retiring
         \/ failures' = failures + 1
  BY DEF RetirePoints, Calm, Failing, history
<1>3. p \in Active /\ p \in Active'
  BY <1>1 DEF Active, Resting
<1>4. HandInv(p)'
  BY <1>1 DEF RecordsInv, HandInv, Working, Settling
<1>5. ASSUME Untroubled, Untroubled' PROVE JudgingInv(p)'
  <2>1. /\ OnePerKey(live \ job[p].retiring) /\ live \subseteq searchable \cup job[p].wrote
        /\ live \cap job[p].retiring = {}
    BY <1>1, <1>3, <1>5 DEF RecordsInv, JudgingInv, Settling
  <2>2. searchable' = searchable \ job[p].retiring
    BY <1>2, <1>5 DEF Untroubled
  <2>3. QED
    BY <1>1, <1>2, <2>1, <2>2 DEF JudgingInv, Settling
<1>6. QED
  BY <1>1, <1>2, <1>3, <1>4, <1>5, OneProcessSteps

LEMMA IndexWrittenStep ==
    ASSUME RecordsInv, NEW p \in Processes, IndexWritten(p)
    PROVE  RecordsInv'
<1>1. /\ JobShape' /\ Others(p)
      /\ job[p].at = "indexing" /\ job'[p].at = "marking"
      /\ job'[p].wrote = job[p].wrote /\ job'[p].retiring = job[p].retiring
  BY MoveShape DEF RecordsInv, IndexWritten
<1>2. /\ live' = live /\ overlapped' = overlapped
      /\ \/ failures' = failures /\ searchable' = searchable \cup job[p].wrote
         \/ failures' = failures + 1
  BY DEF IndexWritten, Calm, Failing, history
<1>3. p \in Active /\ p \in Active'
  BY <1>1 DEF Active, Resting
<1>4. HandInv(p)'
  BY <1>1 DEF RecordsInv, HandInv, Working, Settling
<1>5. ASSUME Untroubled, Untroubled' PROVE JudgingInv(p)'
  <2>1. /\ OnePerKey(live \ job[p].retiring) /\ live \subseteq searchable \cup job[p].wrote
        /\ live \cap job[p].retiring = {}
    BY <1>1, <1>3, <1>5 DEF RecordsInv, JudgingInv, Settling
  <2>2. searchable' = searchable \cup job[p].wrote
    BY <1>2, <1>5 DEF Untroubled
  <2>3. QED
    BY <1>1, <1>2, <2>1, <2>2 DEF JudgingInv, Settling
<1>6. QED
  BY <1>1, <1>2, <1>3, <1>4, <1>5, OneProcessSteps

LEMMA MarkPromotedStep ==
    ASSUME RecordsInv, NEW p \in Processes, MarkPromoted(p)
    PROVE  RecordsInv'
<1>1. /\ JobShape' /\ Others(p) /\ job[p].at = "marking"
      /\ job'[p].at = "recording" /\ job'[p].wrote = {} /\ job'[p].retiring = {}
  BY ResetShape DEF RecordsInv, MarkPromoted
<1>2. /\ live' = live /\ searchable' = searchable /\ overlapped' = overlapped
      /\ failures' \in {failures, failures + 1}
  BY DEF MarkPromoted, Calm, Failing, history, storeVars
<1>3. p \in Active /\ p \in Active'
  BY <1>1 DEF Active, Resting
<1>4. HandInv(p)'
  BY <1>1 DEF HandInv, Working, Settling
<1>5. ASSUME Untroubled PROVE JudgingInv(p)'
  <2>1. /\ OnePerKey(live \ job[p].retiring) /\ live \subseteq searchable \cup job[p].wrote
        /\ live \cap job[p].retiring = {} /\ job[p].wrote \subseteq searchable
    BY <1>1, <1>3, <1>5 DEF RecordsInv, JudgingInv, Settling
  <2>2. OnePerKey(live' \ job'[p].retiring)
    BY <1>1, <1>2, <2>1 DEF OnePerKey
  <2>3. QED
    BY <1>1, <1>2, <2>1, <2>2 DEF JudgingInv, Settling
<1>6. QED
  BY <1>1, <1>2, <1>3, <1>4, <1>5, OneProcessSteps

LEMMA RecordTurnStep ==
    ASSUME RecordsInv, NEW p \in Processes, RecordTurn(p)
    PROVE  RecordsInv'
<1>1. /\ JobShape' /\ Others(p) /\ job[p].at = "recording"
      /\ job'[p].at = "done" /\ job'[p].wrote = {} /\ job'[p].retiring = {}
  BY ResetShape DEF RecordsInv, RecordTurn
<1>2. /\ live' = live /\ searchable' = searchable /\ overlapped' = overlapped
      /\ failures' \in {failures, failures + 1}
  BY DEF RecordTurn, Calm, Failing, history, storeVars
<1>3. p \in Active /\ p \notin Active'
  BY <1>1 DEF Active, Resting
<1>4. HandInv(p)'
  BY <1>1 DEF HandInv, Working, Settling
<1>5. ASSUME Untroubled
      PROVE  JudgingInv(p)' /\ OnePerKey(live') /\ live' \subseteq searchable'
  <2>1. /\ OnePerKey(live \ job[p].retiring) /\ live \subseteq searchable \cup job[p].wrote
        /\ job[p].retiring = {} /\ job[p].wrote = {}
    BY <1>1, <1>3, <1>5 DEF RecordsInv, JudgingInv, HandInv, Working, Settling
  <2>2. OnePerKey(live') /\ live' \subseteq searchable'
    BY <1>2, <2>1 DEF OnePerKey
  <2>3. QED
    BY <1>1, <1>3, <2>2 DEF JudgingInv, Settling
<1>6. QED
  BY <1>1, <1>2, <1>3, <1>4, <1>5, OneProcessSteps

\* A process that failed has nothing in hand, and the project is troubled.
LEMMA FailingStep ==
    ASSUME RecordsInv, NEW p \in Processes, Raise(p) \/ Die(p)
    PROVE  RecordsInv'
<1>1. PICK to \in {"recording", "dead"} :
         p \in Active /\ job' = [job EXCEPT ![p] = [Idle EXCEPT !.at = to]]
  BY DEF Raise, Die, Active, Consolidating, Resting
<1>2. /\ JobShape' /\ Others(p)
      /\ job'[p].at = to /\ job'[p].wrote = {} /\ job'[p].retiring = {}
  BY <1>1, ResetShape DEF RecordsInv
<1>3. overlapped' = overlapped /\ failures' = failures + 1
  BY DEF Raise, Die, Failing
<1>4. HandInv(p)'
  BY <1>2 DEF HandInv, Working, Settling
<1>5. ~Untroubled'
  BY <1>3 DEF RecordsInv, Untroubled
<1>6. QED
  BY <1>1, <1>2, <1>3, <1>4, <1>5, OneProcessSteps

LEMMA StutterStep ==
    ASSUME RecordsInv, UNCHANGED vars
    PROVE  RecordsInv'
<1> USE DEF vars, storeVars, windowVars, history
<1>1. JobShape' /\ AloneInv' /\ Active' = Active
  BY DEF RecordsInv, JobShape, AloneInv, Active
<1>2. \A p \in Processes : HandInv(p)'
  BY DEF RecordsInv, HandInv
<1>3. ASSUME Untroubled' PROVE RestingInv' /\ \A p \in Processes : JudgingInv(p)'
  <2>1. Untroubled /\ RestingInv
    BY <1>3 DEF Untroubled, RecordsInv
  <2>2. RestingInv'
    BY <1>1, <2>1 DEF RestingInv
  <2>3. \A p \in Processes : JudgingInv(p)'
    BY <1>1, <2>1 DEF RecordsInv, JudgingInv, Live
  <2>4. QED
    BY <2>2, <2>3
<1>4. QED
  BY <1>1, <1>2, <1>3 DEF RecordsInv

-----------------------------------------------------------------------------
\* The inductive invariant of the records holds whatever fails and however the
\* turns interleave.
THEOREM RecordsInvariant == Spec => []RecordsInv
<1>1. RecordsInv /\ [Next]_vars => RecordsInv'
  <2> SUFFICES ASSUME RecordsInv, [Next]_vars
               PROVE  RecordsInv'
    OBVIOUS
  <2>1. ASSUME NEW t \in Turns, Handle(t) \/ Resume(t) PROVE RecordsInv'
    <3>1. \E p \in Processes, to \in {"ended", "paused"} : Starts(p, to)
      BY <2>1 DEF Handle, Resume, Processes
    <3>2. QED
      BY <3>1, StartStep
  <2>2. ASSUME NEW t \in Turns, FilePause(t) PROVE RecordsInv'
    <3> DEFINE p == <<t, 1>>
    <3>1. p \in Processes /\ Moves(p, "paused", "recording")
      BY <2>2 DEF FilePause, Processes
    <3>2. /\ live' = live /\ searchable' = searchable
          /\ overlapped' = overlapped /\ failures' = failures
      BY <2>2 DEF FilePause, storeVars, history
    <3> HIDE DEF p
    <3>3. QED
      BY <3>1, <3>2, MoveShape, HoldingStep DEF RecordsInv, Resting, Working, Settling
  <2>3. ASSUME NEW p \in Processes, ReadEvicted(p) PROVE RecordsInv'
    <3>1. /\ live' = live /\ searchable' = searchable /\ overlapped' = overlapped
          /\ failures' \in {failures, failures + 1}
      BY <2>3 DEF ReadEvicted, storeVars, Calm, Failing, history
    <3>2. QED
      BY <2>3, <3>1, ReadEvictedShape, HoldingStep DEF RecordsInv, Resting, Working, Settling
  <2>4. ASSUME NEW p \in Processes, ReadPrevious(p) PROVE RecordsInv'
    <3>1. /\ live' = live /\ searchable' = searchable
          /\ overlapped' = overlapped /\ failures' = failures
      BY <2>4 DEF ReadPrevious, storeVars, history
    <3>2. QED
      BY <2>4, <3>1, ReadPreviousShape, HoldingStep DEF RecordsInv, Resting, Working, Settling
  <2>5. ASSUME NEW p \in Processes, Fold(p) PROVE RecordsInv'
    <3>1. /\ live' = live /\ searchable' = searchable
          /\ overlapped' = overlapped /\ failures' = failures
      BY <2>5 DEF Fold, storeVars, history
    <3>2. QED
      BY <2>5, <3>1, FoldShape, HoldingStep DEF RecordsInv, Resting, Working, Settling
  <2>6. ASSUME NEW p \in Processes, WriteSummary(p) PROVE RecordsInv'
    <3>1. /\ live' = live /\ searchable' = searchable
          /\ overlapped' = overlapped /\ failures' = failures
          /\ Moves(p, "writing", "retiring")
      BY <2>6 DEF WriteSummary, history
    <3>2. QED
      BY <3>1, MoveShape, HoldingStep DEF RecordsInv, Resting, Working, Settling
  <2>7. ASSUME NEW p \in Processes,
               ReadExisting(p) \/ Judge(p) \/ Retire(p) \/ RetirePoints(p)
               \/ IndexWritten(p) \/ MarkPromoted(p) \/ RecordTurn(p) \/ Raise(p) \/ Die(p)
        PROVE  RecordsInv'
    BY <2>7, ReadExistingStep, JudgeStep, RetireStep, RetirePointsStep, IndexWrittenStep,
       MarkPromotedStep, RecordTurnStep, FailingStep
  <2>8. CASE UNCHANGED vars
    BY <2>8, StutterStep
  <2>9. QED
    BY <2>1, <2>2, <2>3, <2>4, <2>5, <2>6, <2>7, <2>8 DEF Next, Consolidate
<1>2. QED
  BY InitEstablishes, <1>1, PTL DEF Spec

\* A record is retired by a process that retires all it replaced in one step.
LEMMA OnlyRetired ==
    ASSUME RecordsInv, Next, NEW id \in live \ live'
    PROVE  \E p \in Processes : Retire(p) /\ id \in job[p].retiring
<1>1. PICK p \in Processes : Retire(p)
  <2>1. ASSUME NEW t \in Turns, Handle(t) \/ Resume(t) \/ FilePause(t) PROVE live' = live
    BY <2>1 DEF Handle, Resume, FilePause, Starts, storeVars
  <2>2. ASSUME NEW p \in Processes, Judge(p) PROVE live \subseteq live'
    BY <2>2, JudgeShape DEF RecordsInv
  <2>3. ASSUME NEW p \in Processes,
               \/ ReadEvicted(p) \/ ReadExisting(p) \/ ReadPrevious(p) \/ Fold(p)
               \/ WriteSummary(p) \/ RetirePoints(p) \/ IndexWritten(p)
               \/ MarkPromoted(p) \/ RecordTurn(p) \/ Raise(p) \/ Die(p)
        PROVE  live' = live
    BY <2>3 DEF ReadEvicted, ReadExisting, ReadPrevious, Fold, WriteSummary, RetirePoints,
                IndexWritten, MarkPromoted, RecordTurn, Raise, Die, storeVars
  <2>4. QED
    BY <2>1, <2>2, <2>3 DEF Next, Consolidate
<1>2. QED
  BY <1>1, RetireShape DEF RecordsInv

\* A memory is retired only by a turn that has written its replacement, whatever
\* dies in between and whoever else is consolidating.
THEOREM ReplacedFirst == Spec => ReplacedBeforeRetired
<1>1. RecordsInv /\ [Next]_vars =>
        [\A id \in live \ live' :
           \E p \in Processes :
              /\ id \in job[p].retiring
              /\ \E new \in job[p].wrote :
                   new # id /\ new.kind = id.kind /\ new.owner = id.owner]_vars
  <2> SUFFICES ASSUME RecordsInv, Next, NEW id \in live \ live'
               PROVE  \E p \in Processes :
                         /\ id \in job[p].retiring
                         /\ \E new \in job[p].wrote :
                              new # id /\ new.kind = id.kind /\ new.owner = id.owner
    OBVIOUS
  <2>1. PICK p \in Processes : Retire(p) /\ id \in job[p].retiring
    BY OnlyRetired
  <2>2. QED
    BY <2>1 DEF RecordsInv, HandInv, Replaces
<1>2. QED
  BY <1>1, RecordsInvariant, PTL DEF Spec, ReplacedBeforeRetired

(***************************************************************************)
(* No key is forgotten.                                                    *)
(***************************************************************************)
LEMMA KeysOfOneStep ==
    ASSUME KeysInv, RecordsInv', NEW p \in Active, Others(p), overlapped' = overlapped,
           returned' \in BOOLEAN, KeepingInv(p)'
    PROVE  KeysInv'
<1>1. ASSUME NEW q \in Processes, q # p, ~overlapped PROVE job'[q].at \notin Working
  <2>1. q \notin Active /\ job'[q] = job[q]
    BY <1>1 DEF KeysInv, RecordsInv, AloneInv, Others
  <2>2. QED
    BY <2>1 DEF Active, Resting, Working
<1>2. \A q \in Processes : KeepingInv(q)'
  BY <1>1 DEF KeepingInv
<1>3. QED
  BY <1>2 DEF KeysInv

\* A step that keeps what its process has in hand, or lets go of all of it.
LEMMA KeysHeld ==
    ASSUME KeysInv, RecordsInv', NEW p \in Active, Others(p), overlapped' = overlapped,
           returned' = returned,
           \/ job'[p].at \notin Working
           \/ /\ job[p].at \in Working /\ job'[p].at \in Working \ {"judging"}
              /\ job'[p].wrote = job[p].wrote /\ job'[p].retiring = job[p].retiring
              /\ live' = live
    PROVE  KeysInv'
<1>1. KeepingInv(p) /\ returned' \in BOOLEAN
  BY DEF KeysInv, Active
<1>2. KeepingInv(p)'
  BY <1>1 DEF KeepingInv
<1>3. QED
  BY <1>1, <1>2, KeysOfOneStep

\* The heir of a record is the one written in its place, or that one's heir.
LEMMA KeysJudged ==
    ASSUME KeysInv, RecordsInv', NEW p \in Processes, Judge(p)
    PROVE  KeysInv'
<1> DEFINE scope == ScopeOf[p[1]]
           wrote == job[p].wrote
           retiring == job[p].retiring
<1>1. RecordsInv /\ HandInv(p) /\ JobShape /\ KeepingInv(p) /\ returned \in BOOLEAN
  BY DEF KeysInv, RecordsInv
<1>2. /\ Others(p) /\ job[p].at = "judging" /\ job'[p].at \in {"judging", "promoting"}
      /\ \/ /\ job'[p].wrote = wrote /\ job'[p].retiring = retiring
            /\ job'[p].existing = job[p].existing
            /\ live' = live /\ returned' = returned
         \/ \E c \in Candidates : \E verdict \in Decide(c, job[p].existing, scope) :
              LET id == MemoryId([c EXCEPT !.key = verdict.key], scope)
              IN /\ Stores(verdict)
                 /\ job'[p].wrote = wrote \cup {id}
                 /\ job'[p].retiring = retiring \cup verdict.supersedes
                 /\ job'[p].existing = (job[p].existing \ verdict.supersedes) \cup {id}
                 /\ live' = live \cup {id}
                 /\ returned' = (returned \/ id \in retiring)
  BY <1>1, JudgeShape
<1>3. p \in Active /\ overlapped' = overlapped
  BY <1>2 DEF Active, Resting, Judge
<1>4. ASSUME ~overlapped
      PROVE  /\ retiring \cup wrote \subseteq live /\ job[p].existing \subseteq live
             /\ ~returned =>
                  \A id \in retiring : \E new \in wrote \ retiring, old \in retiring :
                     Heir(new, id) /\ Slot(new) = Slot(old)
  BY <1>1, <1>2, <1>4 DEF KeepingInv, Working
<1>5. CASE /\ job'[p].wrote = wrote /\ job'[p].retiring = retiring
           /\ job'[p].existing = job[p].existing
           /\ live' = live /\ returned' = returned
  <2>1. KeepingInv(p)'
    BY <1>3, <1>4, <1>5 DEF KeepingInv
  <2>2. QED
    BY <1>1, <1>2, <1>3, <1>5, <2>1, KeysOfOneStep
<1>6. ASSUME NEW c \in Candidates, NEW verdict \in Decide(c, job[p].existing, scope),
             NEW id, id = MemoryId([c EXCEPT !.key = verdict.key], scope),
             Stores(verdict),
             job'[p].wrote = wrote \cup {id},
             job'[p].retiring = retiring \cup verdict.supersedes,
             job'[p].existing = (job[p].existing \ verdict.supersedes) \cup {id},
             live' = live \cup {id},
             returned' = (returned \/ id \in retiring)
      PROVE  KeysInv'
  <2>1. /\ verdict.supersedes \subseteq job[p].existing
        /\ \A old \in verdict.supersedes : Replaces(id, old) /\ Heir(id, old)
        /\ verdict.supersedes # {} => \E old \in verdict.supersedes : Slot(id) = Slot(old)
    BY <1>6, VerdictReplaces
  <2>2. ASSUME ~overlapped, ~returned', NEW gone \in job'[p].retiring
        PROVE  \E new \in job'[p].wrote \ job'[p].retiring, old \in job'[p].retiring :
                  Heir(new, gone) /\ Slot(new) = Slot(old)
    <3>1. ~returned /\ id \notin retiring /\ id \notin verdict.supersedes
      BY <1>1, <1>6, <2>1, <2>2 DEF Replaces
    <3>2. id \in job'[p].wrote \ job'[p].retiring
      BY <1>6, <3>1
    <3>3. CASE gone \in verdict.supersedes
      BY <1>6, <2>1, <3>2, <3>3
    <3>4. CASE gone \in retiring
      <4>1. PICK new \in wrote \ retiring, old \in retiring :
               Heir(new, gone) /\ Slot(new) = Slot(old)
        BY <1>4, <2>2, <3>1, <3>4
      <4>2. CASE new \in verdict.supersedes
        <5>1. Heir(id, gone)
          BY <2>1, <4>1, <4>2 DEF Heir
        <5>2. QED
          BY <1>6, <2>1, <3>2, <4>2, <5>1
      <4>3. CASE new \notin verdict.supersedes
        BY <1>6, <4>1, <4>3
      <4>4. QED
        BY <4>2, <4>3
    <3>5. QED
      BY <1>6, <2>2, <3>3, <3>4
  <2>3. ASSUME ~overlapped
        PROVE  /\ job'[p].retiring \cup job'[p].wrote \subseteq live'
               /\ job'[p].existing \subseteq live'
    BY <1>4, <1>6, <2>1, <2>3
  <2>4. KeepingInv(p)'
    BY <1>3, <2>2, <2>3 DEF KeepingInv
  <2>5. returned' \in BOOLEAN
    BY <1>6
  <2>6. QED
    BY <1>2, <1>3, <2>4, <2>5, KeysOfOneStep
<1>7. QED
  BY <1>2, <1>5, <1>6

LEMMA KeysRead ==
    ASSUME KeysInv, RecordsInv', NEW p \in Processes, ReadExisting(p)
    PROVE  KeysInv'
<1>1. /\ Others(p) /\ job[p].at = "evicted"
      /\ job'[p].wrote = {} /\ job'[p].retiring = {}
      /\ \/ job'[p].at = "promoting"
         \/ job'[p].at = "judging" /\ job'[p].existing = Live(ScopeOf[p[1]])
  BY ReadExistingShape DEF KeysInv, RecordsInv, HandInv, Working, Settling
<1>2. p \in Active /\ live' = live /\ overlapped' = overlapped /\ returned' \in BOOLEAN
  BY <1>1 DEF ReadExisting, storeVars, history, Active, Resting, KeysInv
<1>3. Live(ScopeOf[p[1]]) \subseteq live
  BY DEF Live
<1>4. KeepingInv(p)'
  BY <1>1, <1>2, <1>3 DEF KeepingInv
<1>5. QED
  BY <1>1, <1>2, <1>4, KeysOfOneStep

LEMMA KeysStarted ==
    ASSUME KeysInv, RecordsInv', NEW p \in Processes, NEW to \in {"ended", "paused"},
           Starts(p, to)
    PROVE  KeysInv'
<1>1. /\ Others(p) /\ job'[p].at = to /\ returned' = returned
      /\ overlapped' = (overlapped \/ Active # {})
  BY MoveShape DEF KeysInv, RecordsInv, Starts
<1>2. ASSUME NEW q \in Processes, ~overlapped' PROVE job'[q].at \notin Working
  <2>1. q \notin Active
    BY <1>1, <1>2 DEF KeysInv, RecordsInv
  <2>2. QED
    BY <1>1, <2>1 DEF Others, Active, Resting, Working
<1>3. \A q \in Processes : KeepingInv(q)'
  BY <1>2 DEF KeepingInv
<1>4. QED
  BY <1>1, <1>3 DEF KeysInv

\* What a process holds always has an heir that outlives its retirement.
LEMMA KeysInvariant == Spec => []KeysInv
<1>1. Init => KeysInv
  <2> SUFFICES ASSUME Init PROVE KeysInv
    OBVIOUS
  <2>1. \A p \in Processes : KeepingInv(p)
    BY DEF Init, KeepingInv, Idle, Working
  <2>2. QED
    BY <2>1, InitEstablishes DEF KeysInv, Init
<1>2. KeysInv /\ RecordsInv' /\ [Next]_vars => KeysInv'
  <2> SUFFICES ASSUME KeysInv, RecordsInv', [Next]_vars
               PROVE  KeysInv'
    OBVIOUS
  <2>1. ASSUME NEW t \in Turns, Handle(t) \/ Resume(t) PROVE KeysInv'
    <3>1. \E p \in Processes, to \in {"ended", "paused"} : Starts(p, to)
      BY <2>1 DEF Handle, Resume, Processes
    <3>2. QED
      BY <3>1, KeysStarted
  <2>2. ASSUME NEW p \in Processes,
               \/ \E t \in Turns : p = <<t, 1>> /\ FilePause(t)
               \/ ReadEvicted(p) \/ ReadPrevious(p) \/ Fold(p) \/ WriteSummary(p)
               \/ Retire(p) \/ RetirePoints(p) \/ IndexWritten(p)
               \/ MarkPromoted(p) \/ RecordTurn(p) \/ Raise(p) \/ Die(p)
        PROVE  KeysInv'
    <3>1. overlapped' = overlapped /\ returned' = returned
      BY <2>2 DEF FilePause, ReadEvicted, ReadPrevious, Fold, WriteSummary, Retire,
                  RetirePoints, IndexWritten, MarkPromoted, RecordTurn, Raise, Die,
                  Calm, Failing, history
    <3>2. /\ Others(p) /\ p \in Active
          /\ \/ job'[p].at \notin Working
             \/ /\ job[p].at \in Working /\ job'[p].at \in Working \ {"judging"}
                /\ job'[p].wrote = job[p].wrote /\ job'[p].retiring = job[p].retiring
                /\ live' = live
      <4>1. JobShape
        BY DEF KeysInv, RecordsInv
      <4>2. CASE \E t \in Turns : p = <<t, 1>> /\ FilePause(t)
        <5>1. Moves(p, "paused", "recording")
          BY <4>2 DEF FilePause
        <5>2. QED
          BY <4>1, <5>1, MoveShape DEF Active, Resting, Working
      <4>3. CASE ReadEvicted(p)
        BY <4>1, <4>3, ReadEvictedShape DEF Active, Resting, Working
      <4>4. CASE ReadPrevious(p)
        BY <4>1, <4>4, ReadPreviousShape DEF ReadPrevious, storeVars, Active, Resting, Working
      <4>5. CASE Fold(p)
        <5>1. live' = live
          BY <4>5 DEF Fold, storeVars
        <5>2. QED
          BY <4>1, <4>5, <5>1, FoldShape DEF Active, Resting, Working
      <4>6. CASE WriteSummary(p)
        <5>1. live' = live /\ Moves(p, "writing", "retiring")
          BY <4>6 DEF WriteSummary
        <5>2. QED
          BY <4>1, <5>1, MoveShape DEF Active, Resting, Working
      <4>7. CASE Retire(p)
        BY <4>1, <4>7, RetireShape DEF Active, Resting, Working
      <4>8. CASE RetirePoints(p) \/ IndexWritten(p)
        <5>1. Moves(p, "unindexing", "indexing") \/ Moves(p, "indexing", "marking")
          BY <4>8 DEF RetirePoints, IndexWritten
        <5>2. QED
          BY <4>1, <5>1, MoveShape DEF Active, Resting, Working
      <4>9. CASE MarkPromoted(p) \/ RecordTurn(p) \/ Raise(p) \/ Die(p)
        <5>1. PICK to \in {"recording", "done", "dead"} :
                 p \in Active /\ job' = [job EXCEPT ![p] = [Idle EXCEPT !.at = to]]
          BY <4>9 DEF MarkPromoted, RecordTurn, Raise, Die, Active, Consolidating, Resting
        <5>2. QED
          BY <4>1, <5>1, ResetShape DEF Working
      <4>10. QED
        BY <2>2, <4>2, <4>3, <4>4, <4>5, <4>6, <4>7, <4>8, <4>9
    <3>3. QED
      BY <3>1, <3>2, KeysHeld
  <2>3. ASSUME NEW p \in Processes, ReadExisting(p) \/ Judge(p) PROVE KeysInv'
    BY <2>3, KeysRead, KeysJudged
  <2>4. CASE UNCHANGED vars
    BY <2>4 DEF KeysInv, KeepingInv, vars, storeVars, history
  <2>5. ASSUME NEW t \in Turns, FilePause(t) PROVE KeysInv'
    <3>1. <<t, 1>> \in Processes
      BY DEF Processes
    <3>2. QED
      BY <2>2, <2>5, <3>1
  <2>6. QED
    BY <2>1, <2>2, <2>3, <2>4, <2>5 DEF Next, Consolidate
<1>3. QED
  BY <1>1, <1>2, RecordsInvariant, PTL DEF Spec

\* What the project knows under a key is never forgotten, whatever fails, unless
\* consolidations overlap or a turn returns to what it has replaced.
THEOREM KeysKept == Spec => KeysKeepAMemory
<1> DEFINE KeyKept(id) ==
             \/ Slot(id) \in Slots(live')
             \/ /\ id.kind = "preference"
                /\ \E old \in live \ live' :
                     /\ old.kind = id.kind /\ old.owner = id.owner
                     /\ Slot(old) \in Slots(live')
<1>1. KeysInv /\ [Next]_vars => [overlapped \/ returned \/ \A id \in live \ live' : KeyKept(id)]_vars
  <2> SUFFICES ASSUME KeysInv, Next, ~overlapped, ~returned, NEW id \in live \ live'
               PROVE  KeyKept(id)
    BY DEF KeysInv, RecordsInv
  <2>1. PICK p \in Processes : Retire(p) /\ id \in job[p].retiring
    BY OnlyRetired DEF KeysInv
  <2>2. live' = live \ job[p].retiring /\ job[p].at = "retiring"
    BY <2>1, RetireShape DEF KeysInv, RecordsInv
  <2>3. /\ job[p].retiring \cup job[p].wrote \subseteq live
        /\ \A gone \in job[p].retiring :
              \E new \in job[p].wrote \ job[p].retiring, old \in job[p].retiring :
                 Heir(new, gone) /\ Slot(new) = Slot(old)
    BY <2>2 DEF KeysInv, KeepingInv, Working
  <2>4. PICK new \in job[p].wrote \ job[p].retiring, old \in job[p].retiring :
               Heir(new, id) /\ Slot(new) = Slot(old)
    BY <2>1, <2>3
  <2>5. new \in live' /\ old \in live \ live' /\ Slot(new) \in Slots(live')
    BY <2>2, <2>3, <2>4 DEF Slots
  <2>6. CASE id.kind = "preference"
    <3>1. old.kind = new.kind /\ old.owner = new.owner
      BY <2>4 DEF Slot
    <3>2. QED
      BY <2>4, <2>5, <2>6, <3>1 DEF Heir
  <2>7. CASE id.kind # "preference"
    BY <2>4, <2>5, <2>7 DEF Heir, Slot
  <2>8. QED
    BY <2>6, <2>7
<1>2. QED
  BY <1>1, KeysInvariant, PTL DEF Spec, KeysKeepAMemory

\* Once an untroubled project is quiet, one record is live per key.
THEOREM OneRecordPerKey == Spec => []OneMemoryPerKey
<1>1. RecordsInv => OneMemoryPerKey
  BY DEF RecordsInv, OneMemoryPerKey, Quiet, RestingInv
<1>2. QED
  BY <1>1, RecordsInvariant, PTL

\* And recall gathers all that is live in the scope of a turn when a search can
\* return it, all that is pinned when it fits, and nothing that is not live.
THEOREM RecallIsComplete == Spec => []RecallFindsWhatIsLive
<1>1. ASSUME RecordsInv, Quiet, Untroubled, NEW t \in Turns
      PROVE  LET scope == ScopeOf[t]
                 all == Live(scope) \cup PinnedSummaries(t)
                 pinned == Pinned(scope) \cup PinnedSummaries(t)
             IN \A gathered \in Recalls(t) :
                  /\ gathered \subseteq all
                  /\ Cardinality(Found(scope) \cup SummaryPoints(t)) <= SemanticCandidates =>
                        gathered = all
                  /\ Cardinality(pinned) <= RecallLimit => pinned \subseteq gathered
  <2> DEFINE scope == ScopeOf[t]
             all == Live(scope) \cup PinnedSummaries(t)
             pinned == Pinned(scope) \cup PinnedSummaries(t)
             points == Found(scope) \cup SummaryPoints(t)
  <2>1. live \subseteq searchable
    BY <1>1 DEF RecordsInv, RestingInv, Quiet
  <2>2. all \subseteq points
    BY <2>1 DEF Live, Found, PinnedSummaries, SummaryPoints, LiveSummaries
  <2>3. pinned \subseteq all
    BY DEF Pinned
  <2> SUFFICES ASSUME NEW gathered \in Recalls(t)
               PROVE  /\ gathered \subseteq all
                      /\ Cardinality(points) <= SemanticCandidates => gathered = all
                      /\ Cardinality(pinned) <= RecallLimit => pinned \subseteq gathered
    OBVIOUS
  <2>4. PICK p \in Upto(RecallLimit, pinned), f \in Upto(SemanticCandidates, points) :
          gathered = p \cup (f \cap all)
    <3>1. Recalls(t) = {p \cup (f \cap all) : p \in Upto(RecallLimit, pinned),
                                          f \in Upto(SemanticCandidates, points)}
      BY DEF Recalls
    <3> HIDE DEF all, pinned, points
    <3>2. QED
      BY <3>1
  <2> HIDE DEF all, pinned, points
  <2>5. p \subseteq pinned /\ (Cardinality(pinned) <= RecallLimit => p = pinned)
    BY <2>4 DEF Upto
  <2>6. Cardinality(points) <= SemanticCandidates => f = points
    BY <2>4 DEF Upto
  <2>7. QED
    BY <2>2, <2>3, <2>4, <2>5, <2>6
<1>2. RecordsInv => RecallFindsWhatIsLive
  BY <1>1, Zenon DEF RecallFindsWhatIsLive
<1>3. QED
  BY <1>2, RecordsInvariant, PTL

-----------------------------------------------------------------------------
(***************************************************************************)
(* Least and greatest.                                                     *)
(***************************************************************************)
LEMMA Least ==
    ASSUME NEW S \in SUBSET Nat, S # {}
    PROVE  Min(S) \in S /\ \A x \in S : Min(S) <= x
<1> DEFINE smaller == OpToRel(<, Nat)
<1>1. IsWellFoundedOn(smaller, Nat)
  BY NatLessThanWellFounded, Zenon
<1>2. ASSUME NEW x \in Nat, NEW y \in Nat, y < x
      PROVE  <<y, x>> \in smaller
  BY <1>2, Zenon DEF OpToRel
<1> HIDE DEF smaller
<1>3. PICK x \in S : \A y \in S : <<y, x>> \notin smaller
  BY <1>1, WFMin
<1>4. ASSUME NEW y \in S
      PROVE  x <= y
  <2>1. x \in Nat /\ y \in Nat
    OBVIOUS
  <2>2. ~ (y < x)
    BY <1>2, <1>3, <2>1
  <2>3. QED
    BY <2>1, <2>2
<1>5. QED
  BY <1>3, <1>4 DEF Min

LEMMA Greatest ==
    ASSUME NEW n \in Nat, NEW S \in SUBSET (1..n), S # {}
    PROVE  Max(S) \in S /\ \A x \in S : x <= Max(S)
<1> DEFINE T == {n - x : x \in S}
<1>1. \A x \in S : x \in Nat /\ x <= n /\ n - x \in Nat /\ n - x \in T
  OBVIOUS
<1>2. \A z \in T : \E x \in S : z = n - x
  OBVIOUS
<1> HIDE DEF T
<1>3. T \in SUBSET Nat /\ T # {}
  BY <1>1, <1>2
<1>4. PICK y \in T : \A z \in T : y <= z
  BY <1>3, Least, Zenon
<1>5. PICK x \in S : y = n - x
  BY <1>2
<1>6. \A z \in S : n - x <= n - z
  BY <1>1, <1>4, <1>5
<1>7. \A z \in S : x >= z
  BY <1>1, <1>6
<1>8. \E m \in S : \A z \in S : m >= z
  BY <1>7
<1>9. Max(S) \in S /\ \A z \in S : Max(S) >= z
  BY <1>8, Zenon DEF Max
<1>10. QED
  BY <1>1, <1>9

LEMMA NewestFacts ==
    ASSUME SummariesShape, NEW t \in Turns
    PROVE  /\ LiveSummaries(t) \subseteq 1..Len(summaries)
           /\ NewestSummary(t) \in Nat
           /\ LiveSummaries(t) = {} <=> NewestSummary(t) = 0
           /\ LiveSummaries(t) # {} =>
                 NewestSummary(t) \in LiveSummaries(t)
                 /\ \A i \in LiveSummaries(t) : i <= NewestSummary(t)
<1>1. LiveSummaries(t) \subseteq 1..Len(summaries) /\ Len(summaries) \in Nat
  BY DEF SummariesShape, LiveSummaries
<1>2. CASE LiveSummaries(t) = {}
  BY <1>1, <1>2 DEF NewestSummary
<1>3. CASE LiveSummaries(t) # {}
  <2>1. /\ Max(LiveSummaries(t)) \in LiveSummaries(t)
        /\ \A i \in LiveSummaries(t) : i <= Max(LiveSummaries(t))
    BY <1>1, <1>3, Greatest
  <2>2. NewestSummary(t) = Max(LiveSummaries(t))
    BY <1>3 DEF NewestSummary
  <2>3. QED
    BY <1>1, <1>3, <2>1, <2>2
<1>4. QED
  BY <1>2, <1>3

\* The newest of a set is the one that no other is newer than.
LEMMA GreatestIs ==
    ASSUME NEW n \in Nat, NEW S \in SUBSET (1..n), n \in S
    PROVE  Max(S) = n
<1>1. S # {}
  OBVIOUS
<1>2. PICK m \in S : m = Max(S) /\ n <= m
  BY <1>1, Greatest
<1>3. m \in Nat /\ m <= n
  OBVIOUS
<1>4. QED
  BY <1>2, <1>3

\* The newest summary is a session's, whichever of its turns asks.
LEMMA NewestOfSession ==
    ASSUME NEW t \in Turns, NEW u \in Turns, ScopeOf[t].session = ScopeOf[u].session
    PROVE  LiveSummaries(t) = LiveSummaries(u) /\ NewestSummary(t) = NewestSummary(u)
  BY DEF LiveSummaries, NewestSummary

(***************************************************************************)
(* How each action changes what its process knows of the summaries.        *)
(***************************************************************************)
SameBatch(p) ==
    /\ job'[p].evicted = job[p].evicted /\ job'[p].replaces = job[p].replaces

LEMMA MovedBatch ==
    ASSUME JobShape, NEW p \in Processes, NEW from, NEW to, Moves(p, from, to)
    PROVE  Others(p) /\ job[p].at = from /\ job'[p].at = to /\ SameBatch(p)
  BY DEF JobShape, Fields, Idle, Moves, Others, SameBatch

LEMMA ResetBatch ==
    ASSUME JobShape, NEW p \in Processes, NEW to,
           job' = [job EXCEPT ![p] = [Idle EXCEPT !.at = to]]
    PROVE  Others(p) /\ job'[p].at = to /\ job'[p].evicted = {} /\ job'[p].replaces = {}
  BY DEF JobShape, Idle, Others

LEMMA EvictedBatch ==
    ASSUME JobShape, NEW p \in Processes, ReadEvicted(p)
    PROVE  /\ Others(p) /\ job[p].at = "ended" /\ job'[p].at = "evicted"
           /\ job'[p].replaces = job[p].replaces
           /\ job'[p].evicted \subseteq job[p].evicted \cup SessionOf(p[1])
<1> DEFINE found == Evicted(table, {u \in Turns : promoted[u] # 0}, SessionOf(p[1]),
                            RoomLeft, Batch)
<1>1. job[p].at = "ended"
  BY DEF ReadEvicted
<1>2. found \subseteq SessionOf(p[1])
  BY DEF Evicted, Oldest, Rows
<1>3. \/ job' = [job EXCEPT ![p].at = "evicted", ![p].evicted = found]
      \/ job' = [job EXCEPT ![p].at = "evicted"]
  BY DEF ReadEvicted
<1> HIDE DEF found
<1>4. QED
  BY <1>1, <1>2, <1>3 DEF JobShape, Fields, Idle, Others

LEMMA ReadExistingBatch ==
    ASSUME JobShape, NEW p \in Processes, ReadExisting(p)
    PROVE  /\ Others(p) /\ job[p].at = "evicted" /\ SameBatch(p)
           /\ job'[p].at \in {"judging", "promoting"}
<1>1. job[p].at = "evicted"
  BY DEF ReadExisting
<1>2. PICK list, existing :
        \/ job' = [job EXCEPT ![p].at = "promoting"]
        \/ job' = [job EXCEPT ![p].at = "judging", ![p].left = list, ![p].existing = existing]
  BY DEF ReadExisting
<1>3. QED
  BY <1>1, <1>2 DEF JobShape, Fields, Idle, Others, SameBatch

LEMMA JudgeBatch ==
    ASSUME JobShape, NEW p \in Processes, Judge(p)
    PROVE  /\ Others(p) /\ job[p].at = "judging" /\ SameBatch(p)
           /\ job'[p].at \in {"judging", "promoting"}
           /\ job'[p].previous = job[p].previous
<1>1. job[p].at = "judging"
  BY DEF Judge
<1> DEFINE c == Head(job[p].left)
           rest == Tail(job[p].left)
           to == IF rest = <<>> THEN "promoting" ELSE "judging"
           Id(verdict) == MemoryId([c EXCEPT !.key = verdict.key], ScopeOf[p[1]])
<1>2. PICK verdict \in Decide(c, job[p].existing, ScopeOf[p[1]]) :
        \/ job' = [job EXCEPT
             ![p].at = to, ![p].left = rest,
             ![p].wrote = @ \cup {Id(verdict)},
             ![p].existing = (@ \ verdict.supersedes) \cup {Id(verdict)},
             ![p].retiring = @ \cup verdict.supersedes]
        \/ job' = [job EXCEPT ![p].at = to, ![p].left = rest]
  BY Zenon DEF Judge
<1>3. PICK next, id, gone : next = to /\ id = Id(verdict) /\ gone = verdict.supersedes
  OBVIOUS
<1>4. next \in {"judging", "promoting"}
  BY <1>3
<1> HIDE DEF Id, rest, to
<1>5. CASE job' = [job EXCEPT
             ![p].at = to, ![p].left = rest,
             ![p].wrote = @ \cup {Id(verdict)},
             ![p].existing = (@ \ verdict.supersedes) \cup {Id(verdict)},
             ![p].retiring = @ \cup verdict.supersedes]
  <2>1. job' = [job EXCEPT
             ![p].at = next, ![p].left = rest,
             ![p].wrote = @ \cup {id},
             ![p].existing = (@ \ gone) \cup {id},
             ![p].retiring = @ \cup gone]
    BY <1>3, <1>5, Zenon
  <2>2. QED
    BY <1>1, <1>4, <2>1 DEF JobShape, Fields, Idle, Others, SameBatch
<1>6. CASE job' = [job EXCEPT ![p].at = to, ![p].left = rest]
  BY <1>1, <1>3, <1>4, <1>6 DEF JobShape, Fields, Idle, Others, SameBatch
<1>7. QED
  BY <1>2, <1>5, <1>6

LEMMA PreviousBatch ==
    ASSUME JobShape, NEW p \in Processes, ReadPrevious(p)
    PROVE  /\ Others(p) /\ job[p].at = "promoting" /\ SameBatch(p)
           /\ \/ job'[p].at = "retiring" /\ job[p].evicted = {}
              \/ /\ job'[p].at = "folding" /\ job[p].evicted # {}
                 /\ job'[p].previous = NewestSummary(p[1])
<1>1. job[p].at = "promoting"
  BY DEF ReadPrevious
<1>2. CASE job[p].evicted = {}
  <2>1. job' = [job EXCEPT ![p].at = "retiring", ![p].existing = {}]
    BY <1>2 DEF ReadPrevious
  <2>2. QED
    BY <1>1, <1>2, <2>1 DEF JobShape, Fields, Idle, Others, SameBatch
<1>3. CASE job[p].evicted # {}
  <2>1. PICK newest :
          /\ newest = NewestSummary(p[1])
          /\ job' = [job EXCEPT ![p].at = "folding", ![p].existing = {},
                                ![p].previous = newest]
    BY <1>3 DEF ReadPrevious
  <2>2. QED
    BY <1>1, <1>3, <2>1 DEF JobShape, Fields, Idle, Others, SameBatch
<1>4. QED
  BY <1>2, <1>3

LEMMA RetireBatch ==
    ASSUME JobShape, NEW p \in Processes, Retire(p)
    PROVE  /\ Others(p) /\ job[p].at = "retiring" /\ job'[p].at = "unindexing"
           /\ job'[p].evicted = job[p].evicted /\ job'[p].replaces = {}
  BY DEF JobShape, Fields, Idle, Others, Retire

\* A saying that may be quoted stands, and any other is dropped.
LEMMA SafeOne ==
    ASSUME NEW x
    PROVE  Safe(<<x>>) = IF x \in Quotable THEN <<x>> ELSE <<>>
<1> DEFINE places == {i \in DOMAIN <<x>> : <<x>>[i] \in Quotable}
<1>1. Safe(<<x>>) = Picked(<<x>>, places)
  BY DEF Safe
<1>2. CASE x \in Quotable
  <2>1. places = {1}
    BY <1>2
  <2> HIDE DEF places
  <2>2. IsFiniteSet({1}) /\ Cardinality({1}) = 1
    BY FS_Singleton
  <2>3. Nth({1}, 1) = 1
    BY <2>2, NthInOrder
  <2>4. Picked(<<x>>, places) = [i \in 1..1 |-> <<x>>[Nth({1}, i)]]
    BY <2>1, <2>2 DEF Picked
  <2>5. Picked(<<x>>, places) = <<x>>
    BY <2>3, <2>4
  <2>6. QED
    BY <1>1, <1>2, <2>5
<1>3. CASE x \notin Quotable
  <2>1. places = {}
    BY <1>3
  <2> HIDE DEF places
  <2>2. Cardinality({}) = 0
    BY FS_EmptySet
  <2>3. Picked(<<x>>, places) = <<>>
    BY <2>1, <2>2 DEF Picked
  <2>4. QED
    BY <1>1, <1>3, <2>3
<1>4. QED
  BY <1>2, <1>3

\* A goal that fits its line is stated as it is.
LEMMA FittingGoal ==
    ASSUME NEW x, x \notin Long, NEW items, NEW other, NEW text \in Statements(<<x>>, items, other)
    PROVE  text.goal = <<x>>
<1>1. Fits(<<x>>) /\ <<x>> # <<>>
  BY DEF Fits
<1>2. \/ \E s \in {items} : \E e : text = [goal |-> <<x>>, items |-> s, ends |-> e]
      \/ \E s \in {<<>>} : \E e : text = [goal |-> <<x>>, items |-> s, ends |-> e]
  BY <1>1 DEF Statements
<1>3. QED
  BY <1>2

\* The goal a fold comes to is one saying: what was named, what is carried, or
\* the oldest request.
LEMMA FoldGoalIs ==
    ASSUME NEW p \in Processes, NEW named, NEW other, NEW text, FoldCase(p, named, other, text)
    PROVE  \E x :
             /\ FoldGoal(p, named) = Safe(<<x>>)
             /\ IF named.goal # <<>> THEN named \in Summaries[p[1]] /\ x = named.goal[1]
                ELSE IF Carried(p).goal # <<>> THEN x = Carried(p).goal[1]
                ELSE x = Min(job[p].evicted)
<1>1. named \in Summaries[p[1]] \cup {Silent} /\ p[1] \in Turns
  BY Zenon DEF FoldCase, Processes
<1>2. CASE named.goal # <<>>
  <2>1. named \in Summaries[p[1]]
    BY <1>1, <1>2 DEF Silent
  <2>2. named.goal \in Seq(Sayings) /\ Len(named.goal) <= 1
    BY <1>1, <2>1, NamingAssumption DEF NamingAssumption
  <2>3. named.goal = <<named.goal[1]>>
    <3>1. PICK g : g = named.goal
      OBVIOUS
    <3>2. Len(g) \in Nat /\ Len(g) <= 1 /\ g # <<>> /\ g \in Seq(Sayings)
      BY <1>2, <2>2, <3>1
    <3>3. Len(g) = 1
      <4>1. \A s \in Seq(Sayings) : s # <<>> => Len(s) \in Nat \ {0}
        BY EmptySeq
      <4>2. g # <<>> /\ g \in Seq(Sayings)
        BY <3>2, Zenon
      <4>3. Len(g) \in Nat \ {0}
        BY <4>1, <4>2, Zenon
      <4>4. Len(g) <= 1
        BY <3>2, Zenon
      <4>5. PICK n : n = Len(g)
        OBVIOUS
      <4>6. n \in Nat \ {0} /\ n <= 1
        BY <4>3, <4>4, <4>5, Zenon
      <4>7. n = 1
        BY <4>6
      <4>8. QED
        BY <4>5, <4>7, Zenon
    <3>4. g = <<g[1]>>
      BY <3>2, <3>3
    <3>5. QED
      BY <3>1, <3>4
  <2>4. FoldGoal(p, named) = Safe(named.goal)
    BY <1>2, Zenon DEF FoldGoal, Goal
  <2>5. QED
    BY <1>2, <2>1, <2>3, <2>4, Zenon
<1>3. CASE named.goal = <<>> /\ Carried(p).goal # <<>>
  BY <1>3, Zenon DEF FoldGoal, Goal
<1>4. CASE named.goal = <<>> /\ Carried(p).goal = <<>>
  BY <1>4, Zenon DEF FoldGoal, Goal
<1>5. QED
  BY <1>2, <1>3, <1>4

\* A fold has something to say and is written as the process's own, or its
\* goal is one no summary may quote.
LEMMA FoldBatch ==
    ASSUME JobShape, NEW p \in Processes, Fold(p),
           job[p].evicted # {}, job[p].evicted \subseteq Turns
    PROVE  /\ Others(p) /\ job[p].at = "folding" /\ job'[p].evicted = job[p].evicted
           /\ \/ /\ job'[p].at = "retiring" /\ job'[p].replaces = job[p].replaces
                 /\ \/ Misled(p[1])
                    \/ job[p].previous # 0 /\ Spoiled(summaries[job[p].previous].text)
                    \/ \E v \in job[p].evicted \cap Unsafe : \A u \in job[p].evicted : v <= u
              \/ /\ job'[p].at = "writing" /\ job'[p].replaces = LiveSummaries(p[1])
                 /\ \E row :
                      /\ job'[p].summary = <<row>> /\ IsSummary(row)
                      /\ row.run = p[1] /\ row.live /\ row.links = job[p].evicted
                      /\ job[p].previous # 0 => Keeps(summaries[job[p].previous], row)
<1> DEFINE batch == job[p].evicted
<1>1. job[p].at = "folding" /\ p[1] \in Turns
  BY FoldIs DEF Processes
<1>2. PICK named, other, text : FoldCase(p, named, other, text)
  BY FoldIs
<1>3. PICK x :
        /\ FoldGoal(p, named) = Safe(<<x>>)
        /\ IF named.goal # <<>> THEN named \in Summaries[p[1]] /\ x = named.goal[1]
           ELSE IF Carried(p).goal # <<>> THEN x = Carried(p).goal[1]
           ELSE x = Min(batch)
  BY <1>2, FoldGoalIs
<1>4. Carried(p) = IF job[p].previous = 0 THEN NoSummary
                   ELSE ParseSummary(summaries[job[p].previous].text)
  BY DEF Carried
<1>5. CASE SaysNothing(p, named, other)
  <2>1. job' = [job EXCEPT ![p].at = "retiring", ![p].previous = 0]
    BY <1>2, <1>5, Zenon DEF FoldCase
  <2>2. Others(p) /\ job'[p].at = "retiring" /\ SameBatch(p)
    BY <2>1 DEF JobShape, Fields, Idle, Others, SameBatch
  <2>3. x \notin Quotable
    <3>1. Safe(<<x>>) = <<>>
      BY <1>3, <1>5, Zenon DEF SaysNothing
    <3>2. <<x>> # <<>>
      OBVIOUS
    <3>3. Safe(<<x>>) = IF x \in Quotable THEN <<x>> ELSE <<>>
      BY SafeOne
    <3>4. QED
      BY <3>1, <3>2, <3>3, Zenon
  <2>4. CASE named.goal # <<>>
    BY <1>1, <1>3, <2>2, <2>3, <2>4 DEF Misled, SameBatch
  <2>5. CASE named.goal = <<>> /\ Carried(p).goal # <<>>
    <3>1. job[p].previous # 0
      BY <1>4, <2>5 DEF NoSummary
    <3>2. Spoiled(summaries[job[p].previous].text)
      BY <1>3, <1>4, <2>3, <2>5, <3>1, Zenon DEF Spoiled
    <3>3. QED
      BY <1>1, <2>2, <3>1, <3>2, Zenon DEF SameBatch
  <2>6. CASE named.goal = <<>> /\ Carried(p).goal = <<>>
    <3>1. x = Min(batch)
      BY <1>3, <2>6
    <3>2. batch \in SUBSET Nat
      BY SizesOf
    <3>3. Min(batch) \in batch /\ \A u \in batch : Min(batch) <= u
      BY <3>2, Least
    <3>4. Min(batch) \in Unsafe
      BY <2>3, <3>1, <3>3 DEF Quotable, Sayings
    <3>5. QED
      BY <1>1, <2>2, <3>3, <3>4, Zenon DEF SameBatch
  <2>7. QED
    BY <2>4, <2>5, <2>6
<1>6. CASE ~SaysNothing(p, named, other)
  <2> DEFINE row == FoldRow(p, named, text)
  <2>1. PICK rows, replaced :
          /\ rows = <<row>> /\ replaced = LiveSummaries(p[1])
          /\ job' = [job EXCEPT ![p].at = "writing", ![p].previous = 0,
                                ![p].summary = rows, ![p].replaces = replaced]
    BY <1>2, <1>6, Zenon DEF FoldCase
  <2>2. /\ Others(p) /\ job'[p].at = "writing" /\ job'[p].evicted = job[p].evicted
        /\ job'[p].summary = rows /\ job'[p].replaces = replaced
    BY <2>1 DEF JobShape, Fields, Idle, Others
  <2>3. /\ DOMAIN row = SummaryFields /\ row.run = p[1] /\ row.live = TRUE
        /\ row.links = batch /\ row.text = text /\ row.named = (named.goal # <<>>)
    BY DEF FoldRow, SummaryFields
  <2> HIDE DEF row
  <2>4. IsSummary(row)
    BY <1>1, <2>3 DEF IsSummary
  <2>5. ASSUME job[p].previous # 0, Firm(summaries[job[p].previous].text), named.goal = <<>>
        PROVE  text.goal = summaries[job[p].previous].text.goal
    <3> DEFINE old == summaries[job[p].previous].text
               carried == ParseSummary(old).goal
    <3>1. carried # <<>> /\ old.goal = <<carried[1]>> /\ carried[1] \in Quotable \ Long
      BY <2>5 DEF Firm
    <3>2. Carried(p).goal = carried
      BY <1>4, <2>5
    <3> HIDE DEF carried, old
    <3>3. x = carried[1]
      BY <1>3, <2>5, <3>1, <3>2
    <3>4. FoldGoal(p, named) = <<x>>
      BY <1>3, <3>1, <3>3, SafeOne
    <3>5. text \in Statements(<<x>>, FoldItems(p, named), other)
      BY <1>2, <3>4, Zenon DEF FoldCase
    <3>6. text.goal = <<x>>
      BY <3>1, <3>3, <3>5, FittingGoal
    <3>7. QED
      BY <3>1, <3>3, <3>6 DEF old
  <2>6. job[p].previous # 0 => Keeps(summaries[job[p].previous], row)
    BY <2>3, <2>5, Zenon DEF Keeps
  <2>7. QED
    BY <1>1, <2>1, <2>2, <2>3, <2>4, <2>6, Zenon
<1>7. QED
  BY <1>5, <1>6

(***************************************************************************)
(* The two actions that change the summaries, and what neither touches.    *)
(***************************************************************************)
LEMMA IntoSeq ==
    ASSUME NEW n \in Nat, NEW R, NEW f \in [1..n -> R]
    PROVE  f \in Seq(R)
  BY SeqDef

SameSummary(old, new) ==
    /\ new.run = old.run /\ new.links = old.links
    /\ new.named = old.named /\ new.text = old.text

Grown ==
    /\ Len(summaries) <= Len(summaries')
    /\ \A i \in DOMAIN summaries : SameSummary(summaries[i], summaries'[i])

LEMMA WriteFacts ==
    ASSUME SummariesShape, NEW row, IsSummary(row), summaries' = summaries \o <<row>>
    PROVE  /\ SummariesShape' /\ Grown
           /\ Len(summaries') = Len(summaries) + 1 /\ summaries'[Len(summaries')] = row
           /\ \A i \in 1..Len(summaries) : summaries'[i] = summaries[i]
<1> DEFINE S == ToSet(summaries) \cup {row}
           n == Len(summaries)
<1>1. summaries \in Seq(S) /\ <<row>> \in Seq(S)
  <2>1. summaries \in Seq(ToSet(summaries)) /\ ToSet(summaries) \subseteq S
    BY DEF SummariesShape
  <2> HIDE DEF S
  <2>2. summaries \in Seq(S)
    BY <2>1, SeqMonotonic
  <2>3. row \in S
    BY DEF S
  <2>4. QED
    BY <2>2, <2>3
<1> HIDE DEF S
<1>2. n \in Nat /\ DOMAIN summaries = 1..n /\ Len(<<row>>) = 1 /\ <<row>>[1] = row
  BY <1>1, LenProperties
<1>3. /\ summaries' \in Seq(S) /\ Len(summaries') = n + 1
      /\ \A i \in 1..(n + 1) : summaries'[i] = IF i <= n THEN summaries[i] ELSE <<row>>[i - n]
  BY <1>1, <1>2, ConcatProperties
<1>4. DOMAIN summaries' = 1..(n + 1)
  BY <1>3, LenProperties
<1> HIDE DEF n
<1>5. summaries'[n + 1] = row /\ \A i \in 1..n : summaries'[i] = summaries[i]
  BY <1>2, <1>3
<1>6. summaries' \in Seq(ToSet(summaries'))
  <2> DEFINE R == {summaries'[i] : i \in 1..(n + 1)}
  <2>1. summaries' \in [1..(n + 1) -> S]
    BY <1>3, <1>4, LenProperties
  <2>2. summaries' \in [1..(n + 1) -> R]
    BY <2>1
  <2>3. R = ToSet(summaries')
    BY <1>4 DEF ToSet
  <2> HIDE DEF R
  <2>4. QED
    <3>1. n + 1 \in Nat
      BY <1>2
    <3>2. QED
      BY <3>1, <2>2, <2>3, IntoSeq
<1>7. \A i \in DOMAIN summaries' : IsSummary(summaries'[i])
  BY <1>2, <1>4, <1>5 DEF SummariesShape
<1>8. SummariesShape'
  BY <1>6, <1>7 DEF SummariesShape, IsSummary, SummaryFields
<1>9. Grown
  BY <1>2, <1>3, <1>5 DEF Grown, SameSummary, n
<1>10. QED
  BY <1>3, <1>5, <1>8, <1>9 DEF n

LEMMA RetireFacts ==
    ASSUME SummariesShape, NEW gone,
           summaries' = [i \in DOMAIN summaries |->
                           [summaries[i] EXCEPT !.live = @ /\ i \notin gone]]
    PROVE  /\ SummariesShape' /\ Grown
           /\ Len(summaries') = Len(summaries) /\ DOMAIN summaries' = DOMAIN summaries
           /\ \A i \in DOMAIN summaries :
                 summaries'[i].live <=> summaries[i].live /\ i \notin gone
<1> DEFINE n == Len(summaries)
<1>1. /\ n = Len(summaries) /\ n \in Nat
      /\ DOMAIN summaries = 1..n /\ DOMAIN summaries' = 1..n
  BY LenProperties DEF SummariesShape
<1>2. ASSUME NEW i \in 1..n
      PROVE  /\ IsSummary(summaries'[i]) /\ SameSummary(summaries[i], summaries'[i])
             /\ summaries'[i].live <=> summaries[i].live /\ i \notin gone
  <2>1. IsSummary(summaries[i])
    BY <1>1 DEF SummariesShape
  <2>2. PICK old, live2 : old = summaries[i] /\ live2 = (old.live /\ i \notin gone)
    OBVIOUS
  <2>3. summaries'[i] = [old EXCEPT !.live = live2]
    BY <1>1, <2>2
  <2>4. live2 \in BOOLEAN
    BY <2>2
  <2>5. /\ DOMAIN summaries'[i] = SummaryFields /\ summaries'[i].live = live2
        /\ SameSummary(old, summaries'[i])
    BY <2>1, <2>2, <2>3 DEF IsSummary, SummaryFields, SameSummary
  <2>6. IsSummary(summaries'[i])
    BY <2>1, <2>2, <2>4, <2>5, Zenon DEF IsSummary, SameSummary
  <2>7. QED
    BY <2>2, <2>5, <2>6, Zenon
<1> HIDE DEF n
<1>3. summaries' \in Seq(ToSet(summaries'))
  <2> DEFINE R == {summaries'[i] : i \in 1..n}
  <2>1. summaries' \in [1..n -> R]
    BY <1>1
  <2>2. R = ToSet(summaries')
    BY <1>1 DEF ToSet
  <2> HIDE DEF R
  <2>3. QED
    BY <1>1, <2>1, <2>2, IntoSeq
<1>4. Len(summaries') = n
  BY <1>1, <1>3, LenProperties
<1>5. SummariesShape'
  BY <1>1, <1>2, <1>3 DEF SummariesShape, IsSummary, SummaryFields
<1>6. Grown
  BY <1>1, <1>2, <1>4 DEF Grown
<1>7. QED
  BY <1>1, <1>2, <1>4, <1>5, <1>6

(***************************************************************************)
(* What a step does to the tables, whichever it is.                        *)
(***************************************************************************)
LEMMA SummarySteps ==
    ASSUME [Next]_vars
    PROVE  summaries' = summaries \/ \E p \in Processes : WriteSummary(p) \/ Retire(p)
<1>1. ASSUME NEW u \in Turns, Handle(u) \/ Resume(u) \/ FilePause(u)
      PROVE  summaries' = summaries
  BY <1>1 DEF Handle, Resume, FilePause, Starts, storeVars
<1>2. ASSUME NEW p \in Processes,
             ReadEvicted(p) \/ ReadExisting(p) \/ Judge(p) \/ ReadPrevious(p)
      PROVE  summaries' = summaries
  BY <1>2, Zenon DEF ReadEvicted, ReadExisting, Judge, ReadPrevious, storeVars
<1>3. ASSUME NEW p \in Processes,
             \/ RetirePoints(p) \/ IndexWritten(p) \/ MarkPromoted(p)
             \/ RecordTurn(p) \/ Raise(p) \/ Die(p)
      PROVE  summaries' = summaries
  BY <1>3 DEF RetirePoints, IndexWritten, MarkPromoted, RecordTurn, Raise, Die, storeVars
<1>4. ASSUME UNCHANGED vars PROVE summaries' = summaries
  BY <1>4 DEF vars, storeVars
<1>5. QED
  BY <1>1, <1>2, <1>3, <1>4, FoldIs DEF Next, Consolidate

LEMMA TableSteps ==
    ASSUME [Next]_vars
    PROVE  table' = table \/ \E p \in Processes : table' = [table EXCEPT ![p[1]] = Outcome(p)]
<1>1. ASSUME NEW t \in Turns, Handle(t) \/ Resume(t) \/ FilePause(t) PROVE table' = table
  BY <1>1 DEF Handle, Resume, FilePause, Starts, windowVars
<1>2. ASSUME NEW p \in Processes,
             \/ ReadEvicted(p) \/ ReadExisting(p) \/ Judge(p) \/ ReadPrevious(p)
             \/ WriteSummary(p) \/ Retire(p)
      PROVE  table' = table
  BY <1>2, Zenon DEF ReadEvicted, ReadExisting, Judge, ReadPrevious, WriteSummary, Retire,
                     windowVars
<1>3. ASSUME NEW p \in Processes,
             RetirePoints(p) \/ IndexWritten(p) \/ MarkPromoted(p) \/ Raise(p) \/ Die(p)
      PROVE  table' = table
  BY <1>3 DEF RetirePoints, IndexWritten, MarkPromoted, Raise, Die, windowVars
<1>4. ASSUME NEW p \in Processes, RecordTurn(p)
      PROVE  table' = table \/ table' = [table EXCEPT ![p[1]] = Outcome(p)]
  BY <1>4 DEF RecordTurn
<1>5. ASSUME UNCHANGED vars PROVE table' = table
  BY <1>5 DEF vars, windowVars
<1>6. QED
  BY <1>1, <1>2, <1>3, <1>4, <1>5, FoldIs DEF Next, Consolidate

LEMMA SpillingSteps ==
    ASSUME [Next]_vars
    PROVE  spilled' = spilled \/ \E p \in Processes : Fold(p)
<1>1. ASSUME NEW t \in Turns, Handle(t) \/ Resume(t) \/ FilePause(t)
      PROVE  spilled' = spilled
  BY <1>1 DEF Handle, Resume, FilePause, Starts, history
<1>2. Failing \/ UNCHANGED history => spilled' = spilled
  BY DEF Failing, history
<1>3. ASSUME NEW p \in Processes,
             \/ ReadEvicted(p) \/ ReadExisting(p) \/ ReadPrevious(p) \/ WriteSummary(p)
             \/ Retire(p) \/ RetirePoints(p) \/ IndexWritten(p) \/ MarkPromoted(p)
             \/ RecordTurn(p) \/ Raise(p) \/ Die(p)
      PROVE  spilled' = spilled
  BY <1>2, <1>3, Zenon DEF ReadEvicted, ReadExisting, ReadPrevious, WriteSummary, Retire,
                           RetirePoints, IndexWritten, MarkPromoted, RecordTurn, Raise, Die,
                           Calm
<1>4. ASSUME NEW p \in Processes, Judge(p) PROVE spilled' = spilled
  BY <1>4, Zenon DEF Judge
<1>5. ASSUME UNCHANGED vars PROVE spilled' = spilled
  BY <1>5 DEF vars, history
<1>6. QED
  BY <1>1, <1>3, <1>4, <1>5 DEF Next, Consolidate

Marked(p) ==
    [u \in Turns |-> IF u \in job[p].evicted /\ promoted[u] = 0 THEN p[1] ELSE promoted[u]]

LEMMA PromotedSteps ==
    ASSUME [Next]_vars
    PROVE  promoted' = promoted \/ \E p \in Processes : promoted' = Marked(p)
<1>1. ASSUME NEW t \in Turns, Handle(t) \/ Resume(t) \/ FilePause(t)
      PROVE  promoted' = promoted
  BY <1>1 DEF Handle, Resume, FilePause, Starts, windowVars
<1>2. ASSUME NEW p \in Processes,
             \/ ReadEvicted(p) \/ ReadExisting(p) \/ Judge(p) \/ ReadPrevious(p)
             \/ WriteSummary(p) \/ Retire(p)
      PROVE  promoted' = promoted
  BY <1>2, Zenon DEF ReadEvicted, ReadExisting, Judge, ReadPrevious, WriteSummary, Retire,
                     windowVars
<1>3. ASSUME NEW p \in Processes,
             RetirePoints(p) \/ IndexWritten(p) \/ RecordTurn(p) \/ Raise(p) \/ Die(p)
      PROVE  promoted' = promoted
  BY <1>3 DEF RetirePoints, IndexWritten, RecordTurn, Raise, Die, windowVars
<1>4. ASSUME NEW p \in Processes, MarkPromoted(p)
      PROVE  promoted' = promoted \/ promoted' = Marked(p)
  BY <1>4 DEF MarkPromoted, Marked
<1>5. ASSUME UNCHANGED vars PROVE promoted' = promoted
  BY <1>5 DEF vars, windowVars
<1>6. QED
  BY <1>1, <1>2, <1>3, <1>4, <1>5, FoldIs DEF Next, Consolidate

(***************************************************************************)
(* The steps.  A step of one process leaves what the others hold, and as   *)
(* long as nothing has overlapped the others are at rest.                  *)
(***************************************************************************)
Undisturbed(p) ==
    /\ Others(p)
    /\ ~overlapped' => ~overlapped /\ \A q \in Processes : q # p => job[q].at \in Resting

\* A session's summaries stay in it, and say what they said.
LEMMA ToldGrows ==
    ASSUME SummariesShape, Grown, NEW t
    PROVE  /\ Told(t) \subseteq Told(t)'
           /\ \A i \in Told(t) : summaries'[i].text = summaries[i].text
<1>1. \A i \in DOMAIN summaries :
         /\ i \in DOMAIN summaries' /\ summaries'[i].run = summaries[i].run
         /\ summaries'[i].text = summaries[i].text
  BY DEF Grown, SameSummary, SummariesShape
<1>2. QED
  BY <1>1 DEF Told

LEMMA OthersStand ==
    ASSUME NEW p \in Processes, Undisturbed(p), SummariesShape, Grown,
           NEW q \in Processes, q # p, BatchInv(q), GoalInv(q)
    PROVE  BatchInv(q)' /\ GoalInv(q)'
<1>1. job'[q] = job[q]
  BY DEF Undisturbed, Others
<1>2. \A run, links :
        (\E i \in DOMAIN summaries : summaries[i].run = run /\ summaries[i].links = links)
        => \E i \in DOMAIN summaries' :
              summaries'[i].run = run /\ summaries'[i].links = links
  BY DEF Grown, SameSummary, SummariesShape
<1>3. /\ Told(q[1]) \subseteq Told(q[1])'
      /\ \A i \in Told(q[1]) : summaries'[i].text = summaries[i].text
  BY ToldGrows
<1>4. BatchInv(q)'
  BY <1>1, <1>2, <1>3 DEF BatchInv, IsSummary, SummaryFields
<1>5. GoalInv(q)'
  BY <1>1 DEF Undisturbed, GoalInv, Resting, Waiting
<1>6. QED
  BY <1>4, <1>5

\* What a turn was promoted for stays where it was.
LEMMA PromotedStand ==
    ASSUME SummariesShape, Grown, PromotedIsFolded, promoted' = promoted
    PROVE  PromotedIsFolded'
<1>1. \A i \in DOMAIN summaries : i \in DOMAIN summaries'
        /\ summaries'[i].run = summaries[i].run /\ summaries'[i].links = summaries[i].links
  BY DEF Grown, SameSummary, SummariesShape
<1>2. \A u : /\ Told(u) \subseteq Told(u)'
             /\ \A i \in Told(u) : summaries'[i].text = summaries[i].text
  BY ToldGrows
<1>3. QED
  BY <1>1, <1>2 DEF PromotedIsFolded, SessionOf

\* A step that leaves the summaries alone.
LEMMA QuietStep ==
    ASSUME SummaryInv, NEW p \in Processes, Undisturbed(p), summaries' = summaries,
           PromotedIsFolded', BatchInv(p)', GoalInv(p)'
    PROVE  SummaryInv'
<1>1. SummariesShape /\ SummariesShape'
  BY DEF SummaryInv, SummariesShape, IsSummary, SummaryFields
<1>2. Grown
  BY <1>1 DEF Grown, SameSummary, SummariesShape
<1>3. \A q \in Processes : q # p => BatchInv(q)' /\ GoalInv(q)'
  BY <1>1, <1>2, OthersStand DEF SummaryInv
<1>4. QED
  BY <1>1, <1>3 DEF SummaryInv

\* Most steps move a process on with the batch and the replacements it has.
LEMMA MovingStep ==
    ASSUME SummaryInv, NEW p \in Processes, Undisturbed(p), SameBatch(p),
           summaries' = summaries, promoted' = promoted,
           \/ job[p].at = "idle" /\ job'[p].at \in Waiting
           \/ job[p].at = "paused" /\ job'[p].at = "recording"
           \/ job[p].at \in {"evicted", "judging"} /\ job'[p].at \in {"judging", "promoting"}
           \/ job[p].at \in {"unindexing", "indexing"} /\ job'[p].at \in Settling
    PROVE  SummaryInv'
<1>1. BatchInv(p) /\ GoalInv(p) /\ SummariesShape /\ PromotedIsFolded
  BY DEF SummaryInv
<1>2. PromotedIsFolded'
  BY <1>1 DEF PromotedIsFolded, SessionOf, Told
<1>3. BatchInv(p)'
  BY <1>1 DEF BatchInv, SameBatch, Waiting, Settling, SessionOf, Told
<1>4. GoalInv(p)'
  BY <1>1 DEF GoalInv, SameBatch, Undisturbed, Waiting, Settling
<1>5. QED
  BY <1>2, <1>3, <1>4, QuietStep

LEMMA EvictedStep ==
    ASSUME SummaryInv, JobShape, NEW p \in Processes, Undisturbed(p), ReadEvicted(p)
    PROVE  SummaryInv'
<1>1. BatchInv(p) /\ GoalInv(p) /\ SummariesShape /\ PromotedIsFolded
  BY DEF SummaryInv
<1>2. summaries' = summaries /\ promoted' = promoted
  BY DEF ReadEvicted, storeVars, windowVars
<1>3. PromotedIsFolded'
  BY <1>1, <1>2 DEF PromotedIsFolded, SessionOf, Told
<1>4. BatchInv(p)'
  BY <1>1, EvictedBatch DEF BatchInv, Waiting, Settling, SessionOf, Told
<1>5. GoalInv(p)'
  BY <1>1, EvictedBatch DEF GoalInv, Undisturbed, Waiting
<1>6. QED
  BY <1>2, <1>3, <1>4, <1>5, QuietStep

LEMMA PreviousStep ==
    ASSUME SummaryInv, JobShape, NEW p \in Processes, Undisturbed(p), ReadPrevious(p)
    PROVE  SummaryInv'
<1>1. BatchInv(p) /\ GoalInv(p) /\ SummariesShape /\ PromotedIsFolded
  BY DEF SummaryInv
<1>2. summaries' = summaries /\ promoted' = promoted
  BY DEF ReadPrevious, storeVars, windowVars
<1>3. PromotedIsFolded'
  BY <1>1, <1>2 DEF PromotedIsFolded, SessionOf, Told
<1>4. BatchInv(p)'
  <2>1. NewestSummary(p[1]) # 0 => NewestSummary(p[1]) \in Told(p[1])'
    <3>1. NewestSummary(p[1]) # 0 => NewestSummary(p[1]) \in LiveSummaries(p[1])
      BY <1>1, NewestFacts DEF Processes
    <3>2. QED
      BY <1>2, <3>1 DEF LiveSummaries, Told, SessionOf
  <2>2. QED
    BY <1>1, <2>1, PreviousBatch DEF BatchInv, SameBatch, Waiting, Settling, SessionOf
<1>5. NewestSummary(p[1])' = NewestSummary(p[1])
  BY <1>2 DEF NewestSummary, LiveSummaries
<1>6. ~overlapped' => job'[p].replaces = {}
  BY <1>1, PreviousBatch DEF GoalInv, SameBatch, Undisturbed
<1>7. GoalInv(p)'
  BY <1>5, <1>6, PreviousBatch DEF GoalInv, Waiting
<1>8. QED
  BY <1>2, <1>3, <1>4, <1>7, QuietStep

LEMMA FoldStep ==
    ASSUME SummaryInv, JobShape, NEW p \in Processes, Undisturbed(p), Fold(p)
    PROVE  SummaryInv'
<1>1. BatchInv(p) /\ GoalInv(p) /\ SummariesShape /\ PromotedIsFolded
  BY DEF SummaryInv
<1>2. summaries' = summaries /\ promoted' = promoted /\ job[p].at = "folding"
  BY DEF Fold, storeVars, windowVars
<1>3. PromotedIsFolded'
  BY <1>1, <1>2 DEF PromotedIsFolded, SessionOf, Told
<1>4. job[p].evicted # {} /\ job[p].evicted \subseteq SessionOf(p[1])
  BY <1>1, <1>2 DEF BatchInv
<1>5. job[p].evicted \subseteq Turns
  BY <1>4 DEF SessionOf
<1>6. /\ NewestSummary(p[1])' = NewestSummary(p[1])
      /\ LiveSummaries(p[1])' = LiveSummaries(p[1])
  BY <1>2 DEF NewestSummary, LiveSummaries
<1>7. CASE job'[p].at = "retiring"
  <2>1. /\ job'[p].evicted = job[p].evicted /\ job'[p].replaces = job[p].replaces
        /\ \/ Misled(p[1])
           \/ job[p].previous # 0 /\ Spoiled(summaries[job[p].previous].text)
           \/ \E v \in job[p].evicted \cap Unsafe : \A u \in job[p].evicted : v <= u
    BY <1>4, <1>5, <1>7, FoldBatch
  <2>a. /\ job[p].previous # 0 => job[p].previous \in Told(p[1])
        /\ Told(p[1])' = Told(p[1])
    BY <1>1, <1>2 DEF BatchInv, Told
  <2>b. \/ Misled(p[1])
        \/ \E i \in Told(p[1])' : Spoiled(summaries'[i].text)
        \/ \E v \in job[p].evicted \cap Unsafe : \A u \in job[p].evicted : v <= u
    BY <1>2, <2>1, <2>a
  <2>2. BatchInv(p)'
    BY <1>4, <1>7, <2>1, <2>b DEF BatchInv, Waiting, Settling, SessionOf
  <2>3. ~overlapped' => job'[p].replaces = {}
    BY <1>1, <1>2, <2>1 DEF GoalInv, Undisturbed
  <2>4. GoalInv(p)'
    BY <1>7, <2>3 DEF GoalInv, Waiting
  <2>5. QED
    BY <1>2, <1>3, <2>2, <2>4, QuietStep
<1>8. CASE job'[p].at = "writing"
  <2>1. PICK row :
          /\ job'[p].evicted = job[p].evicted /\ job'[p].replaces = LiveSummaries(p[1])
          /\ job'[p].summary = <<row>> /\ IsSummary(row)
          /\ row.run = p[1] /\ row.live /\ row.links = job[p].evicted
          /\ job[p].previous # 0 => Keeps(summaries[job[p].previous], row)
    BY <1>4, <1>5, <1>8, FoldBatch
  <2>2. job'[p].summary[1] = row
    BY <2>1
  <2>3. BatchInv(p)'
    BY <1>4, <1>8, <2>1, <2>2 DEF BatchInv, IsSummary, Waiting, Settling, SessionOf
  <2>4. ~overlapped' => job[p].previous = NewestSummary(p[1])
    BY <1>1, <1>2 DEF GoalInv, Undisturbed
  <2>5. GoalInv(p)'
    BY <1>2, <1>6, <1>8, <2>1, <2>2, <2>4 DEF GoalInv, Waiting
  <2>6. QED
    BY <1>2, <1>3, <2>3, <2>5, QuietStep
<1>9. QED
  BY <1>4, <1>5, <1>7, <1>8, FoldBatch

LEMMA MarkingStep ==
    ASSUME SummaryInv, JobShape, NEW p \in Processes, Undisturbed(p), MarkPromoted(p)
    PROVE  SummaryInv'
<1>1. BatchInv(p) /\ GoalInv(p) /\ SummariesShape /\ PromotedIsFolded
  BY DEF SummaryInv
<1>2. /\ summaries' = summaries /\ job[p].at = "marking"
      /\ job' = [job EXCEPT ![p] = [Idle EXCEPT !.at = "recording"]]
  BY DEF MarkPromoted, storeVars
<1>3. \/ promoted' = promoted
      \/ promoted' = [u \in Turns |-> IF u \in job[p].evicted /\ promoted[u] = 0
                                      THEN p[1] ELSE promoted[u]]
  BY DEF MarkPromoted
<1>4. p[1] \in Turns /\ p[1] # 0
  BY SizesOf DEF Processes
<1>5. Others(p) /\ job'[p].at = "recording" /\ job'[p].evicted = {}
  BY <1>2, ResetBatch
<1>6. BatchInv(p)' /\ GoalInv(p)'
  BY <1>5 DEF BatchInv, GoalInv, Waiting, Settling
<1>7. CASE promoted' = promoted
  <2>1. PromotedIsFolded'
    BY <1>1, <1>2, <1>7 DEF PromotedIsFolded, SessionOf, Told
  <2>2. QED
    BY <1>2, <1>6, <2>1, QuietStep
<1>8. CASE promoted' = [u \in Turns |-> IF u \in job[p].evicted /\ promoted[u] = 0
                                        THEN p[1] ELSE promoted[u]]
  <2>1. \A u \in Turns : promoted[u] # 0 => promoted'[u] = promoted[u]
    BY <1>8
  <2>2. \A u \in Turns \cap job[p].evicted : promoted'[u] # 0
    BY <1>4, <1>8
  <2>3. ASSUME NEW u \in Turns, promoted'[u] # 0, promoted[u] # 0
        PROVE  \/ \E i \in DOMAIN summaries :
                    summaries[i].run = promoted'[u] /\ u \in summaries[i].links
               \/ Misled(promoted'[u]) \/ \E i \in Told(u) : Spoiled(summaries[i].text)
               \/ \E v \in SessionOf(u) \cap Unsafe : v <= u /\ promoted'[v] # 0
    BY <1>1, <2>1, <2>3 DEF PromotedIsFolded, SessionOf
  <2>4. ASSUME NEW u \in Turns, promoted'[u] # 0, promoted[u] = 0
        PROVE  \/ \E i \in DOMAIN summaries :
                    summaries[i].run = promoted'[u] /\ u \in summaries[i].links
               \/ Misled(promoted'[u]) \/ \E i \in Told(u) : Spoiled(summaries[i].text)
               \/ \E v \in SessionOf(u) \cap Unsafe : v <= u /\ promoted'[v] # 0
    <3>1. u \in job[p].evicted /\ promoted'[u] = p[1]
      BY <1>8, <2>4
    <3>2. job[p].evicted \subseteq SessionOf(p[1])
      BY <1>1 DEF BatchInv
    <3>3. \/ \E i \in DOMAIN summaries :
               summaries[i].run = p[1] /\ summaries[i].links = job[p].evicted
          \/ Misled(p[1]) \/ \E i \in Told(p[1]) : Spoiled(summaries[i].text)
          \/ \E v \in job[p].evicted \cap Unsafe : \A w \in job[p].evicted : v <= w
      BY <1>1, <1>2, <3>1 DEF BatchInv, Settling
    <3>4. Told(u) = Told(p[1])
      BY <3>1, <3>2 DEF Told, SessionOf
    <3>5. QED
      BY <2>2, <3>1, <3>2, <3>3, <3>4 DEF SessionOf
  <2>5. PromotedIsFolded'
    BY <1>2, <2>3, <2>4 DEF PromotedIsFolded, SessionOf, Told
  <2>6. QED
    BY <1>2, <1>6, <2>5, QuietStep
<1>9. QED
  BY <1>3, <1>7, <1>8

LEMMA LeavingStep ==
    ASSUME SummaryInv, JobShape, NEW p \in Processes, Undisturbed(p),
           RecordTurn(p) \/ Raise(p) \/ Die(p)
    PROVE  SummaryInv'
<1>1. PICK to \in {"recording", "done", "dead"} :
        job' = [job EXCEPT ![p] = [Idle EXCEPT !.at = to]]
  BY DEF RecordTurn, Raise, Die
<1>2. summaries' = summaries /\ promoted' = promoted
  BY DEF RecordTurn, Raise, Die, storeVars, windowVars
<1>3. job'[p].at = to /\ job'[p].evicted = {}
  BY <1>1, ResetBatch
<1>4. BatchInv(p)' /\ GoalInv(p)'
  BY <1>3 DEF BatchInv, GoalInv, Waiting, Settling
<1>5. PromotedIsFolded'
  BY <1>2 DEF SummaryInv, PromotedIsFolded, SessionOf, Told
<1>6. QED
  BY <1>2, <1>4, <1>5, QuietStep

\* The row that is written becomes its session's newest, above all it replaces.
LEMMA WritingFacts ==
    ASSUME SummaryInv, JobShape, NEW p \in Processes, WriteSummary(p)
    PROVE  LET row == job[p].summary[1]
               n == Len(summaries) + 1
           IN /\ IsSummary(row) /\ row.run = p[1] /\ row.live /\ row.links = job[p].evicted
              /\ SummariesShape' /\ Grown /\ Len(summaries') = n /\ summaries'[n] = row
              /\ \A i \in 1..Len(summaries) : summaries'[i] = summaries[i]
              /\ \A t \in Turns :
                   IF ScopeOf[t].session = ScopeOf[p[1]].session
                   THEN NewestSummary(t)' = n
                   ELSE NewestSummary(t)' = NewestSummary(t)
<1> DEFINE row == job[p].summary[1]
           n == Len(summaries) + 1
<1>1. BatchInv(p) /\ SummariesShape
  BY DEF SummaryInv
<1>2. job[p].at = "writing" /\ summaries' = summaries \o job[p].summary
  BY DEF WriteSummary, Moves
<1>3. /\ job[p].summary = <<row>> /\ IsSummary(row)
      /\ row.run = p[1] /\ row.live /\ row.links = job[p].evicted
  BY <1>1, <1>2 DEF BatchInv
<1>4. summaries' = summaries \o <<row>>
  BY <1>2, <1>3
<1> HIDE DEF row
<1>5. /\ SummariesShape' /\ Grown /\ Len(summaries') = n /\ summaries'[n] = row
      /\ \A i \in 1..Len(summaries) : summaries'[i] = summaries[i]
  BY <1>1, <1>3, <1>4, WriteFacts
<1>6. /\ Len(summaries) \in Nat /\ n = Len(summaries) + 1
      /\ DOMAIN summaries = 1..Len(summaries) /\ DOMAIN summaries' = 1..n
  BY <1>1, <1>5, LenProperties DEF SummariesShape
<1> HIDE DEF n
<1>7. ASSUME NEW t \in Turns, ScopeOf[t].session = ScopeOf[p[1]].session
      PROVE  NewestSummary(t)' = n
  <2>1. n \in LiveSummaries(t)'
    BY <1>3, <1>5, <1>6, <1>7 DEF LiveSummaries
  <2>2. LiveSummaries(t)' \in SUBSET (1..n) /\ n \in Nat
    BY <1>6 DEF LiveSummaries
  <2>3. Max(LiveSummaries(t)') = n
    BY <2>1, <2>2, GreatestIs
  <2>4. QED
    BY <2>1, <2>3 DEF NewestSummary
<1>8. ASSUME NEW t \in Turns, ScopeOf[t].session # ScopeOf[p[1]].session
      PROVE  NewestSummary(t)' = NewestSummary(t)
  <2>1. LiveSummaries(t)' = LiveSummaries(t)
    BY <1>3, <1>5, <1>6, <1>8 DEF LiveSummaries
  <2>2. QED
    BY <2>1 DEF NewestSummary
<1>9. QED
  BY <1>3, <1>5, <1>6, <1>7, <1>8 DEF row, n

LEMMA WritingStep ==
    ASSUME SummaryInv, JobShape, NEW p \in Processes, Undisturbed(p), WriteSummary(p)
    PROVE  SummaryInv'
<1> DEFINE n == Len(summaries) + 1
           row == job[p].summary[1]
<1>1. BatchInv(p) /\ GoalInv(p) /\ SummariesShape /\ PromotedIsFolded /\ p[1] \in Turns
  BY DEF SummaryInv, Processes
<1>2. /\ Others(p) /\ job[p].at = "writing" /\ job'[p].at = "retiring" /\ SameBatch(p)
      /\ promoted' = promoted
  BY MovedBatch DEF WriteSummary, windowVars
<1>3. /\ row.run = p[1] /\ row.links = job[p].evicted
      /\ SummariesShape' /\ Grown /\ Len(summaries') = n /\ summaries'[n] = row
      /\ \A i \in 1..Len(summaries) : summaries'[i] = summaries[i]
      /\ NewestSummary(p[1])' = n
  BY <1>1, WritingFacts
<1>4. /\ Len(summaries) \in Nat /\ n = Len(summaries) + 1
      /\ DOMAIN summaries = 1..Len(summaries) /\ DOMAIN summaries' = 1..n
  BY <1>1, <1>3, LenProperties DEF SummariesShape
<1> HIDE DEF n, row
<1>5. BatchInv(p)'
  <2>1. n \in DOMAIN summaries' /\ summaries'[n].run = p[1] /\ summaries'[n].links = job[p].evicted
    BY <1>3, <1>4
  <2>2. QED
    BY <1>2, <2>1, <1>1 DEF BatchInv, SameBatch, Waiting, Settling, SessionOf
<1>6. GoalInv(p)'
  <2>1. ~overlapped' => job'[p].replaces = LiveSummaries(p[1])
    BY <1>1, <1>2 DEF GoalInv, SameBatch, Undisturbed
  <2>2. \A i \in LiveSummaries(p[1]) :
          i < n /\ SessionOf(summaries'[i].run) = SessionOf(p[1])
    BY <1>3, <1>4 DEF LiveSummaries, SessionOf
  <2>3. QED
    BY <1>2, <1>3, <2>1, <2>2 DEF GoalInv, Waiting, SessionOf
<1>7. \A q \in Processes : q # p => BatchInv(q)' /\ GoalInv(q)'
  BY <1>1, <1>3, OthersStand DEF SummaryInv
<1>8. PromotedIsFolded'
  BY <1>1, <1>2, <1>3, PromotedStand
<1>9. QED
  BY <1>3, <1>5, <1>6, <1>7, <1>8 DEF SummaryInv

\* The rows that are retired are all older than their session's newest.
LEMMA RetiringFacts ==
    ASSUME SummaryInv, JobShape, NEW p \in Processes, Retire(p)
    PROVE  /\ SummariesShape' /\ Grown
           /\ ~overlapped => \A t \in Turns : NewestSummary(t)' = NewestSummary(t)
<1>1. /\ GoalInv(p) /\ SummariesShape /\ p[1] \in Turns
      /\ \A i \in DOMAIN summaries : summaries[i].run \in Turns
  BY DEF SummaryInv, Processes, SummariesShape, IsSummary
<1>2. PICK gone : gone = job[p].replaces
  OBVIOUS
<1>3. /\ job[p].at = "retiring"
      /\ summaries' = [i \in DOMAIN summaries |->
                         [summaries[i] EXCEPT !.live = @ /\ i \notin gone]]
  BY <1>2 DEF Retire
<1>4. /\ SummariesShape' /\ Grown
      /\ Len(summaries') = Len(summaries) /\ DOMAIN summaries' = DOMAIN summaries
      /\ \A i \in DOMAIN summaries :
            summaries'[i].live <=> summaries[i].live /\ i \notin gone
  BY <1>1, <1>3, RetireFacts
<1>5. ASSUME ~overlapped, NEW t \in Turns
      PROVE  NewestSummary(t)' = NewestSummary(t)
  <2>1. \A i \in gone : i < NewestSummary(p[1]) /\ SessionOf(summaries[i].run) = SessionOf(p[1])
    BY <1>1, <1>2, <1>3, <1>5 DEF GoalInv
  <2>2. LiveSummaries(t)' = LiveSummaries(t) \ gone
    BY <1>4 DEF LiveSummaries, Grown, SameSummary
  <2>3. CASE ScopeOf[t].session = ScopeOf[p[1]].session /\ LiveSummaries(t) # {}
    <3> DEFINE n == NewestSummary(t)
    <3>1. n = NewestSummary(p[1])
      BY <1>1, <2>3, NewestOfSession
    <3>2. n \in LiveSummaries(t) /\ n \in Nat /\ \A i \in LiveSummaries(t) : i <= n
      BY <1>1, <2>3, NewestFacts
    <3>3. LiveSummaries(t) \subseteq Nat \ {0}
      BY <1>1, NewestFacts
    <3> HIDE DEF n
    <3>4. n \in LiveSummaries(t)' /\ LiveSummaries(t)' \in SUBSET (1..n)
      BY <2>1, <2>2, <3>1, <3>2, <3>3
    <3>5. Max(LiveSummaries(t)') = n
      BY <3>2, <3>4, GreatestIs
    <3>6. QED
      BY <3>4, <3>5 DEF NewestSummary, n
  <2>4. CASE ScopeOf[t].session # ScopeOf[p[1]].session \/ LiveSummaries(t) = {}
    <3>1. ASSUME NEW i \in gone, i \in LiveSummaries(t), LiveSummaries(t) # {} PROVE FALSE
      <4>1. /\ ScopeOf[summaries[i].run].session = ScopeOf[t].session
            /\ summaries[i].run \in Turns
        BY <1>1, <3>1 DEF LiveSummaries
      <4>2. summaries[i].run \in SessionOf(p[1])
        BY <2>1, <4>1 DEF SessionOf
      <4>3. QED
        BY <2>4, <3>1, <4>1, <4>2 DEF SessionOf
    <3>2. LiveSummaries(t)' = LiveSummaries(t)
      BY <2>2, <3>1
    <3>3. QED
      BY <3>2 DEF NewestSummary
  <2>5. QED
    BY <2>3, <2>4
<1>6. QED
  BY <1>4, <1>5

LEMMA RetiringStep ==
    ASSUME SummaryInv, JobShape, NEW p \in Processes, Undisturbed(p), Retire(p)
    PROVE  SummaryInv'
<1>1. BatchInv(p) /\ GoalInv(p) /\ SummariesShape /\ PromotedIsFolded
  BY DEF SummaryInv
<1>2. SummariesShape' /\ Grown /\ promoted' = promoted
  <2>1. SummariesShape' /\ Grown
    BY RetiringFacts
  <2>2. promoted' = promoted
    BY DEF Retire, windowVars
  <2>3. QED
    BY <2>1, <2>2
<1>3. /\ job[p].at = "retiring" /\ job'[p].at = "unindexing"
      /\ job'[p].evicted = job[p].evicted
  BY RetireBatch
<1>4. BatchInv(p)'
  <2>1. \A i \in DOMAIN summaries : i \in DOMAIN summaries'
          /\ summaries'[i].run = summaries[i].run /\ summaries'[i].links = summaries[i].links
    BY <1>1, <1>2 DEF Grown, SameSummary, SummariesShape
  <2>2. /\ Told(p[1]) \subseteq Told(p[1])'
        /\ \A i \in Told(p[1]) : summaries'[i].text = summaries[i].text
    BY <1>1, <1>2, ToldGrows
  <2>3. QED
    BY <1>1, <1>3, <2>1, <2>2 DEF BatchInv, Waiting, Settling, SessionOf
<1>5. GoalInv(p)'
  BY <1>3 DEF GoalInv, Waiting
<1>6. \A q \in Processes : q # p => BatchInv(q)' /\ GoalInv(q)'
  BY <1>1, <1>2, OthersStand DEF SummaryInv
<1>7. PromotedIsFolded'
  BY <1>1, <1>2, PromotedStand
<1>8. QED
  BY <1>2, <1>4, <1>5, <1>6, <1>7 DEF SummaryInv

\* A step is one process's: it leaves the jobs of the others, and starts beside
\* another only by having overlapped.
LEMMA StepsAreUndisturbed ==
    ASSUME RecordsInv, NEW p \in Processes, Others(p),
           \/ p \in Active /\ overlapped' = overlapped
           \/ \E to \in {"ended", "paused"} : Starts(p, to)
    PROVE  Undisturbed(p)
<1>1. CASE p \in Active /\ overlapped' = overlapped
  BY <1>1 DEF Undisturbed, RecordsInv, AloneInv, Active
<1>2. CASE \E to \in {"ended", "paused"} : Starts(p, to)
  <2>1. overlapped' = (overlapped \/ Active # {})
    BY <1>2 DEF Starts
  <2>2. QED
    BY <2>1 DEF Undisturbed, Active
<1>3. QED
  BY <1>1, <1>2

\* Whatever fails, a batch that is marked was folded, and as long as nothing
\* overlaps the summary a process reads is the one it replaces.
THEOREM SummaryInvariant == Spec => []SummaryInv
<1>1. Init => SummaryInv
  <2> SUFFICES ASSUME Init PROVE SummaryInv
    OBVIOUS
  <2>1. summaries = <<>> /\ promoted = [t \in Turns |-> 0]
        /\ \A p \in Processes : job[p] = Idle
    BY DEF Init
  <2>2. SummariesShape
    <3>1. summaries \in Seq(ToSet(summaries)) /\ DOMAIN summaries = {}
      BY <2>1
    <3>2. QED
      BY <3>1 DEF SummariesShape
  <2>3. PromotedIsFolded
    BY <2>1 DEF PromotedIsFolded
  <2>4. ASSUME NEW p \in Processes PROVE BatchInv(p) /\ GoalInv(p)
    <3>1. job[p].at = "idle" /\ job[p].evicted = {} /\ job[p].replaces = {}
      BY <2>1 DEF Idle
    <3>2. QED
      BY <3>1 DEF BatchInv, GoalInv, Waiting, Settling
  <2>5. QED
    BY <2>2, <2>3, <2>4 DEF SummaryInv
<1>2. SummaryInv /\ RecordsInv /\ [Next]_vars => SummaryInv'
  <2> SUFFICES ASSUME SummaryInv, RecordsInv, [Next]_vars PROVE SummaryInv'
    OBVIOUS
  <2>1. JobShape
    BY DEF RecordsInv
  <2>2. ASSUME NEW t \in Turns, Handle(t) \/ Resume(t) PROVE SummaryInv'
    <3>1. PICK p \in Processes, to \in {"ended", "paused"} : Starts(p, to)
      BY <2>2 DEF Handle, Resume, Processes
    <3>2. /\ Moves(p, "idle", to) /\ summaries' = summaries /\ promoted' = promoted
      BY <3>1 DEF Starts, storeVars, windowVars
    <3>3. Others(p) /\ job[p].at = "idle" /\ job'[p].at = to /\ SameBatch(p)
      BY <2>1, <3>2, MovedBatch
    <3>4. Undisturbed(p)
      BY <3>1, <3>3, StepsAreUndisturbed
    <3>5. QED
      BY <3>2, <3>3, <3>4, MovingStep DEF Waiting
  <2>3. ASSUME NEW t \in Turns, FilePause(t) PROVE SummaryInv'
    <3> DEFINE p == <<t, 1>>
    <3>1. p \in Processes /\ Moves(p, "paused", "recording")
      BY <2>3 DEF FilePause, Processes
    <3>2. summaries' = summaries /\ promoted' = promoted /\ overlapped' = overlapped
      BY <2>3 DEF FilePause, storeVars, history
    <3> HIDE DEF p
    <3>3. Others(p) /\ job[p].at = "paused" /\ job'[p].at = "recording" /\ SameBatch(p)
      BY <2>1, <3>1, MovedBatch
    <3>4. Undisturbed(p)
      BY <3>1, <3>2, <3>3, StepsAreUndisturbed DEF Active, Resting
    <3>5. QED
      BY <3>1, <3>2, <3>3, <3>4, MovingStep
  <2>4. ASSUME NEW p \in Processes, ReadExisting(p) \/ Judge(p) PROVE SummaryInv'
    <3>1. summaries' = summaries /\ promoted' = promoted /\ overlapped' = overlapped
      <4>1. CASE ReadExisting(p)
        BY <4>1 DEF ReadExisting, storeVars, windowVars, history
      <4>2. CASE Judge(p)
        BY <4>2, Zenon DEF Judge, windowVars
      <4>3. QED
        BY <2>4, <4>1, <4>2
    <3>2. Others(p) /\ job[p].at \in {"evicted", "judging"} /\ SameBatch(p)
          /\ job'[p].at \in {"judging", "promoting"}
      BY <2>1, <2>4, ReadExistingBatch, JudgeBatch
    <3>3. Undisturbed(p)
      BY <3>1, <3>2, StepsAreUndisturbed DEF Active, Resting
    <3>4. QED
      BY <3>1, <3>2, <3>3, MovingStep
  <2>5. ASSUME NEW p \in Processes, RetirePoints(p) \/ IndexWritten(p) PROVE SummaryInv'
    <3>1. summaries' = summaries /\ promoted' = promoted /\ overlapped' = overlapped
      BY <2>5 DEF RetirePoints, IndexWritten, windowVars, Calm, Failing, history
    <3>2. Moves(p, "unindexing", "indexing") \/ Moves(p, "indexing", "marking")
      BY <2>5 DEF RetirePoints, IndexWritten
    <3>3. Others(p) /\ job[p].at \in {"unindexing", "indexing"} /\ SameBatch(p)
          /\ job'[p].at \in Settling
      BY <2>1, <3>2, MovedBatch DEF Settling
    <3>4. Undisturbed(p)
      BY <3>1, <3>3, StepsAreUndisturbed DEF Active, Resting
    <3>5. QED
      BY <3>1, <3>3, <3>4, MovingStep
  <2>6. ASSUME NEW p \in Processes,
               \/ ReadEvicted(p) \/ ReadPrevious(p) \/ Fold(p) \/ WriteSummary(p)
               \/ Retire(p) \/ MarkPromoted(p) \/ RecordTurn(p) \/ Raise(p) \/ Die(p)
        PROVE  SummaryInv'
    <3>1. overlapped' = overlapped
      <4>1. CASE ReadEvicted(p) \/ ReadPrevious(p) \/ WriteSummary(p) \/ Retire(p)
        BY <4>1 DEF ReadEvicted, ReadPrevious, WriteSummary, Retire, Calm, Failing, history
      <4>2. CASE MarkPromoted(p) \/ RecordTurn(p) \/ Raise(p) \/ Die(p)
        BY <4>2 DEF MarkPromoted, RecordTurn, Raise, Die, Calm, Failing, history
      <4>3. QED
        BY <2>6, <4>1, <4>2, FoldIs
    <3>2. p \in Active
      <4>1. CASE ReadEvicted(p) \/ ReadPrevious(p) \/ WriteSummary(p) \/ Retire(p)
        BY <4>1 DEF ReadEvicted, ReadPrevious, WriteSummary, Moves, Retire, Active, Resting
      <4>2. CASE MarkPromoted(p) \/ RecordTurn(p) \/ Raise(p) \/ Die(p)
        BY <4>2 DEF MarkPromoted, RecordTurn, Raise, Die, Active, Resting, Consolidating
      <4>3. CASE Fold(p)
        BY <4>3, FoldIs DEF Active, Resting
      <4>4. QED
        BY <2>6, <4>1, <4>2, <4>3
    <3>3. CASE RecordTurn(p) \/ Raise(p) \/ Die(p) \/ MarkPromoted(p)
      <4>1. \E to : job' = [job EXCEPT ![p] = [Idle EXCEPT !.at = to]]
        BY <3>3 DEF RecordTurn, Raise, Die, MarkPromoted
      <4>2. Undisturbed(p)
        BY <2>1, <3>1, <3>2, <4>1, ResetBatch, StepsAreUndisturbed
      <4>3. QED
        BY <2>1, <3>3, <4>2, LeavingStep, MarkingStep
    <3>4. CASE WriteSummary(p)
      <4>1. Moves(p, "writing", "retiring")
        BY <3>4 DEF WriteSummary
      <4>2. Undisturbed(p)
        BY <2>1, <3>1, <3>2, <4>1, MovedBatch, StepsAreUndisturbed
      <4>3. QED
        BY <2>1, <3>4, <4>2, WritingStep
    <3>5. CASE ReadEvicted(p)
      BY <2>1, <3>1, <3>2, <3>5, EvictedBatch, StepsAreUndisturbed, EvictedStep
    <3>6. CASE ReadPrevious(p)
      BY <2>1, <3>1, <3>2, <3>6, PreviousBatch, StepsAreUndisturbed, PreviousStep
    <3>7. CASE Fold(p)
      BY <2>1, <3>1, <3>2, <3>7, FoldShape, StepsAreUndisturbed, FoldStep
    <3>8. CASE Retire(p)
      BY <2>1, <3>1, <3>2, <3>8, RetireBatch, StepsAreUndisturbed, RetiringStep
    <3>9. QED
      BY <2>6, <3>3, <3>4, <3>5, <3>6, <3>7, <3>8
  <2>7. CASE UNCHANGED vars
    <3>1. /\ summaries' = summaries /\ promoted' = promoted /\ job' = job
          /\ overlapped' = overlapped
      BY <2>7 DEF vars, storeVars, windowVars, history
    <3>2. SummariesShape' /\ PromotedIsFolded'
      BY <3>1 DEF SummaryInv, SummariesShape, IsSummary, PromotedIsFolded, Told
    <3>3. ASSUME NEW p \in Processes PROVE BatchInv(p)' /\ GoalInv(p)'
      <4>1. BatchInv(p) /\ GoalInv(p)
        BY DEF SummaryInv
      <4>2. BatchInv(p)'
        BY <3>1, <4>1 DEF BatchInv, IsSummary, Told
      <4>3. GoalInv(p)'
        BY <3>1, <4>1 DEF GoalInv, NewestSummary, LiveSummaries
      <4>4. QED
        BY <4>2, <4>3
    <3>4. QED
      BY <3>2, <3>3 DEF SummaryInv
  <2>8. QED
    BY <2>2, <2>3, <2>4, <2>5, <2>6, <2>7 DEF Next, Consolidate
<1>3. QED
  BY <1>1, <1>2, RecordsInvariant, PTL DEF Spec

\* No turn is marked as promoted by a run that folded it nowhere, unless that
\* run's goal could be one no summary may quote: its proposer's, the carried one
\* as it was read back, or the request of a promoted turn as old.
THEOREM PromotedFolded == Spec => []PromotedIsFolded
<1>1. SummaryInv => PromotedIsFolded
  BY DEF SummaryInv
<1>2. QED
  BY <1>1, SummaryInvariant, PTL

\* A goal that reads back as it was written is changed by a proposer that names
\* another, and by nothing else, as long as no two consolidations overlap.
THEOREM GoalKept == Spec => GoalStands
<1> DEFINE Stands(t) ==
             NewestSummary(t) # 0 /\ ~overlapped =>
                Keeps(summaries[NewestSummary(t)], summaries'[NewestSummary(t)'])
<1>1. SummaryInv /\ RecordsInv /\ [Next]_vars => [\A t \in Turns : Stands(t)]_vars
  <2> SUFFICES ASSUME SummaryInv, RecordsInv, Next, NEW t \in Turns,
                      NewestSummary(t) # 0, ~overlapped
               PROVE  Keeps(summaries[NewestSummary(t)], summaries'[NewestSummary(t)'])
    OBVIOUS
  <2>1. JobShape
    BY DEF RecordsInv
  <2>2. SummariesShape /\ NewestSummary(t) \in DOMAIN summaries
    BY NewestFacts DEF SummaryInv, LiveSummaries
  <2>3. ASSUME NEW p \in Processes, WriteSummary(p)
        PROVE  Keeps(summaries[NewestSummary(t)], summaries'[NewestSummary(t)'])
    <3> DEFINE row == job[p].summary[1]
               n == Len(summaries) + 1
    <3>1. /\ \A i \in 1..Len(summaries) : summaries'[i] = summaries[i]
          /\ summaries'[n] = row
          /\ IF ScopeOf[t].session = ScopeOf[p[1]].session
             THEN NewestSummary(t)' = n ELSE NewestSummary(t)' = NewestSummary(t)
      BY <2>1, <2>3, WritingFacts
    <3>2. CASE ScopeOf[t].session = ScopeOf[p[1]].session
      <4>1. NewestSummary(t) = NewestSummary(p[1])
        BY <3>2, NewestOfSession DEF Processes
      <4>2. Keeps(summaries[NewestSummary(p[1])], row)
        BY <2>3, <4>1 DEF SummaryInv, GoalInv, WriteSummary, Moves
      <4>3. QED
        BY <3>1, <3>2, <4>1, <4>2
    <3>3. CASE ScopeOf[t].session # ScopeOf[p[1]].session
      <4>1. DOMAIN summaries = 1..Len(summaries)
        BY <2>2, LenProperties DEF SummariesShape
      <4>2. QED
        BY <2>2, <3>1, <3>3, <4>1 DEF Keeps
    <3>4. QED
      BY <3>2, <3>3
  <2>4. ASSUME NEW p \in Processes, Retire(p)
        PROVE  Keeps(summaries[NewestSummary(t)], summaries'[NewestSummary(t)'])
    BY <2>1, <2>2, <2>4, RetiringFacts DEF Keeps, Grown, SameSummary
  <2>5. CASE summaries' = summaries
    BY <2>5 DEF Keeps, NewestSummary, LiveSummaries
  <2>6. summaries' = summaries \/ \E p \in Processes : WriteSummary(p) \/ Retire(p)
    BY SummarySteps
  <2>7. QED
    BY <2>3, <2>4, <2>5, <2>6
<1>2. QED
  BY <1>1, SummaryInvariant, RecordsInvariant, PTL DEF Spec, GoalStands

-----------------------------------------------------------------------------
(***************************************************************************)
(* The window.  A turn that takes its place moves out the one turn that    *)
(* was the last to be shown, and no other.                                 *)
(***************************************************************************)
Above(u, S) == {v \in S : v > u}

LEMMA AboveFacts ==
    ASSUME NEW S \in SUBSET Nat, IsFiniteSet(S), NEW u \in Nat
    PROVE  /\ IsFiniteSet(Above(u, S)) /\ Cardinality(Above(u, S)) \in Nat
           /\ \A w \in S : u < w => Cardinality(Above(w, S)) < Cardinality(Above(u, S))
<1>1. \A w : IsFiniteSet(Above(w, S)) /\ Cardinality(Above(w, S)) \in Nat
  BY FS_Subset, FS_CardinalityType DEF Above
<1>2. ASSUME NEW w \in S, u < w
      PROVE  Cardinality(Above(w, S)) < Cardinality(Above(u, S))
  <2>1. w \notin Above(w, S)
    BY DEF Above
  <2>2. Above(w, S) \cup {w} \subseteq Above(u, S)
    <3>1. \A v \in S : v > w => v > u
      BY <1>2
    <3>2. w > u
      BY <1>2
    <3>3. QED
      BY <3>1, <3>2 DEF Above
  <2>3. /\ IsFiniteSet(Above(w, S) \cup {w})
        /\ Cardinality(Above(w, S) \cup {w}) = Cardinality(Above(w, S)) + 1
    BY <1>1, <2>1, FS_AddElement
  <2>4. Cardinality(Above(w, S) \cup {w}) <= Cardinality(Above(u, S))
    BY <1>1, <2>2, FS_Subset
  <2>5. QED
    BY <1>1, <2>3, <2>4
<1>3. QED
  BY <1>1, <1>2

LEMMA OneDropsOut ==
    ASSUME NEW n \in Nat \ {0}, NEW S \in SUBSET Nat, IsFiniteSet(S),
           NEW u \in Newest(n, S) \ Newest(n - 1, S), NEW w \in Newest(n, S) \ Newest(n - 1, S)
    PROVE  u = w
<1>1. /\ u \in S /\ Cardinality(Above(u, S)) < n /\ ~(Cardinality(Above(u, S)) < n - 1)
      /\ w \in S /\ Cardinality(Above(w, S)) < n /\ ~(Cardinality(Above(w, S)) < n - 1)
  BY DEF Newest, Above
<1>2. /\ Cardinality(Above(u, S)) \in Nat /\ Cardinality(Above(w, S)) \in Nat
      /\ u < w => Cardinality(Above(w, S)) < Cardinality(Above(u, S))
      /\ w < u => Cardinality(Above(u, S)) < Cardinality(Above(w, S))
  BY <1>1, AboveFacts
<1> DEFINE a == Cardinality(Above(u, S))
           b == Cardinality(Above(w, S))
<1> HIDE DEF a, b
<1>3. a \in Nat /\ b \in Nat /\ a < n /\ b < n /\ ~(a < n - 1) /\ ~(b < n - 1)
  BY <1>1, <1>2 DEF a, b
<1>4. ~(u < w) /\ ~(w < u)
  BY <1>2, <1>3 DEF a, b
<1>5. QED
  BY <1>1, <1>4

LEMMA OldestOfOne ==
    ASSUME NEW n \in Nat \ {0}, NEW S \in SUBSET Nat, \A u, w \in S : u = w
    PROVE  Oldest(n, S) = S
<1>1. ASSUME NEW u \in S PROVE Cardinality({v \in S : v < u}) < n
  <2>1. u \in Nat /\ \A v \in S : ~(v < u)
    OBVIOUS
  <2>2. {v \in S : v < u} = {}
    BY <2>1
  <2>3. QED
    BY <2>2, FS_EmptySet
<1>2. QED
  BY <1>1 DEF Oldest

LEMMA NewestTakesOne ==
    ASSUME NEW n \in Nat \ {0}, NEW S \in SUBSET Nat, IsFiniteSet(S),
           NEW t \in Nat, \A u \in S : u < t
    PROVE  Newest(n - 1, S) \cup {t} \subseteq Newest(n, S \cup {t})
<1>1. ASSUME NEW u \in Newest(n - 1, S) PROVE u \in Newest(n, S \cup {t})
  <2>1. u \in S /\ Cardinality(Above(u, S)) < n - 1
    BY DEF Newest, Above
  <2>2. Above(u, S \cup {t}) = Above(u, S) \cup {t} /\ t \notin Above(u, S)
    BY <2>1 DEF Above
  <2>3. /\ Cardinality(Above(u, S)) \in Nat
        /\ Cardinality(Above(u, S \cup {t})) = Cardinality(Above(u, S)) + 1
    BY <2>1, <2>2, AboveFacts, FS_AddElement
  <2>4. Cardinality(Above(u, S \cup {t})) < n
    BY <2>1, <2>3
  <2>5. QED
    BY <2>1, <2>4 DEF Newest, Above
<1>2. t \in Newest(n, S \cup {t})
  <2> DEFINE later == {v \in S \cup {t} : v > t}
  <2>1. later = {}
    <3>1. \A v \in S \cup {t} : ~(v > t)
      OBVIOUS
    <3>2. QED
      BY <3>1
  <2>2. Cardinality({v \in S \cup {t} : v > t}) < n
    BY <2>1, FS_EmptySet
  <2>3. QED
    BY <2>2 DEF Newest
<1>3. QED
  BY <1>1, <1>2

(***************************************************************************)
(* The steps of an untroubled project.                                     *)
(***************************************************************************)
Clean == Untroubled /\ filed = {}

LEMMA CleanBefore ==
    ASSUME RecordsInv, [Next]_vars, Clean'
    PROVE  Clean /\ failures' = failures
<1>1. /\ overlapped' \in {overlapped, overlapped \/ Active # {}}
      /\ failures' \in {failures, failures + 1}
      /\ filed \subseteq filed'
  <2>1. ASSUME NEW t \in Turns, Handle(t) \/ Resume(t) \/ FilePause(t)
        PROVE  /\ overlapped' \in {overlapped, overlapped \/ Active # {}}
               /\ failures' \in {failures, failures + 1} /\ filed \subseteq filed'
    BY <2>1 DEF Handle, Resume, FilePause, Starts, windowVars, history
  <2>2. ASSUME NEW p \in Processes, Consolidate(p) \/ RecordTurn(p) \/ Raise(p) \/ Die(p)
        PROVE  /\ overlapped' = overlapped /\ filed' = filed
               /\ failures' \in {failures, failures + 1}
    BY <2>2 DEF Consolidate, RecordTurn, Raise, Die, ReadEvicted, ReadExisting, Judge,
                ReadPrevious, Fold, WriteSummary, Retire, RetirePoints, IndexWritten,
                MarkPromoted, windowVars, history, Calm, Failing
  <2>3. CASE UNCHANGED vars
    BY <2>3 DEF vars, windowVars, history
  <2>4. QED
    BY <2>1, <2>2, <2>3 DEF Next
<1>2. failures \in Nat /\ overlapped \in BOOLEAN
  BY DEF RecordsInv
<1>3. QED
  BY <1>1, <1>2 DEF Clean, Untroubled

LEMMA RowsFacts ==
    ASSUME WindowInv, NEW t \in Turns
    PROVE  /\ Rows(table, SessionOf(t)) \in SUBSET Nat
           /\ IsFiniteSet(Rows(table, SessionOf(t)))
<1>1. Rows(table, SessionOf(t)) \subseteq Recorded /\ IsFiniteSet(Recorded)
  BY DEF WindowInv, Rows, SessionOf, Recorded
<1>2. Recorded \subseteq Nat
  BY SizesOf DEF Recorded
<1>3. QED
  BY <1>1, <1>2, FS_Subset

\* A step that records nothing and takes no mark back.
LEMMA CleanStep ==
    ASSUME WindowInv, RecordsInv, Clean, NEW p \in Processes, Undisturbed(p), ~overlapped',
           job[p].at \notin Resting, job'[p].at \notin Resting,
           table' = table, \A u \in Turns : promoted'[u] = 0 => promoted[u] = 0, GapInv(p)'
    PROVE  WindowInv'
<1>1. /\ DOMAIN table = Turns /\ IsFiniteSet(Recorded) /\ OneAfterTheOther
      /\ CleanTurnsCloseTheGap
  BY DEF WindowInv, Clean
<1>2. \A q \in Processes : q # p => job'[q] = job[q] /\ job[q].at \in Resting
  BY DEF Undisturbed, Others
<1>3. DOMAIN table' = Turns /\ IsFiniteSet(Recorded)'
  BY <1>1 DEF Recorded
<1>4. OneAfterTheOther'
  <2>1. \A q \in Processes : job'[q].at # "dead" /\ (q[2] = 2 => job'[q].at = "idle")
    BY <1>1, <1>2 DEF OneAfterTheOther, Resting
  <2>2. \A q \in Processes : job'[q].at = "idle" <=> job[q].at = "idle"
    BY <1>2 DEF Resting
  <2>3. \A q \in Processes : job'[q].at = "done" <=> job[q].at = "done"
    BY <1>2 DEF Resting
  <2>4. \A t \in Turns : <<t, 1>> \in Processes
    BY DEF Processes
  <2>5. \A t \in Turns : table'[t] = IF job'[<<t, 1>>].at = "done" THEN "settled" ELSE "absent"
    BY <1>1, <2>3, <2>4 DEF OneAfterTheOther
  <2>6. \A t, u \in Turns : t < u /\ job'[<<u, 1>>].at # "idle" => job'[<<t, 1>>].at = "done"
    BY <1>1, <2>2, <2>3, <2>4 DEF OneAfterTheOther
  <2>7. QED
    BY <2>1, <2>5, <2>6 DEF OneAfterTheOther
<1>5. \A q \in Processes : GapInv(q)'
  <2>1. ASSUME NEW q \in Processes, q # p PROVE GapInv(q)'
    BY <1>2, <2>1 DEF GapInv, Resting, Carrying, Working, Settling
  <2>2. QED
    BY <2>1
<1>6. CleanTurnsCloseTheGap'
  <2>1. \A t \in Turns : Unfolded(t)' \subseteq Unfolded(t)
    BY DEF Unfolded, Rows, SessionOf
  <2>2. \A t \in Turns :
          Recent(table', SessionOf(t), TurnLimit) = Recent(table, SessionOf(t), TurnLimit)
    OBVIOUS
  <2>3. QED
    BY <1>1, <2>1, <2>2 DEF CleanTurnsCloseTheGap, Clean, Untroubled, SessionOf
<1>7. QED
  BY <1>3, <1>4, <1>5, <1>6 DEF WindowInv

\* A process that goes on carries its batch with it.
LEMMA CarryingGap ==
    ASSUME WindowInv, Clean, NEW p \in Processes, table' = table, promoted' = promoted,
           job[p].at \in Carrying, job'[p].at \in Carrying,
           job'[p].evicted = job[p].evicted
    PROVE  GapInv(p)'
<1>1. GapInv(p)
  BY DEF WindowInv, Clean
<1>2. QED
  BY <1>1 DEF GapInv, Unfolded, Rows, Recent, SessionOf, Carrying, Working, Settling

\* The eviction that is read is the one turn of the session that will drop out.
LEMMA EvictedGap ==
    ASSUME WindowInv, RecordsInv, Clean, NEW p \in Processes, ReadEvicted(p),
           failures' = failures
    PROVE  GapInv(p)'
<1> DEFINE R == Rows(table, SessionOf(p[1]))
           kept == Newest(RoomLeft, R)
           X == {u \in R \ kept : table[u] = "settled" /\ promoted[u] = 0}
<1>1. p[1] \in Turns /\ RoomLeft = TurnLimit - 1 /\ TurnLimit \in Nat \ {0}
      /\ Batch \in Nat \ {0}
  BY SizesOf DEF Processes, RoomLeft
<1>2. /\ OneAfterTheOther /\ CleanTurnsCloseTheGap /\ R \in SUBSET Nat /\ IsFiniteSet(R)
      /\ JobShape /\ failures \in Nat
  BY <1>1, RowsFacts DEF WindowInv, Clean, RecordsInv
<1>3. Unfolded(p[1]) \subseteq X \cup kept
  BY <1>1, <1>2 DEF OneAfterTheOther, Unfolded, Rows, SessionOf
<1>4. X \subseteq Newest(TurnLimit, R) \ Newest(TurnLimit - 1, R)
  BY <1>1, <1>2 DEF CleanTurnsCloseTheGap, Clean, Unfolded, Recent
<1>5. X \in SUBSET Nat /\ \A u, w \in X : u = w
  BY <1>1, <1>2, <1>4, OneDropsOut
<1>6. Evicted(table, {u \in Turns : promoted[u] # 0}, SessionOf(p[1]), RoomLeft, Batch) = X
  <2>1. X = {u \in R \ kept : table[u] = "settled" /\ u \notin {v \in Turns : promoted[v] # 0}}
    BY DEF Rows, SessionOf
  <2>2. Oldest(Batch, X) = X
    BY <1>1, <1>5, OldestOfOne
  <2>3. QED
    BY <2>1, <2>2 DEF Evicted
<1>7. ~Failing
  BY <1>2 DEF Failing
<1>8. job'[p].evicted = X /\ job'[p].at = "evicted"
  <2> DEFINE found == Evicted(table, {u \in Turns : promoted[u] # 0}, SessionOf(p[1]),
                              RoomLeft, Batch)
  <2>1. job' = [job EXCEPT ![p].at = "evicted", ![p].evicted = found]
    BY <1>7, Zenon DEF ReadEvicted
  <2>2. found = X
    BY <1>6
  <2> HIDE DEF found, X
  <2>3. QED
    BY <1>2, <2>1, <2>2 DEF JobShape, Fields, Idle
<1>9. table' = table /\ promoted' = promoted
  BY DEF ReadEvicted, windowVars
<1>10. Unfolded(p[1])' = Unfolded(p[1])
       /\ Recent(table', SessionOf(p[1]), RoomLeft) = kept
  BY <1>9 DEF Unfolded, Rows, Recent, SessionOf
<1> HIDE DEF X, kept, R
<1>11. QED
  BY <1>3, <1>8, <1>9, <1>10 DEF GapInv, SessionOf, Recent

LEMMA MarkingGap ==
    ASSUME WindowInv, RecordsInv, Clean, NEW p \in Processes, MarkPromoted(p),
           failures' = failures
    PROVE  GapInv(p)' /\ \A u \in Turns : promoted'[u] = 0 => promoted[u] = 0
<1>1. GapInv(p) /\ failures \in Nat /\ JobShape
  BY DEF WindowInv, Clean, RecordsInv
<1>2. p[1] \in Turns /\ p[1] # 0
  BY SizesOf DEF Processes
<1>3. ~Failing
  BY <1>1 DEF Failing
<1>4. /\ job[p].at = "marking" /\ job' = [job EXCEPT ![p] = [Idle EXCEPT !.at = "recording"]]
      /\ promoted' = [u \in Turns |-> IF u \in job[p].evicted /\ promoted[u] = 0
                                      THEN p[1] ELSE promoted[u]]
      /\ table' = table
  BY <1>3 DEF MarkPromoted
<1>5. job'[p].at = "recording"
  BY <1>1, <1>4, ResetBatch
<1>6. \A u \in Turns : promoted'[u] = 0 => promoted[u] = 0 /\ u \notin job[p].evicted
  BY <1>2, <1>4
<1>7. Unfolded(p[1]) \subseteq job[p].evicted \cup Recent(table, SessionOf(p[1]), RoomLeft)
  BY <1>1, <1>4 DEF GapInv, Carrying, Settling
<1>8. Unfolded(p[1])' \subseteq Unfolded(p[1]) \ job[p].evicted
  BY <1>4, <1>6 DEF Unfolded, Rows, SessionOf
<1>9. Unfolded(p[1])' \subseteq Recent(table', SessionOf(p[1]), RoomLeft)
  BY <1>4, <1>7, <1>8
<1>10. GapInv(p)'
  BY <1>5, <1>9 DEF GapInv, SessionOf, Carrying, Working, Settling
<1>11. QED
  BY <1>6, <1>10

\* The row of a turn is the newest of its session, and moves one out.
LEMMA RecordingStep ==
    ASSUME WindowInv, RecordsInv, Clean, NEW p \in Processes, Undisturbed(p), ~overlapped',
           RecordTurn(p), failures' = failures
    PROVE  WindowInv'
<1>1. /\ DOMAIN table = Turns /\ IsFiniteSet(Recorded) /\ OneAfterTheOther /\ GapInv(p)
      /\ CleanTurnsCloseTheGap /\ failures \in Nat /\ JobShape /\ filed = {}
  BY DEF WindowInv, Clean, RecordsInv
<1>2. PICK t \in Turns : p = <<t, 1>>
  <2>1. job[p].at # "idle"
    BY DEF RecordTurn
  <2>2. p[2] # 2
    BY <1>1, <2>1 DEF OneAfterTheOther
  <2>3. QED
    BY <2>2 DEF Processes
<1>3. ~Failing
  BY <1>1 DEF Failing
<1>4. /\ job[p].at = "recording" /\ job' = [job EXCEPT ![p] = [Idle EXCEPT !.at = "done"]]
      /\ table' = [table EXCEPT ![t] = "settled"] /\ promoted' = promoted
  BY <1>1, <1>2, <1>3 DEF RecordTurn, Outcome
<1>5. job'[p].at = "done" /\ \A q \in Processes : q # p => job'[q] = job[q]
  BY <1>1, <1>4, ResetBatch DEF Others
<1>6. \A q \in Processes : q # p => job[q].at \in Resting
  BY DEF Undisturbed
<1>7. \A u \in Turns : <<u, 1>> \in Processes /\ (<<u, 1>> = p <=> u = t)
  BY <1>2 DEF Processes
<1>8. DOMAIN table' = Turns /\ IsFiniteSet(Recorded)'
  <2>1. Recorded' = Recorded \cup {t}
    BY <1>1, <1>4 DEF Recorded
  <2>2. QED
    BY <1>1, <1>4, <2>1, FS_AddElement
<1>9. OneAfterTheOther'
  <2>1. \A q \in Processes : job'[q].at # "dead" /\ (q[2] = 2 => job'[q].at = "idle")
    BY <1>1, <1>2, <1>5 DEF OneAfterTheOther
  <2>2. \A u \in Turns : table'[u] = IF job'[<<u, 1>>].at = "done" THEN "settled" ELSE "absent"
    BY <1>1, <1>2, <1>4, <1>5, <1>7 DEF OneAfterTheOther
  <2>3. \A u, w \in Turns : u < w /\ job'[<<w, 1>>].at # "idle" => job'[<<u, 1>>].at = "done"
    BY <1>1, <1>2, <1>4, <1>5, <1>7 DEF OneAfterTheOther
  <2>4. QED
    BY <2>1, <2>2, <2>3 DEF OneAfterTheOther
<1>10. \A q \in Processes : GapInv(q)'
  BY <1>5, <1>6 DEF GapInv, Resting, Carrying, Working, Settling
<1>11. CleanTurnsCloseTheGap'
  <2> SUFFICES ASSUME NEW s \in Turns
               PROVE  Unfolded(s)' \subseteq Recent(table', SessionOf(s), TurnLimit)
    BY DEF CleanTurnsCloseTheGap, SessionOf
  <2>1. Unfolded(s) \subseteq Recent(table, SessionOf(s), TurnLimit)
    BY <1>1 DEF CleanTurnsCloseTheGap, Clean
  <2>2. CASE t \notin SessionOf(s)
    <3>1. Rows(table', SessionOf(s)) = Rows(table, SessionOf(s))
      BY <1>1, <1>4, <2>2 DEF Rows, SessionOf
    <3>2. QED
      BY <1>4, <2>1, <3>1 DEF Unfolded, Recent, SessionOf
  <2>3. CASE t \in SessionOf(s)
    <3> DEFINE R == Rows(table, SessionOf(t))
    <3>1. SessionOf(s) = SessionOf(t) /\ t \in SessionOf(t)
      BY <2>3 DEF SessionOf
    <3>2. Rows(table', SessionOf(t)) = R \cup {t}
      BY <1>1, <1>4, <3>1 DEF Rows, SessionOf
    <3>3. R \in SUBSET Nat /\ IsFiniteSet(R) /\ t \in Nat
      BY RowsFacts, SizesOf
    <3>4. \A u \in R : u < t
      <4>1. \A u \in R : u \in Turns /\ job[<<u, 1>>].at = "done"
        BY <1>1 DEF OneAfterTheOther, Rows, SessionOf
      <4>2. \A u \in R : ~(t < u)
        BY <1>1, <1>2, <1>4, <4>1 DEF OneAfterTheOther
      <4>3. \A u \in R : u # t
        BY <1>2, <1>4, <4>1
      <4>4. QED
        BY <3>3, <4>2, <4>3
    <3>5. Newest(TurnLimit - 1, R) \cup {t} \subseteq Newest(TurnLimit, R \cup {t})
      BY <3>3, <3>4, NewestTakesOne, SizesOf
    <3>6. Unfolded(t) \subseteq Newest(TurnLimit - 1, R)
      BY <1>1, <1>2, <1>4 DEF GapInv, Recent, RoomLeft
    <3>7. Unfolded(t)' \subseteq Unfolded(t) \cup {t}
      BY <1>1, <1>4 DEF Unfolded, Rows, SessionOf
    <3>8. Unfolded(s)' = Unfolded(t)'
      BY <3>1 DEF Unfolded, SessionOf
    <3> HIDE DEF R
    <3>9. QED
      BY <3>1, <3>2, <3>5, <3>6, <3>7, <3>8 DEF Recent
  <2>4. QED
    BY <2>2, <2>3
<1>12. QED
  BY <1>8, <1>9, <1>10, <1>11 DEF WindowInv

LEMMA StartingStep ==
    ASSUME WindowInv, RecordsInv, Clean, NEW t \in Turns, Handle(t), Clean'
    PROVE  WindowInv'
<1> DEFINE p == <<t, 1>>
<1>1. /\ DOMAIN table = Turns /\ IsFiniteSet(Recorded) /\ OneAfterTheOther
      /\ (\A q \in Processes : GapInv(q)) /\ CleanTurnsCloseTheGap /\ JobShape
  BY DEF WindowInv, Clean, RecordsInv
<1>2. p \in Processes /\ p[2] = 1
  BY DEF Processes
<1>3. PICK to \in {"ended", "paused"} : Starts(p, to)
  BY DEF Handle
<1>4. /\ Moves(p, "idle", to) /\ table' = table /\ promoted' = promoted
      /\ overlapped' = (overlapped \/ Active # {})
      /\ \A u \in Turns : u < t => job[<<u, 1>>].at # "idle"
  BY <1>3 DEF Starts, windowVars, Handle
<1>5. /\ job[p].at = "idle" /\ job'[p].at = to
      /\ \A q \in Processes : q # p => job'[q] = job[q]
  BY <1>1, <1>2, <1>4, MovedBatch DEF Others
<1>6. \A q \in Processes : job[q].at \in Resting
  BY <1>4 DEF Clean, Untroubled, Active
<1>7. \A u \in Turns : <<u, 1>> \in Processes /\ (<<u, 1>> = p <=> u = t)
  BY DEF Processes
<1>8. t \in Nat /\ Turns \subseteq Nat
  BY SizesOf
<1> HIDE DEF p
<1>9. \A u \in Turns : u < t => u # t /\ job[<<u, 1>>].at = "done"
  <2>1. \A q \in Processes : job[q].at # "dead"
    BY <1>1 DEF OneAfterTheOther
  <2>2. ASSUME NEW u \in Turns, u < t PROVE u # t /\ job[<<u, 1>>].at = "done"
    <3>1. job[<<u, 1>>].at \notin {"idle", "dead"} /\ job[<<u, 1>>].at \in Resting
      BY <1>4, <1>6, <1>7, <2>1, <2>2
    <3>2. u # t
      BY <1>8, <2>2
    <3>3. QED
      BY <3>1, <3>2 DEF Resting
  <2>3. QED
    BY <2>2
<1>10. OneAfterTheOther'
  <2>1. \A q \in Processes : job'[q].at # "dead" /\ (q[2] = 2 => job'[q].at = "idle")
    BY <1>1, <1>2, <1>5 DEF OneAfterTheOther
  <2>2. \A u \in Turns : table'[u] = IF job'[<<u, 1>>].at = "done" THEN "settled" ELSE "absent"
    BY <1>1, <1>4, <1>5, <1>7 DEF OneAfterTheOther
  <2>3. \A u, w \in Turns : u < w /\ job'[<<w, 1>>].at # "idle" => job'[<<u, 1>>].at = "done"
    <3> SUFFICES ASSUME NEW u \in Turns, NEW w \in Turns, u < w, job'[<<w, 1>>].at # "idle"
                 PROVE  job'[<<u, 1>>].at = "done"
      OBVIOUS
    <3>1. job[<<u, 1>>].at = "done"
      BY <1>1, <1>5, <1>7, <1>9 DEF OneAfterTheOther
    <3>2. u # t
      BY <1>5, <1>7, <3>1
    <3>3. QED
      BY <1>5, <1>7, <3>1, <3>2
  <2>4. QED
    BY <2>1, <2>2, <2>3 DEF OneAfterTheOther
<1>11. \A q \in Processes : GapInv(q)'
  BY <1>5, <1>6 DEF GapInv, Resting, Carrying, Working, Settling
<1>12. CleanTurnsCloseTheGap'
  BY <1>1, <1>4 DEF CleanTurnsCloseTheGap, Clean, Unfolded, Rows, Recent, SessionOf
<1>13. DOMAIN table' = Turns /\ IsFiniteSet(Recorded)'
  BY <1>1, <1>4 DEF Recorded
<1>14. QED
  BY <1>10, <1>11, <1>12, <1>13 DEF WindowInv

\* The turns of an untroubled project take their places in the window one by
\* one, each with the batch that makes room for it.
THEOREM WindowInvariant == Spec => []WindowInv
<1>1. Init => WindowInv
  <2> SUFFICES ASSUME Init PROVE WindowInv
    OBVIOUS
  <2>1. /\ table = [t \in Turns |-> "absent"]
        /\ \A p \in Processes : job[p] = Idle
    BY DEF Init
  <2>2. \A p \in Processes : job[p].at = "idle"
    BY <2>1 DEF Idle
  <2>3. Recorded = {}
    BY <2>1 DEF Recorded
  <2>4. OneAfterTheOther
    BY <2>1, <2>2 DEF OneAfterTheOther, Processes
  <2>5. \A p \in Processes : GapInv(p)
    BY <2>2 DEF GapInv, Carrying, Working, Settling
  <2>6. CleanTurnsCloseTheGap
    BY <2>1 DEF CleanTurnsCloseTheGap, Unfolded, Rows, SessionOf
  <2>7. QED
    BY <2>1, <2>3, <2>4, <2>5, <2>6, FS_EmptySet DEF WindowInv
<1>2. WindowInv /\ RecordsInv /\ [Next]_vars => WindowInv'
  <2> SUFFICES ASSUME WindowInv, RecordsInv, [Next]_vars PROVE WindowInv'
    OBVIOUS
  <2>1. DOMAIN table' = Turns /\ IsFiniteSet(Recorded)'
    <3>1. table' = table \/ \E p \in Processes : table' = [table EXCEPT ![p[1]] = Outcome(p)]
      BY TableSteps
    <3>2. CASE table' = table
      BY <3>2 DEF WindowInv, Recorded
    <3>3. ASSUME NEW p \in Processes, table' = [table EXCEPT ![p[1]] = Outcome(p)]
          PROVE  DOMAIN table' = Turns /\ IsFiniteSet(Recorded)'
      <4>1. p[1] \in Turns /\ Outcome(p) # "absent"
        BY DEF Processes, Outcome
      <4>2. Recorded' = Recorded \cup {p[1]} /\ DOMAIN table' = Turns
        BY <3>3, <4>1 DEF WindowInv, Recorded
      <4>3. QED
        BY <4>2, FS_AddElement DEF WindowInv
    <3>4. QED
      BY <3>1, <3>2, <3>3
  <2>2. CASE ~Clean'
    BY <2>1, <2>2 DEF WindowInv, Clean
  <2>3. CASE Clean'
    <3>1. Clean /\ failures' = failures /\ JobShape /\ failures \in Nat /\ ~overlapped'
      BY <2>3, CleanBefore DEF RecordsInv, Clean, Untroubled
    <3>2. ~Failing
      BY <3>1 DEF Failing
    <3>3. ASSUME NEW t \in Turns, Resume(t) \/ FilePause(t) PROVE FALSE
      BY <2>3, <3>1, <3>3 DEF Resume, FilePause, Clean
    <3>4. ASSUME NEW p \in Processes, Raise(p) \/ Die(p) PROVE FALSE
      BY <3>2, <3>4 DEF Raise, Die
    <3>5. ASSUME NEW p \in Processes,
                 \/ ReadExisting(p) \/ Judge(p) \/ ReadPrevious(p) \/ Fold(p)
                 \/ WriteSummary(p) \/ Retire(p) \/ RetirePoints(p) \/ IndexWritten(p)
          PROVE  WindowInv'
      <4>1. table' = table /\ promoted' = promoted /\ overlapped' = overlapped
        BY <3>5 DEF ReadExisting, Judge, ReadPrevious, Fold, WriteSummary, Retire, RetirePoints,
                    IndexWritten, windowVars, history, Calm, Failing
      <4>2. CASE Fold(p)
        <5>1. /\ Others(p) /\ job[p].at = "folding" /\ job'[p].at \in {"retiring", "writing"}
              /\ job'[p].evicted = job[p].evicted
          BY <3>1, <4>2, FoldShape
        <5>2. GapInv(p)'
          BY <3>1, <4>1, <5>1, CarryingGap DEF Carrying, Working, Settling
        <5>3. QED
          BY <3>1, <4>1, <5>1, <5>2, StepsAreUndisturbed, CleanStep DEF Active, Resting
      <4>3. CASE ~Fold(p)
        <5>1. /\ Others(p) /\ job[p].at \in Carrying /\ job'[p].at \in Carrying
              /\ job'[p].evicted = job[p].evicted
          BY <3>1, <3>5, <4>3, ReadExistingBatch, JudgeBatch, PreviousBatch, RetireBatch,
             MovedBatch
             DEF WriteSummary, RetirePoints, IndexWritten, SameBatch, Carrying, Working, Settling
        <5>2. GapInv(p)'
          BY <3>1, <4>1, <5>1, CarryingGap
        <5>3. job[p].at \notin Resting /\ job'[p].at \notin Resting
          BY <5>1 DEF Carrying, Working, Settling, Resting
        <5>4. QED
          BY <3>1, <4>1, <5>1, <5>2, <5>3, StepsAreUndisturbed, CleanStep DEF Active
      <4>4. QED
        BY <4>2, <4>3
    <3>6. ASSUME NEW p \in Processes, ReadEvicted(p) PROVE WindowInv'
      <4>1. table' = table /\ promoted' = promoted /\ overlapped' = overlapped
        BY <3>6 DEF ReadEvicted, windowVars, Calm, Failing, history
      <4>2. Others(p) /\ job[p].at = "ended" /\ job'[p].at = "evicted"
        BY <3>1, <3>6, EvictedBatch
      <4>3. QED
        BY <3>1, <3>6, <4>1, <4>2, EvictedGap, StepsAreUndisturbed, CleanStep DEF Active, Resting
    <3>7. ASSUME NEW p \in Processes, MarkPromoted(p) PROVE WindowInv'
      <4>1. /\ table' = table /\ overlapped' = overlapped /\ job[p].at = "marking"
            /\ job' = [job EXCEPT ![p] = [Idle EXCEPT !.at = "recording"]]
        BY <3>7 DEF MarkPromoted, Calm, Failing, history
      <4>2. Others(p) /\ job'[p].at = "recording"
        BY <3>1, <4>1, ResetBatch
      <4>3. QED
        BY <3>1, <3>7, <4>1, <4>2, MarkingGap, StepsAreUndisturbed, CleanStep DEF Active, Resting
    <3>8. ASSUME NEW p \in Processes, RecordTurn(p) PROVE WindowInv'
      <4>1. /\ overlapped' = overlapped /\ job[p].at = "recording"
            /\ job' = [job EXCEPT ![p] = [Idle EXCEPT !.at = "done"]]
        BY <3>8 DEF RecordTurn, Calm, Failing, history
      <4>2. Others(p)
        BY <3>1, <4>1, ResetBatch
      <4>3. QED
        BY <3>1, <3>8, <4>1, <4>2, StepsAreUndisturbed, RecordingStep DEF Active, Resting
    <3>9. CASE UNCHANGED vars
      <4>1. /\ table' = table /\ promoted' = promoted /\ job' = job /\ filed' = filed
            /\ overlapped' = overlapped /\ failures' = failures
        BY <3>9 DEF vars, windowVars, history
      <4>2. QED
        BY <2>1, <3>1, <4>1 DEF WindowInv, Clean, Untroubled, OneAfterTheOther, GapInv,
              CleanTurnsCloseTheGap, Unfolded, Rows, Recent, SessionOf
    <3>10. QED
      BY <2>3, <3>1, <3>3, <3>4, <3>5, <3>6, <3>7, <3>8, <3>9, StartingStep DEF Next, Consolidate
  <2>4. QED
    BY <2>2, <2>3
<1>3. QED
  BY <1>1, <1>2, RecordsInvariant, PTL DEF Spec

\* In an untroubled project that has never paused, every turn is on show or has
\* been promoted, at every step.
THEOREM GapClosed == Spec => []CleanTurnsCloseTheGap
<1>1. WindowInv => CleanTurnsCloseTheGap
  BY DEF WindowInv, CleanTurnsCloseTheGap
<1>2. QED
  BY <1>1, WindowInvariant, PTL

(***************************************************************************)
(* What a fold keeps of the questions.                                     *)
(***************************************************************************)
LEMMA PickedHolds ==
    ASSUME NEW T, NEW s \in Seq(T), NEW places \in SUBSET DOMAIN s
    PROVE  /\ Picked(s, places) \in Seq(T) /\ Len(Picked(s, places)) <= Len(s)
           /\ ToSet(Picked(s, places)) = {s[i] : i \in places}
<1>1. /\ IsFiniteSet(places) /\ Picked(s, places) \in Seq(T)
      /\ Len(Picked(s, places)) = Cardinality(places) /\ Cardinality(places) <= Len(s)
      /\ \A i \in DOMAIN Picked(s, places) :
            Nth(places, i) \in places /\ Picked(s, places)[i] = s[Nth(places, i)]
      /\ \A k \in places : \E i \in DOMAIN Picked(s, places) : Nth(places, i) = k
  BY PickedKeepsOrder
<1>2. PICK picked : picked = Picked(s, places)
  OBVIOUS
<1>3. {picked[i] : i \in DOMAIN picked} = {s[i] : i \in places}
  BY <1>1, <1>2
<1>4. QED
  BY <1>1, <1>2, <1>3 DEF ToSet

LEMMA ConcatHolds ==
    ASSUME NEW T, NEW r \in Seq(T), NEW s \in Seq(T)
    PROVE  r \o s \in Seq(T) /\ ToSet(r \o s) = ToSet(r) \cup ToSet(s)
<1> DEFINE m == Len(r)
           n == Len(s)
           both == r \o s
<1>1. m \in Nat /\ n \in Nat /\ DOMAIN r = 1..m /\ DOMAIN s = 1..n
  BY LenProperties
<1>2. /\ both \in Seq(T) /\ Len(both) = m + n
      /\ \A i \in 1..(m + n) : both[i] = IF i <= m THEN r[i] ELSE s[i - m]
  BY ConcatProperties
<1> HIDE DEF m, n, both
<1>3. DOMAIN both = 1..(m + n)
  BY <1>2, LenProperties
<1>4. ASSUME NEW i \in 1..m PROVE i \in 1..(m + n) /\ both[i] = r[i]
  BY <1>1, <1>2
<1>5. ASSUME NEW i \in 1..n PROVE m + i \in 1..(m + n) /\ both[m + i] = s[i]
  <2>1. m + i \in 1..(m + n) /\ ~(m + i <= m) /\ (m + i) - m = i
    BY <1>1
  <2>2. QED
    BY <1>2, <2>1
<1>6. ASSUME NEW i \in 1..(m + n)
      PROVE  \/ i \in 1..m /\ both[i] = r[i]
             \/ i - m \in 1..n /\ both[i] = s[i - m]
  BY <1>1, <1>2
<1>7. ToSet(both) \subseteq ToSet(r) \cup ToSet(s)
  BY <1>1, <1>3, <1>6 DEF ToSet
<1>8. ToSet(r) \subseteq ToSet(both)
  BY <1>1, <1>3, <1>4 DEF ToSet
<1>9. ToSet(s) \subseteq ToSet(both)
  BY <1>1, <1>3, <1>5 DEF ToSet
<1>10. QED
  BY <1>2, <1>7, <1>8, <1>9 DEF both

LEMMA FirstOnesHold ==
    ASSUME NEW T, NEW s \in Seq(T)
    PROVE  FirstOnes(s) \in Seq(T) /\ ToSet(FirstOnes(s)) = ToSet(s)
<1> DEFINE places == {i \in DOMAIN s : \A j \in DOMAIN s : s[j] = s[i] => i <= j}
<1>1. DOMAIN s = 1..Len(s) /\ Len(s) \in Nat
  BY LenProperties
<1>2. ASSUME NEW i \in DOMAIN s PROVE \E k \in places : s[k] = s[i]
  <2> DEFINE same == {j \in DOMAIN s : s[j] = s[i]}
  <2>1. same \in SUBSET Nat /\ same # {}
    BY <1>1
  <2>2. Min(same) \in same /\ \A j \in same : Min(same) <= j
    BY <2>1, Least
  <2>3. QED
    BY <2>2
<1>3. places \in SUBSET DOMAIN s
  OBVIOUS
<1>4. FirstOnes(s) = Picked(s, places)
  BY DEF FirstOnes
<1> HIDE DEF places
<1>5. Picked(s, places) \in Seq(T) /\ ToSet(Picked(s, places)) = {s[i] : i \in places}
  BY <1>3, PickedHolds
<1>6. {s[i] : i \in places} = {s[i] : i \in DOMAIN s}
  BY <1>2, <1>3
<1>7. QED
  BY <1>4, <1>5, <1>6 DEF ToSet

LEMMA SafeHolds ==
    ASSUME NEW T, NEW s \in Seq(T)
    PROVE  /\ Safe(s) \in Seq(Quotable) /\ Len(Safe(s)) <= Len(s)
           /\ ToSet(Safe(s)) = ToSet(s) \cap Quotable
<1> DEFINE places == {i \in DOMAIN s : s[i] \in Quotable}
<1>1. places \in SUBSET DOMAIN s /\ {s[i] : i \in places} = {s[i] : i \in DOMAIN s} \cap Quotable
  OBVIOUS
<1>2. Safe(s) = Picked(s, places)
  BY DEF Safe
<1> HIDE DEF places
<1>3. /\ Picked(s, places) \in Seq(T) /\ Len(Picked(s, places)) <= Len(s)
      /\ ToSet(Picked(s, places)) = {s[i] : i \in places}
  BY <1>1, PickedHolds
<1>4. ToSet(Safe(s)) = ToSet(s) \cap Quotable
  BY <1>1, <1>2, <1>3 DEF ToSet
<1>5. Safe(s) \in Seq(Quotable)
  <2>1. PICK picked, n : picked = Safe(s) /\ n = Len(picked)
    OBVIOUS
  <2>2. n \in Nat /\ picked \in [1..n -> T] /\ DOMAIN picked = 1..n
    BY <1>2, <1>3, <2>1, LenProperties
  <2>3. \A i \in 1..n : picked[i] \in Quotable
    BY <1>4, <2>1, <2>2 DEF ToSet
  <2>4. picked \in [1..n -> Quotable]
    BY <2>2, <2>3
  <2>5. QED
    BY <2>1, <2>2, <2>4, IntoSeq
<1>6. QED
  BY <1>2, <1>3, <1>4, <1>5

LEMMA CappedHolds ==
    ASSUME NEW T, NEW s \in Seq(T)
    PROVE  /\ Capped(s) \in Seq(T) /\ Len(Capped(s)) \in Nat /\ Len(Capped(s)) <= ItemCap
           /\ \A i \in DOMAIN Capped(s) : Capped(s)[i] = s[i]
<1> DEFINE n == Len(s)
           c == Min({ItemCap, n})
           capped == SubSeq(s, 1, c)
<1>1. n \in Nat /\ DOMAIN s = 1..n /\ \A i \in 1..n : s[i] \in T
  BY LenProperties, ElementOfSeq
<1>2. ItemCap \in Nat /\ {ItemCap, n} \in SUBSET Nat
  BY <1>1, SizesOf
<1>3. c \in Nat /\ c <= ItemCap /\ c <= n
  <2>1. {ItemCap, n} # {}
    OBVIOUS
  <2>2. Min({ItemCap, n}) \in {ItemCap, n} /\ \A x \in {ItemCap, n} : Min({ItemCap, n}) <= x
    BY <1>2, <2>1, Least
  <2>3. QED
    BY <1>2, <2>2
<1>4. capped = Capped(s)
  BY DEF Capped
<1> HIDE DEF n, c
<1>5. \A i \in 1..c : i \in 1..n
  BY <1>1, <1>3
<1>6. \A i \in 1..c : s[i] \in T
  BY <1>1, <1>5
<1>7. /\ capped \in Seq(T)
      /\ Len(capped) = IF 1 <= c THEN c - 1 + 1 ELSE 0
      /\ \A i \in 1..(c - 1 + 1) : capped[i] = s[1 + i - 1]
  BY <1>3, <1>6, SubSeqProperties, SMT
<1> HIDE DEF capped
<1>8. Len(capped) = c /\ c - 1 + 1 = c
  BY <1>3, <1>7
<1>9. \A i \in 1..c : 1 + i - 1 = i
  BY <1>3
<1>10. DOMAIN capped = 1..c
  BY <1>7, <1>8, LenProperties
<1>11. \A i \in DOMAIN capped : capped[i] = s[i]
  BY <1>7, <1>8, <1>9, <1>10
<1>12. QED
  BY <1>3, <1>4, <1>7, <1>8, <1>11

\* A question of the batch, a carried item and one the proposer asked are in
\* what the fold merges.
LEMMA MergedHolds ==
    ASSUME NEW batch \in SUBSET Turns, IsFiniteSet(batch), NEW asked \in Seq(Sayings),
           NEW T, NEW carried \in Seq(T)
    PROVE  \E R : /\ Merged(batch, asked, carried) \in Seq(R)
                  /\ (batch \cap Clarified) \cup ToSet(carried)
                        \subseteq ToSet(Merged(batch, asked, carried))
<1> DEFINE questions == batch \cap Clarified
           R == questions \cup Sayings \cup T
           Q == Questions(batch)
<1>1. questions \in SUBSET Int /\ IsFiniteSet(questions)
  BY FS_Subset, SizesOf
<1>2. Q \in Seq(questions) /\ \A x \in questions : \E i \in DOMAIN Q : Q[i] = x
  BY <1>1, AscendingHoldsTheSet DEF Questions
<1>3. questions \subseteq ToSet(Q)
  BY <1>2 DEF ToSet
<1>4. questions \subseteq R /\ Sayings \subseteq R /\ T \subseteq R
  OBVIOUS
<1>5. Merged(batch, asked, carried) = FirstOnes((Q \o asked) \o carried)
  BY DEF Merged
<1> HIDE DEF R, Q
<1>6. Q \in Seq(R) /\ asked \in Seq(R) /\ carried \in Seq(R)
  BY <1>2, <1>4, SeqMonotonic
<1>7. Q \o asked \in Seq(R) /\ ToSet(Q \o asked) = ToSet(Q) \cup ToSet(asked)
  BY <1>6, ConcatHolds
<1>8. /\ (Q \o asked) \o carried \in Seq(R)
      /\ ToSet((Q \o asked) \o carried) = ToSet(Q \o asked) \cup ToSet(carried)
  <2>1. PICK both : both = Q \o asked
    OBVIOUS
  <2>2. both \in Seq(R)
    BY <1>7, <2>1
  <2>3. both \o carried \in Seq(R) /\ ToSet(both \o carried) = ToSet(both) \cup ToSet(carried)
    BY <1>6, <2>2, ConcatHolds
  <2>4. QED
    BY <2>1, <2>3
<1>9. PICK all : all = (Q \o asked) \o carried
  OBVIOUS
<1>10. FirstOnes(all) \in Seq(R) /\ ToSet(FirstOnes(all)) = ToSet(all)
  BY <1>8, <1>9, FirstOnesHold
<1>11. questions \cup ToSet(carried) \subseteq ToSet(all)
  BY <1>3, <1>7, <1>8, <1>9
<1>12. QED
  BY <1>5, <1>9, <1>10, <1>11

\* A question that is merged and may be quoted is written, or spilled.
LEMMA FoldShows ==
    ASSUME NEW T, NEW merged \in Seq(T), NEW text, NEW u \in ToSet(merged),
           u \in Clarified \ Unsafe
    PROVE  \/ u \in Spilled(merged, Safe(Capped(merged)), text)
           \/ u \in ToSet(Safe(Capped(merged))) /\ u \in ToSet(text.items)
<1> DEFINE capped == Capped(merged)
<1>1. u \in Quotable
  BY SizesOf DEF Quotable, Sayings
<1>2. /\ capped \in Seq(T)
      /\ \A i \in DOMAIN capped : capped[i] = merged[i]
  BY CappedHolds
<1>3. ToSet(Safe(capped)) = ToSet(capped) \cap Quotable
  BY <1>2, SafeHolds
<1>4. PICK i \in DOMAIN merged : merged[i] = u
  BY DEF ToSet
<1>5. CASE i \in DOMAIN capped
  <2>1. u \in ToSet(Safe(capped))
    BY <1>1, <1>2, <1>3, <1>4, <1>5 DEF ToSet
  <2>2. QED
    BY <2>1 DEF Spilled
<1>6. CASE i \notin DOMAIN capped
  BY <1>4, <1>6 DEF Spilled
<1>7. QED
  BY <1>5, <1>6

(***************************************************************************)
(* What a statement is, and that it is read back as sequences.             *)
(***************************************************************************)
Shown == Quotable \cup {Clipped[x] : x \in Sayings}

LEMMA SectionIs ==
    ASSUME NEW items, NEW cap
    PROVE  IsSection(items, cap) <=> items \in Seq(Shown) /\ Len(items) <= cap
  BY DEF IsSection, Shown

LEMMA EmptySection == \A cap \in Nat : IsSection(<<>>, cap)
<1>1. <<>> \in Seq(Shown) /\ Len(<<>>) = 0
  OBVIOUS
<1>2. \A cap \in Nat : 0 <= cap
  OBVIOUS
<1>3. QED
  BY <1>1, <1>2, SectionIs

LEMMA QuotedSection ==
    ASSUME NEW items \in Seq(Quotable), NEW cap, Len(items) <= cap
    PROVE  IsSection(items, cap)
<1>1. Quotable \subseteq Shown
  BY DEF Shown
<1>2. items \in Seq(Shown)
  BY <1>1, SeqMonotonic
<1>3. QED
  BY <1>2, SectionIs

LEMMA CutSection ==
    ASSUME NEW items \in Seq(Quotable), NEW cap \in Nat, Len(items) <= cap,
           NEW section \in Cuts(items)
    PROVE  IsSection(section, cap)
<1>1. PICK k \in DOMAIN items : section = Append(SubSeq(items, 1, k - 1), Clipped[items[k]])
  BY DEF Cuts
<1>2. PICK n : n = Len(items)
  OBVIOUS
<1>3. n \in Nat /\ DOMAIN items = 1..n /\ n <= cap /\ \A i \in 1..n : items[i] \in Quotable
  BY <1>2, LenProperties, ElementOfSeq
<1>4. k \in 1..n /\ k - 1 \in Int /\ \A i \in 1..(k - 1) : i \in 1..n
  BY <1>1, <1>3
<1>5. \A i \in 1..(k - 1) : items[i] \in Shown
  BY <1>3, <1>4 DEF Shown
<1>6. PICK head : head = SubSeq(items, 1, k - 1)
  OBVIOUS
<1>7. head \in Seq(Shown) /\ Len(head) = IF 1 <= k - 1 THEN k - 1 - 1 + 1 ELSE 0
  BY <1>4, <1>5, <1>6, SubSeqProperties, SMT
<1>8. Len(head) = k - 1
  BY <1>4, <1>7
<1>9. Clipped[items[k]] \in Shown
  BY <1>3, <1>4 DEF Shown, Quotable
<1>10. Append(head, Clipped[items[k]]) \in Seq(Shown)
       /\ Len(Append(head, Clipped[items[k]])) = Len(head) + 1
  BY <1>7, <1>9, AppendProperties
<1>11. Len(section) = k
  BY <1>1, <1>4, <1>6, <1>8, <1>10
<1>12. k <= cap
  BY <1>3, <1>4
<1>13. QED
  BY <1>1, <1>6, <1>10, <1>11, <1>12, SectionIs

LEMMA StatementIsText ==
    ASSUME NEW goal \in Seq(Quotable), Len(goal) <= 1,
           NEW items \in Seq(Quotable), Len(items) <= ItemCap,
           NEW other, NEW text \in Statements(goal, items, other)
    PROVE  IsText(text)
<1>1. \E goals \in {goal, <<>>} \cup Cuts(goal) :
         \E sections \in {items, <<>>} \cup Cuts(items) : \E e :
            text = [goal |-> goals, items |-> sections, ends |-> e]
  <2> DEFINE Lines(goals, sections) ==
               \E g \in goals : \E s \in sections : \E e :
                  text = [goal |-> g, items |-> s, ends |-> e]
  <2>1. \/ Lines({goal}, {items}) \/ Lines({goal}, {<<>>})
        \/ Lines(Cuts(goal), {<<>>}) \/ Lines({<<>>}, Cuts(items))
    BY DEF Statements
  <2>2. QED
    BY <2>1
<1>2. 1 \in Nat /\ ItemCap \in Nat
  BY SizesOf
<1>3. ASSUME NEW g \in {goal, <<>>} \cup Cuts(goal) PROVE IsSection(g, 1)
  BY <1>2, <1>3, EmptySection, QuotedSection, CutSection
<1>4. ASSUME NEW s \in {items, <<>>} \cup Cuts(items) PROVE IsSection(s, ItemCap)
  BY <1>2, <1>4, EmptySection, QuotedSection, CutSection
<1>5. QED
  BY <1>1, <1>3, <1>4 DEF IsText

LEMMA UndottedSaid ==
    ASSUME NEW T, NEW said \in Seq(T), NEW text
    PROVE  Len(Undotted(text, said)) \in Nat
<1> DEFINE n == Len(said)
           last == Clipped[said[n]]
<1>1. n \in Nat /\ said \in [1..n -> T]
  BY LenProperties
<1>2. Undotted(text, said) = IF text.ends = "dots" THEN [said EXCEPT ![n] = last] ELSE said
  BY DEF Undotted
<1> HIDE DEF n, last
<1>3. [said EXCEPT ![n] = last] \in [1..n -> T \cup {last}]
  BY <1>1
<1>4. [said EXCEPT ![n] = last] \in Seq(T \cup {last})
  BY <1>1, <1>3, IntoSeq
<1>5. Len([said EXCEPT ![n] = last]) \in Nat /\ Len(said) \in Nat
  BY <1>4, LenProperties
<1>6. QED
  BY <1>2, <1>5

LEMMA SectionIsRead ==
    ASSUME NEW text, IsText(text), NEW label
    PROVE  \E n \in Nat : \E T : Section(text, label) \in [1..n -> T]
<1> DEFINE said == Undotted(text, text.goal \o text.items)
           k == MaxPieces * Len(said)
<1>1. text.goal \in Seq(Shown) /\ text.items \in Seq(Shown)
  BY SectionIs DEF IsText
<1>2. text.goal \o text.items \in Seq(Shown)
  BY <1>1, ConcatProperties
<1>3. Len(said) \in Nat /\ MaxPieces \in Nat
  BY <1>2, UndottedSaid, SummaryAssumption DEF SummaryAssumption
<1>4. \A a, b \in Nat : a * b \in Nat
  OBVIOUS
<1>5. k \in Nat
  BY <1>3, <1>4
<1>6. \E at : /\ at \subseteq 1..k
              /\ Section(text, label)
                   = [i \in 1..Cardinality(at) |-> Section(text, label)[i]]
  <2> DEFINE
        Part(n) == Pieces[said[((n - 1) \div MaxPieces) + 1]]
        Place(n) == ((n - 1) % MaxPieces) + 1
        places == {n \in 1..(MaxPieces * Len(said)) : Place(n) <= Len(Part(n))}
        Label(n) == IF n = 1 /\ text.goal # <<>> THEN "Goal"
                    ELSE IF n = MaxPieces * Len(text.goal) + 1 THEN "Open"
                    ELSE Part(n)[Place(n)].label
        Under(n) == Label(Max({m \in places : m <= n /\ Label(m) # "none"}))
        at == {n \in places : Under(n) = label}
        TextOf(i) == Part(Nth(at, i))[Place(Nth(at, i))].text
  <2>1. Section(text, label) = [i \in 1..Cardinality(at) |-> TextOf(i)]
    BY DEF Section
  <2>2. at \subseteq 1..k
    OBVIOUS
  <2> HIDE DEF at, TextOf
  <2>3. QED
    BY <2>1, <2>2
<1> HIDE DEF k
<1>7. PICK at : /\ at \subseteq 1..k
                /\ Section(text, label) = [i \in 1..Cardinality(at) |-> Section(text, label)[i]]
  BY <1>6
<1>8. Cardinality(at) \in Nat
  BY <1>5, <1>7, FS_Interval, FS_Subset, FS_CardinalityType
<1>9. PICK n, section : n = Cardinality(at) /\ section = Section(text, label)
  OBVIOUS
<1>10. section = [i \in 1..n |-> section[i]]
  BY <1>7, <1>9
<1>11. section \in [1..n -> {section[i] : i \in 1..n}]
  BY <1>10
<1>12. QED
  BY <1>8, <1>9, <1>11

\* Whatever the line was cut to, its items are a sequence.
LEMMA ReadItems ==
    ASSUME NEW text, IsText(text)
    PROVE  \E T : ParseSummary(text).items \in Seq(T)
<1>1. PICK section : section = Section(text, "Open")
  OBVIOUS
<1>2. ParseSummary(text).items \in {section, Front(section)}
  BY <1>1 DEF ParseSummary
<1>3. \E n \in Nat : \E T : section \in [1..n -> T]
  BY <1>1, SectionIsRead
<1>4. PICK n \in Nat : \E T : section \in [1..n -> T]
  BY <1>3
<1>5. PICK T : section \in [1..n -> T]
  BY <1>4
<1>6. section \in Seq(T)
  BY <1>5, IntoSeq
<1>7. Front(section) \in Seq(T)
  <2>1. PICK m : m = Len(section)
    OBVIOUS
  <2>2. m \in Nat /\ \A i \in 1..m : section[i] \in T
    BY <1>6, <2>1, LenProperties, ElementOfSeq
  <2>3. m - 1 \in Int /\ 1 \in Int /\ \A i \in 1..(m - 1) : i \in 1..m
    BY <2>2
  <2>4. \A i \in 1..(m - 1) : section[i] \in T
    BY <2>2, <2>3
  <2>5. SubSeq(section, 1, m - 1) \in Seq(T)
    BY <2>3, <2>4, SubSeqProperties
  <2>6. QED
    BY <2>1, <2>5 DEF Front
<1>8. QED
  BY <1>2, <1>6, <1>7

(***************************************************************************)
(* Shapes.                                                                 *)
(***************************************************************************)
JobTyped(p) ==
    /\ job[p].at \in Steps
    /\ job[p].existing \subseteq Ids /\ job[p].wrote \subseteq Ids
    /\ job[p].retiring \subseteq Ids
    /\ job[p].evicted \subseteq Turns
    /\ job[p].previous \in 0..Len(summaries)
    /\ job[p].replaces \subseteq DOMAIN summaries
    /\ job[p].at = "writing" =>
          job[p].summary[1].named \in BOOLEAN /\ IsText(job[p].summary[1].text)

StoresTyped == live \subseteq Ids /\ searchable \subseteq Ids

RowTyped(row) ==
    /\ row.run \in Turns /\ row.live \in BOOLEAN
    /\ row.links \subseteq Turns /\ row.named \in BOOLEAN /\ IsText(row.text)

SummariesTyped == \A i \in DOMAIN summaries : RowTyped(summaries[i])

WindowTyped ==
    /\ table \in [Turns -> RowStates]
    /\ promoted \in [Turns -> Turns \cup {0}]
    /\ filed \subseteq Turns
    /\ {overlapped, returned} \subseteq BOOLEAN /\ failures \in 0..MaxFailures
    /\ spilled \subseteq Clarified

LEMMA TypeParts ==
    TypeInv <=> /\ StoresTyped /\ SummariesTyped /\ WindowTyped
                /\ \A p \in Processes : JobTyped(p)
  BY DEF TypeInv, TypeOK, StoresTyped, SummariesTyped, RowTyped, WindowTyped, JobTyped

\* A record is what was proposed, under a key that was named, and has its owner.
LEMMA VerdictTyped ==
    ASSUME NEW existing \in SUBSET Ids, NEW t \in Turns, NEW c \in Candidates,
           NEW verdict \in Decide(c, existing, ScopeOf[t]), Stores(verdict)
    PROVE  /\ MemoryId([c EXCEPT !.key = verdict.key], ScopeOf[t]) \in Ids
           /\ verdict.supersedes \subseteq existing
<1> DEFINE scope == ScopeOf[t]
           id == MemoryId([c EXCEPT !.key = verdict.key], scope)
<1>1. verdict.supersedes \subseteq existing
  BY VerdictReplaces
<1>2. \A reason : ~Stores(Refusal(reason))
  BY DEF Stores, Refusal
<1>3. verdict \in Conflict(c, existing, scope)
  BY <1>2, Zenon DEF Decide
<1>4. verdict.key = c.key \/ \E old \in existing : verdict.key = old.key
  <2>1. Twins(c, existing, scope) = {}
    BY <1>2, <1>3, Zenon DEF Conflict
  <2>2. \/ verdict.key = c.key
        \/ \E key \in KeptKeys(c, SameTopic(c, existing, scope)) : verdict.key = key
    BY <1>3, <2>1 DEF Conflict
  <2>3. QED
    BY <2>2 DEF KeptKeys, SameTopic
<1>5. c.kind \in ProposableKinds /\ c.key \in Keys /\ c.text \in Texts
  BY DEF Candidates
<1>6. \A old \in existing : old.key \in Keys
  BY DEF Ids
<1>7. verdict.key \in Keys
  BY <1>4, <1>5, <1>6
<1>8. OwnerOf(c.kind, scope) \in {ScopeOf[u].actor : u \in Turns} \cup {"project"}
  BY <1>5 DEF OwnerOf, ProposableKinds
<1>9. id = [kind |-> c.kind, key |-> verdict.key, text |-> c.text,
            owner |-> OwnerOf(c.kind, scope)]
  BY DEF MemoryId, Candidates
<1>10. id \in Ids
  BY <1>5, <1>7, <1>8, <1>9 DEF Ids
<1>11. QED
  BY <1>1, <1>10

(***************************************************************************)
(* Each action leaves the shape of its job.                                *)
(***************************************************************************)
LEMMA MovedTyped ==
    ASSUME JobShape, NEW p \in Processes, JobTyped(p), NEW from, NEW to \in Steps \ {"writing"},
           Moves(p, from, to), SummariesShape, Grown, SummariesShape'
    PROVE  JobTyped(p)'
<1>1. /\ job'[p].at = to /\ job'[p].existing = job[p].existing
      /\ job'[p].wrote = job[p].wrote /\ job'[p].retiring = job[p].retiring
      /\ job'[p].evicted = job[p].evicted /\ job'[p].previous = job[p].previous
      /\ job'[p].replaces = job[p].replaces
  BY DEF JobShape, Fields, Idle, Moves
<1>2. 0..Len(summaries) \subseteq 0..Len(summaries') /\ DOMAIN summaries \subseteq DOMAIN summaries'
  <2>1. /\ Len(summaries) \in Nat /\ DOMAIN summaries = 1..Len(summaries)
        /\ Len(summaries') \in Nat /\ DOMAIN summaries' = 1..Len(summaries')
    BY LenProperties DEF SummariesShape
  <2>2. Len(summaries) <= Len(summaries')
    BY DEF Grown
  <2>3. QED
    BY <2>1, <2>2
<1>3. QED
  BY <1>1, <1>2 DEF JobTyped

LEMMA ResetTyped ==
    ASSUME JobShape, NEW p \in Processes, NEW to \in Steps \ {"writing"},
           job' = [job EXCEPT ![p] = [Idle EXCEPT !.at = to]], SummariesShape'
    PROVE  JobTyped(p)'
<1>1. /\ job'[p].at = to /\ job'[p].existing = {}
      /\ job'[p].wrote = {} /\ job'[p].retiring = {}
      /\ job'[p].evicted = {} /\ job'[p].previous = 0
      /\ job'[p].replaces = {}
  BY DEF JobShape, Idle
<1>2. Len(summaries') \in Nat
  BY LenProperties DEF SummariesShape
<1>3. QED
  BY <1>1, <1>2 DEF JobTyped

LEMMA EvictedTyped ==
    ASSUME JobShape, NEW p \in Processes, JobTyped(p), ReadEvicted(p)
    PROVE  JobTyped(p)'
<1> DEFINE found == Evicted(table, {u \in Turns : promoted[u] # 0}, SessionOf(p[1]),
                            RoomLeft, Batch)
<1>1. found \subseteq Turns
  BY DEF Evicted, Oldest, Rows, SessionOf
<1>2. /\ summaries' = summaries
      /\ \/ job' = [job EXCEPT ![p].at = "evicted", ![p].evicted = found]
         \/ job' = [job EXCEPT ![p].at = "evicted"]
  BY DEF ReadEvicted, storeVars
<1> HIDE DEF found
<1>3. /\ job'[p].at = "evicted" /\ job'[p].existing = job[p].existing
      /\ job'[p].wrote = job[p].wrote /\ job'[p].retiring = job[p].retiring
      /\ job'[p].evicted \in {found, job[p].evicted} /\ job'[p].previous = job[p].previous
      /\ job'[p].replaces = job[p].replaces
  BY <1>2 DEF JobShape, Fields, Idle
<1>4. QED
  BY <1>1, <1>2, <1>3 DEF JobTyped, Steps, Consolidating

LEMMA ReadExistingTyped ==
    ASSUME JobShape, NEW p \in Processes, JobTyped(p), StoresTyped, ReadExisting(p)
    PROVE  JobTyped(p)'
<1>1. PICK list, existing :
        /\ existing = Live(ScopeOf[p[1]])
        /\ \/ job' = [job EXCEPT ![p].at = "promoting"]
           \/ job' = [job EXCEPT ![p].at = "judging", ![p].left = list, ![p].existing = existing]
  BY DEF ReadExisting
<1>2. existing \subseteq Ids /\ summaries' = summaries
  BY <1>1 DEF Live, StoresTyped, ReadExisting, storeVars
<1>3. /\ job'[p].at \in {"promoting", "judging"}
      /\ job'[p].existing \in {existing, job[p].existing}
      /\ job'[p].wrote = job[p].wrote /\ job'[p].retiring = job[p].retiring
      /\ job'[p].evicted = job[p].evicted /\ job'[p].previous = job[p].previous
      /\ job'[p].replaces = job[p].replaces
  BY <1>1 DEF JobShape, Fields, Idle
<1>4. QED
  BY <1>2, <1>3 DEF JobTyped, Steps, Consolidating

LEMMA JudgeTyped ==
    ASSUME JobShape, NEW p \in Processes, JobTyped(p), HandInv(p), StoresTyped, Judge(p)
    PROVE  JobTyped(p)' /\ live' \subseteq Ids
<1>1. /\ job'[p].at \in {"judging", "promoting"} /\ SameBatch(p)
      /\ job'[p].previous = job[p].previous /\ summaries' = summaries
  BY JudgeBatch DEF Judge
<1>2. p[1] \in Turns
  BY DEF Processes
<1>3. CASE /\ job'[p].wrote = job[p].wrote /\ job'[p].retiring = job[p].retiring
           /\ job'[p].existing = job[p].existing /\ live' = live
  BY <1>1, <1>3 DEF JobTyped, SameBatch, Steps, Consolidating, StoresTyped
<1>4. ASSUME NEW c \in Candidates,
             NEW verdict \in Decide(c, job[p].existing, ScopeOf[p[1]]),
             NEW id, id = MemoryId([c EXCEPT !.key = verdict.key], ScopeOf[p[1]]),
             Stores(verdict),
             job'[p].wrote = job[p].wrote \cup {id},
             job'[p].retiring = job[p].retiring \cup verdict.supersedes,
             job'[p].existing = (job[p].existing \ verdict.supersedes) \cup {id},
             live' = live \cup {id}
      PROVE  JobTyped(p)' /\ live' \subseteq Ids
  <2>1. job[p].existing \in SUBSET Ids
    BY DEF JobTyped
  <2>2. id \in Ids /\ verdict.supersedes \subseteq Ids
    BY <1>2, <1>4, <2>1, VerdictTyped
  <2>3. QED
    BY <1>1, <1>4, <2>2 DEF JobTyped, SameBatch, Steps, Consolidating, StoresTyped
<1>5. \/ /\ job'[p].wrote = job[p].wrote /\ job'[p].retiring = job[p].retiring
         /\ job'[p].existing = job[p].existing /\ live' = live
      \/ \E c \in Candidates : \E verdict \in Decide(c, job[p].existing, ScopeOf[p[1]]) :
           LET id == MemoryId([c EXCEPT !.key = verdict.key], ScopeOf[p[1]])
           IN /\ Stores(verdict)
              /\ job'[p].wrote = job[p].wrote \cup {id}
              /\ job'[p].retiring = job[p].retiring \cup verdict.supersedes
              /\ job'[p].existing = (job[p].existing \ verdict.supersedes) \cup {id}
              /\ live' = live \cup {id}
  BY JudgeShape
<1>6. QED
  BY <1>3, <1>4, <1>5, Zenon

LEMMA PreviousTyped ==
    ASSUME JobShape, NEW p \in Processes, JobTyped(p), SummariesShape, ReadPrevious(p)
    PROVE  JobTyped(p)'
<1>1. NewestSummary(p[1]) \in 0..Len(summaries)
  <2>1. p[1] \in Turns /\ Len(summaries) \in Nat
    BY LenProperties DEF Processes, SummariesShape
  <2>2. QED
    BY <2>1, NewestFacts
<1>2. PICK newest :
        /\ newest = NewestSummary(p[1])
        /\ \/ job' = [job EXCEPT ![p].at = "retiring", ![p].existing = {}]
           \/ job' = [job EXCEPT ![p].at = "folding", ![p].existing = {},
                                 ![p].previous = newest]
  BY DEF ReadPrevious
<1> DEFINE Stays ==
      /\ job'[p].at \in {"retiring", "folding"} /\ job'[p].existing = {}
      /\ job'[p].wrote = job[p].wrote /\ job'[p].retiring = job[p].retiring
      /\ job'[p].evicted = job[p].evicted /\ job'[p].previous \in {newest, job[p].previous}
      /\ job'[p].replaces = job[p].replaces
<1>3. Stays
  <2>1. CASE job' = [job EXCEPT ![p].at = "retiring", ![p].existing = {}]
    BY <2>1 DEF JobShape, Fields, Idle
  <2>2. CASE job' = [job EXCEPT ![p].at = "folding", ![p].existing = {},
                                ![p].previous = newest]
    BY <2>2 DEF JobShape, Fields, Idle
  <2>3. QED
    BY <1>2, <2>1, <2>2, Zenon
<1>4. summaries' = summaries
  BY DEF ReadPrevious, storeVars
<1>5. QED
  BY <1>1, <1>2, <1>3, <1>4 DEF JobTyped, Steps, Consolidating

LEMMA RetireTyped ==
    ASSUME JobShape, NEW p \in Processes, JobTyped(p), SummariesShape, Retire(p)
    PROVE  JobTyped(p)'
<1>1. Len(summaries') = Len(summaries)
  <2>1. PICK gone :
          summaries' = [i \in DOMAIN summaries |->
                          [summaries[i] EXCEPT !.live = @ /\ i \notin gone]]
    BY DEF Retire
  <2>2. QED
    BY <2>1, RetireFacts
<1>2. /\ job'[p].at = "unindexing" /\ job'[p].existing = job[p].existing
      /\ job'[p].wrote = job[p].wrote /\ job'[p].retiring \subseteq job[p].retiring
      /\ job'[p].evicted = job[p].evicted /\ job'[p].previous = job[p].previous
      /\ job'[p].replaces = {}
  BY DEF JobShape, Fields, Idle, Retire
<1>3. QED
  BY <1>1, <1>2 DEF JobTyped, Steps

\* What a batch holds, a summary names or a mark is on has been recorded.
LEMMA FoldedInvariant == Spec => []FoldedInv
<1>1. Init => FoldedInv
  BY DEF Init, FoldedInv, Idle
<1>2. FoldedInv /\ WindowInv /\ SummaryInv /\ RecordsInv /\ [Next]_vars => FoldedInv'
  <2> SUFFICES ASSUME FoldedInv, WindowInv, SummaryInv, RecordsInv, [Next]_vars
               PROVE  FoldedInv'
    OBVIOUS
  <2>0. JobShape /\ SummariesShape
    BY DEF RecordsInv, SummaryInv
  <2>1. Recorded \subseteq Recorded'
    <3>1. table' = table \/ \E p \in Processes : table' = [table EXCEPT ![p[1]] = Outcome(p)]
      BY TableSteps
    <3>2. \A p \in Processes : Outcome(p) # "absent"
      BY DEF Outcome
    <3>3. QED
      BY <3>1, <3>2 DEF WindowInv, Recorded
  <2>2. \A u \in Turns : promoted'[u] # 0 =>
          promoted[u] # 0 \/ \E p \in Processes : u \in job[p].evicted
    <3>1. promoted' = promoted \/ \E p \in Processes : promoted' = Marked(p)
      BY PromotedSteps
    <3>2. \A p \in Processes : Marked(p) = [u \in Turns |->
            IF u \in job[p].evicted /\ promoted[u] = 0 THEN p[1] ELSE promoted[u]]
      BY DEF Marked
    <3>3. QED
      BY <3>1, <3>2
  <2>3. ASSUME NEW q \in Processes PROVE job'[q].evicted \subseteq job[q].evicted \cup Recorded
    <3>1. ASSUME NEW p \in Processes, Others(p),
                 job'[p].evicted \subseteq job[p].evicted \cup Recorded
          PROVE  job'[q].evicted \subseteq job[q].evicted \cup Recorded
      BY <3>1 DEF Others
    <3>2. ASSUME NEW p \in Processes, NEW from, NEW to, Moves(p, from, to)
          PROVE  job'[q].evicted \subseteq job[q].evicted \cup Recorded
      BY <2>0, <3>1, <3>2, MovedBatch DEF SameBatch
    <3>3. ASSUME NEW p \in Processes, NEW to, job' = [job EXCEPT ![p] = [Idle EXCEPT !.at = to]]
          PROVE  job'[q].evicted \subseteq job[q].evicted \cup Recorded
      BY <2>0, <3>1, <3>3, ResetBatch
    <3>4. ASSUME NEW t \in Turns, Handle(t) \/ Resume(t) \/ FilePause(t)
          PROVE  job'[q].evicted \subseteq job[q].evicted \cup Recorded
      <4>1. \E p \in Processes : \E from, to : Moves(p, from, to)
        BY <3>4 DEF Handle, Resume, FilePause, Starts, Processes
      <4>2. QED
        BY <3>2, <4>1
    <3>5. ASSUME NEW p \in Processes, WriteSummary(p) \/ RetirePoints(p) \/ IndexWritten(p)
          PROVE  job'[q].evicted \subseteq job[q].evicted \cup Recorded
      BY <3>2, <3>5 DEF WriteSummary, RetirePoints, IndexWritten
    <3>6. ASSUME NEW p \in Processes, MarkPromoted(p) \/ RecordTurn(p) \/ Raise(p) \/ Die(p)
          PROVE  job'[q].evicted \subseteq job[q].evicted \cup Recorded
      BY <3>3, <3>6 DEF MarkPromoted, RecordTurn, Raise, Die
    <3>7. ASSUME NEW p \in Processes, ReadEvicted(p)
          PROVE  job'[q].evicted \subseteq job[q].evicted \cup Recorded
      <4> DEFINE found == Evicted(table, {u \in Turns : promoted[u] # 0}, SessionOf(p[1]),
                                  RoomLeft, Batch)
      <4>1. found \subseteq Recorded
        BY DEF Evicted, Oldest, Rows, SessionOf, Recorded
      <4>2. \/ job' = [job EXCEPT ![p].at = "evicted", ![p].evicted = found]
            \/ job' = [job EXCEPT ![p].at = "evicted"]
        BY <3>7 DEF ReadEvicted
      <4> HIDE DEF found
      <4>3. job'[p].evicted \in {found, job[p].evicted} /\ Others(p)
        BY <2>0, <4>2 DEF JobShape, Fields, Idle, Others
      <4>4. QED
        BY <3>1, <4>1, <4>3
    <3>8. ASSUME NEW p \in Processes,
                 ReadExisting(p) \/ Judge(p) \/ ReadPrevious(p) \/ Retire(p)
          PROVE  job'[q].evicted \subseteq job[q].evicted \cup Recorded
      <4>1. Others(p) /\ job'[p].evicted = job[p].evicted
        BY <2>0, <3>8, ReadExistingBatch, JudgeBatch, PreviousBatch, RetireBatch DEF SameBatch
      <4>2. QED
        BY <3>1, <4>1
    <3>9. ASSUME NEW p \in Processes, Fold(p)
          PROVE  job'[q].evicted \subseteq job[q].evicted \cup Recorded
      BY <2>0, <3>1, <3>9, FoldShape
    <3>10. CASE UNCHANGED vars
      BY <3>10 DEF vars
    <3>11. QED
      BY <3>4, <3>5, <3>6, <3>7, <3>8, <3>9, <3>10 DEF Next, Consolidate
  <2>4. \A i \in DOMAIN summaries' : summaries'[i].links \subseteq Recorded
    <3>1. CASE summaries' = summaries
      BY <3>1 DEF FoldedInv
    <3>2. ASSUME NEW p \in Processes, WriteSummary(p)
          PROVE  \A i \in DOMAIN summaries' : summaries'[i].links \subseteq Recorded
      <4> DEFINE n == Len(summaries) + 1
      <4>1. /\ SummariesShape' /\ Len(summaries') = n
            /\ summaries'[n].links = job[p].evicted
            /\ \A i \in 1..Len(summaries) : summaries'[i] = summaries[i]
        BY <2>0, <3>2, WritingFacts
      <4>2. /\ Len(summaries) \in Nat /\ n = Len(summaries) + 1
            /\ DOMAIN summaries = 1..Len(summaries) /\ DOMAIN summaries' = 1..n
        BY <2>0, <4>1, LenProperties DEF SummariesShape
      <4> HIDE DEF n
      <4>3. \A i \in 1..n : i \in 1..Len(summaries) \/ i = n
        BY <4>2
      <4>4. QED
        BY <4>1, <4>2, <4>3 DEF FoldedInv
    <3>3. ASSUME NEW p \in Processes, Retire(p)
          PROVE  \A i \in DOMAIN summaries' : summaries'[i].links \subseteq Recorded
      <4>1. PICK gone :
              summaries' = [i \in DOMAIN summaries |->
                              [summaries[i] EXCEPT !.live = @ /\ i \notin gone]]
        BY <3>3 DEF Retire
      <4>2. Grown /\ DOMAIN summaries' = DOMAIN summaries
        BY <2>0, <4>1, RetireFacts
      <4>3. QED
        BY <4>2 DEF FoldedInv, Grown, SameSummary
    <3>4. summaries' = summaries \/ \E p \in Processes : WriteSummary(p) \/ Retire(p)
      BY SummarySteps
    <3>5. QED
      BY <3>1, <3>2, <3>3, <3>4
  <2>5. QED
    BY <2>1, <2>2, <2>3, <2>4 DEF FoldedInv
<1>3. QED
  BY <1>1, <1>2, RecordsInvariant, SummaryInvariant, WindowInvariant, PTL DEF Spec

LEMMA BatchIsFinite ==
    ASSUME FoldedInv, WindowInv, NEW p \in Processes
    PROVE  IsFiniteSet(job[p].evicted) /\ job[p].evicted \in SUBSET Turns
  BY FS_Subset DEF FoldedInv, WindowInv, Recorded

LEMMA AskedSayings ==
    ASSUME NEW p \in Processes, NEW named, NEW other, NEW text, FoldCase(p, named, other, text)
    PROVE  named.asked \in Seq(Sayings)
<1>1. named \in Summaries[p[1]] \cup {Silent} /\ p[1] \in Turns
  BY Zenon DEF FoldCase, Processes
<1>2. CASE named \in Summaries[p[1]]
  BY <1>1, <1>2, NamingAssumption DEF NamingAssumption
<1>3. CASE named = Silent
  <2>1. named.asked = <<>>
    BY <1>3 DEF Silent
  <2>2. QED
    BY <2>1
<1>4. QED
  BY <1>1, <1>2, <1>3

LEMMA CarriedIsRead ==
    ASSUME NEW p \in Processes, JobTyped(p), SummariesShape, SummariesTyped
    PROVE  \E T : Carried(p).items \in Seq(T)
<1>1. CASE job[p].previous = 0
  <2>1. Carried(p).items = <<>>
    BY <1>1 DEF Carried, NoSummary
  <2>2. QED
    BY <2>1
<1>2. CASE job[p].previous # 0
  <2>1. job[p].previous \in DOMAIN summaries
    BY <1>2, LenProperties DEF JobTyped, SummariesShape
  <2>2. PICK text : text = summaries[job[p].previous].text /\ IsText(text)
    BY <2>1 DEF SummariesTyped, RowTyped
  <2>3. Carried(p).items = ParseSummary(text).items
    BY <1>2, <2>2 DEF Carried
  <2>4. QED
    BY <2>2, <2>3, ReadItems
<1>3. QED
  BY <1>1, <1>2

LEMMA FoldTyped ==
    ASSUME JobShape, NEW p \in Processes, JobTyped(p), SummariesShape, SummariesTyped,
           IsFiniteSet(job[p].evicted), job[p].evicted # {}, Fold(p)
    PROVE  JobTyped(p)'
<1>1. job[p].evicted \in SUBSET Turns /\ p[1] \in Turns
  BY DEF JobTyped, Processes
<1>2. \E T : Carried(p).items \in Seq(T)
  BY CarriedIsRead
<1>3. PICK named, other, text : FoldCase(p, named, other, text)
  BY FoldIs
<1>4. FoldGoal(p, named) \in Seq(Quotable) /\ Len(FoldGoal(p, named)) <= 1
  <2>1. PICK x : FoldGoal(p, named) = Safe(<<x>>)
    BY <1>3, FoldGoalIs
  <2>2. Safe(<<x>>) = IF x \in Quotable THEN <<x>> ELSE <<>>
    BY SafeOne
  <2>3. CASE x \in Quotable
    <3>1. <<x>> \in Seq(Quotable) /\ Len(<<x>>) <= 1
      BY <2>3
    <3>2. FoldGoal(p, named) = <<x>>
      BY <2>1, <2>2, <2>3, Zenon
    <3>3. QED
      BY <3>1, <3>2, Zenon
  <2>4. CASE x \notin Quotable
    <3>1. <<>> \in Seq(Quotable) /\ Len(<<>>) <= 1
      OBVIOUS
    <3>2. FoldGoal(p, named) = <<>>
      BY <2>1, <2>2, <2>4, Zenon
    <3>3. QED
      BY <3>1, <3>2, Zenon
  <2>5. QED
    BY <2>3, <2>4
<1>5. FoldItems(p, named) \in Seq(Quotable) /\ Len(FoldItems(p, named)) <= ItemCap
  <2>1. PICK T : Carried(p).items \in Seq(T)
    BY <1>2
  <2>2. named.asked \in Seq(Sayings)
    BY <1>3, AskedSayings
  <2>3. PICK R : FoldMerged(p, named) \in Seq(R)
    BY <1>1, <2>1, <2>2, MergedHolds DEF FoldMerged
  <2>4. PICK capped : capped = Capped(FoldMerged(p, named))
    OBVIOUS
  <2>5. capped \in Seq(R) /\ Len(capped) \in Nat /\ Len(capped) <= ItemCap
    BY <2>3, <2>4, CappedHolds
  <2>6. Safe(capped) \in Seq(Quotable) /\ Len(Safe(capped)) <= Len(capped)
    BY <2>5, SafeHolds
  <2>7. PICK a, b : a = Len(capped) /\ b = Len(Safe(capped))
    OBVIOUS
  <2>8. a \in Nat /\ b \in Nat /\ b <= a /\ a <= ItemCap /\ ItemCap \in Nat
    BY <2>5, <2>6, <2>7, LenProperties, SizesOf
  <2>9. b <= ItemCap
    BY <2>8
  <2>10. QED
    BY <2>4, <2>6, <2>7, <2>9 DEF FoldItems
<1>6. IsText(text)
  <2>1. text \in Statements(FoldGoal(p, named), FoldItems(p, named), other)
    BY <1>3, Zenon DEF FoldCase
  <2>2. QED
    BY <1>4, <1>5, <2>1, StatementIsText
<1>7. /\ job'[p].at \in {"retiring", "writing"}
      /\ job'[p].wrote = job[p].wrote /\ job'[p].retiring = job[p].retiring
      /\ job'[p].evicted = job[p].evicted
      /\ job'[p].replaces \in {LiveSummaries(p[1]), job[p].replaces}
  BY <1>1, FoldShape, FoldBatch
<1>8. /\ job'[p].existing = job[p].existing /\ job'[p].previous = 0
      /\ job'[p].at = "writing" => job'[p].summary = <<FoldRow(p, named, text)>>
  <2>1. PICK rows, replaced :
          /\ rows = <<FoldRow(p, named, text)>>
          /\ \/ job' = [job EXCEPT ![p].at = "retiring", ![p].previous = 0]
             \/ job' = [job EXCEPT ![p].at = "writing", ![p].previous = 0,
                                  ![p].summary = rows, ![p].replaces = replaced]
    BY <1>3, Zenon DEF FoldCase
  <2>2. CASE job' = [job EXCEPT ![p].at = "retiring", ![p].previous = 0]
    BY <2>2 DEF JobShape, Fields, Idle
  <2>3. CASE job' = [job EXCEPT ![p].at = "writing", ![p].previous = 0,
                                ![p].summary = rows, ![p].replaces = replaced]
    <3>1. /\ job'[p].existing = job[p].existing /\ job'[p].previous = 0
          /\ job'[p].summary = rows
      BY <2>3 DEF JobShape, Fields, Idle
    <3>2. QED
      BY <2>1, <3>1, Zenon
  <2>4. QED
    BY <2>1, <2>2, <2>3
<1>9. job'[p].at = "writing" =>
        job'[p].summary[1].named \in BOOLEAN /\ IsText(job'[p].summary[1].text)
  <2>1. PICK row : row = FoldRow(p, named, text)
    OBVIOUS
  <2>2. row.text = text /\ row.named \in BOOLEAN
    BY <2>1 DEF FoldRow
  <2>3. <<row>>[1] = row
    OBVIOUS
  <2>4. QED
    BY <1>6, <1>8, <2>1, <2>2, <2>3, Zenon
<1>10. summaries' = summaries /\ LiveSummaries(p[1]) \subseteq DOMAIN summaries
       /\ Len(summaries) \in Nat
  BY FoldIs, LenProperties DEF LiveSummaries, SummariesShape
<1>11. /\ job[p].existing \subseteq Ids /\ job[p].wrote \subseteq Ids
       /\ job[p].retiring \subseteq Ids /\ job[p].evicted \subseteq Turns
       /\ job[p].replaces \subseteq DOMAIN summaries
  BY DEF JobTyped
<1>12. /\ job'[p].existing \subseteq Ids /\ job'[p].wrote \subseteq Ids
       /\ job'[p].retiring \subseteq Ids /\ job'[p].evicted \subseteq Turns
       /\ job'[p].replaces \subseteq DOMAIN summaries' /\ job'[p].at \in Steps
       /\ job'[p].previous \in 0..Len(summaries')
  BY <1>7, <1>8, <1>10, <1>11 DEF Steps, Consolidating
<1>13. QED
  BY <1>9, <1>12 DEF JobTyped

\* The window's tables, the flags and the count of failures.
LEMMA WindowStep ==
    ASSUME WindowTyped, overlapped' \in BOOLEAN, returned' \in BOOLEAN, failures \in Nat,
           [Next]_vars
    PROVE  WindowTyped'
<1>1. table' \in [Turns -> RowStates]
  <2>1. table' = table \/ \E p \in Processes : table' = [table EXCEPT ![p[1]] = Outcome(p)]
    BY TableSteps
  <2>2. \A p \in Processes : Outcome(p) \in RowStates
    BY DEF Outcome, RowStates
  <2>3. QED
    BY <2>1, <2>2 DEF WindowTyped
<1>2. promoted' \in [Turns -> Turns \cup {0}]
  <2>1. promoted' = promoted \/ \E p \in Processes : promoted' = Marked(p)
    BY PromotedSteps
  <2>2. \A p \in Processes : p[1] \in Turns
    BY DEF Processes
  <2>3. QED
    BY <2>1, <2>2 DEF WindowTyped, Marked
<1>3. filed' \subseteq Turns
  <2>1. ASSUME NEW t \in Turns, Handle(t) \/ Resume(t) PROVE filed' = filed
    BY <2>1 DEF Handle, Resume, Starts, windowVars
  <2>2. ASSUME NEW t \in Turns, FilePause(t) PROVE filed' = filed \cup {t}
    BY <2>2 DEF FilePause
  <2>3. ASSUME NEW p \in Processes, Consolidate(p) PROVE filed' = filed
    <3>1. CASE Fold(p)
      BY <3>1, FoldIs
    <3>2. CASE ReadEvicted(p) \/ ReadExisting(p) \/ Judge(p) \/ ReadPrevious(p)
      BY <3>2, Zenon DEF ReadEvicted, ReadExisting, Judge, ReadPrevious, windowVars
    <3>3. CASE \/ WriteSummary(p) \/ Retire(p) \/ RetirePoints(p)
               \/ IndexWritten(p) \/ MarkPromoted(p)
      BY <3>3 DEF WriteSummary, Retire, RetirePoints, IndexWritten, MarkPromoted, windowVars
    <3>4. QED
      BY <2>3, <3>1, <3>2, <3>3 DEF Consolidate
  <2>4. ASSUME NEW p \in Processes, RecordTurn(p) \/ Raise(p) \/ Die(p) PROVE filed' = filed
    BY <2>4 DEF RecordTurn, Raise, Die, windowVars
  <2>5. ASSUME UNCHANGED vars PROVE filed' = filed
    BY <2>5 DEF vars, windowVars
  <2>6. filed' = filed \/ \E t \in Turns : filed' = filed \cup {t}
    BY <2>1, <2>2, <2>3, <2>4, <2>5 DEF Next
  <2>7. filed \subseteq Turns
    BY DEF WindowTyped
  <2>8. QED
    BY <2>6, <2>7
<1>4. failures' \in 0..MaxFailures
  <2>1. failures' = failures \/ (failures < MaxFailures /\ failures' = failures + 1)
    <3> DEFINE Counted == failures' = failures \/ (failures < MaxFailures /\ failures' = failures + 1)
    <3>1. ASSUME NEW t \in Turns, Handle(t) \/ Resume(t) \/ FilePause(t) PROVE Counted
      BY <3>1 DEF Handle, Resume, FilePause, Starts, history
    <3>2. Failing \/ UNCHANGED history => Counted
      BY DEF Failing, history
    <3>3. ASSUME NEW p \in Processes,
                 ReadEvicted(p) \/ RetirePoints(p) \/ IndexWritten(p) \/ MarkPromoted(p)
                 \/ RecordTurn(p) \/ Raise(p) \/ Die(p)
          PROVE  Counted
      BY <3>2, <3>3, Zenon DEF ReadEvicted, RetirePoints, IndexWritten, MarkPromoted,
                               RecordTurn, Raise, Die, Calm
    <3>4. ASSUME NEW p \in Processes,
                 ReadExisting(p) \/ ReadPrevious(p) \/ WriteSummary(p) \/ Retire(p)
          PROVE  Counted
      BY <3>4 DEF ReadExisting, ReadPrevious, WriteSummary, Retire, history
    <3>5. ASSUME NEW p \in Processes, Judge(p) \/ Fold(p) PROVE Counted
      BY <3>5, FoldIs, Zenon DEF Judge
    <3>6. CASE UNCHANGED vars
      BY <3>6 DEF vars, history
    <3>7. QED
      BY <3>1, <3>3, <3>4, <3>5, <3>6 DEF Next, Consolidate
  <2>2. MaxFailures \in Nat
    BY SizesOf
  <2>3. QED
    BY <2>1, <2>2 DEF WindowTyped
<1>5. spilled' \subseteq Clarified
  <2>1. spilled' = spilled \/ \E p \in Processes : Fold(p)
    BY SpillingSteps
  <2>2. ASSUME NEW p \in Processes, Fold(p) PROVE spilled' \subseteq spilled \cup Clarified
    <3>1. PICK named, other, text : FoldCase(p, named, other, text)
      BY <2>2, FoldIs
    <3>2. PICK more : more = Spilled(FoldMerged(p, named), FoldItems(p, named), text)
      OBVIOUS
    <3>3. spilled' = spilled \cup more
      BY <3>1, <3>2, Zenon DEF FoldCase
    <3>4. more \subseteq Clarified
      BY <3>2 DEF Spilled
    <3>5. QED
      BY <3>3, <3>4
  <2>3. QED
    BY <2>1, <2>2 DEF WindowTyped
<1>6. QED
  BY <1>1, <1>2, <1>3, <1>4, <1>5 DEF WindowTyped

\* A step of one process leaves the shape of the others.
LEMMA OneTyped ==
    ASSUME NEW p \in Processes, Others(p), JobTyped(p)', \A q \in Processes : JobTyped(q),
           SummariesShape, SummariesShape', Grown
    PROVE  \A q \in Processes : JobTyped(q)'
<1>1. ASSUME NEW q \in Processes, q # p PROVE JobTyped(q)'
  <2>1. job'[q] = job[q] /\ JobTyped(q)
    BY <1>1 DEF Others
  <2>2. 0..Len(summaries) \subseteq 0..Len(summaries') /\ DOMAIN summaries \subseteq DOMAIN summaries'
    <3>1. /\ Len(summaries) \in Nat /\ DOMAIN summaries = 1..Len(summaries)
          /\ Len(summaries') \in Nat /\ DOMAIN summaries' = 1..Len(summaries')
      BY LenProperties DEF SummariesShape
    <3>2. Len(summaries) <= Len(summaries')
      BY DEF Grown
    <3>3. QED
      BY <3>1, <3>2
  <2>3. QED
    BY <2>1, <2>2 DEF JobTyped
<1>2. QED
  BY <1>1

LEMMA SameRows ==
    ASSUME SummariesShape, SummariesTyped, summaries' = summaries
    PROVE  SummariesShape' /\ SummariesTyped' /\ Grown
<1>1. SummariesShape'
  BY DEF SummariesShape, IsSummary, SummaryFields
<1>2. SummariesTyped'
  BY DEF SummariesTyped, RowTyped
<1>3. Grown
  <2>1. Len(summaries) \in Nat
    BY LenProperties DEF SummariesShape
  <2>2. QED
    BY <2>1 DEF Grown, SameSummary
<1>4. QED
  BY <1>1, <1>2, <1>3

LEMMA WrittenRows ==
    ASSUME JobShape, NEW p \in Processes, SummaryInv, SummariesTyped, JobTyped(p),
           WriteSummary(p)
    PROVE  SummariesShape' /\ SummariesTyped' /\ Grown
<1> DEFINE row == job[p].summary[1]
           n == Len(summaries) + 1
<1>1. job[p].at = "writing" /\ SummariesShape /\ p[1] \in Turns
  BY DEF WriteSummary, Moves, SummaryInv, Processes
<1>2. /\ row.run = p[1] /\ row.live /\ row.links = job[p].evicted /\ IsSummary(row)
      /\ SummariesShape' /\ Grown /\ Len(summaries') = n /\ summaries'[n] = row
      /\ \A i \in 1..Len(summaries) : summaries'[i] = summaries[i]
  BY WritingFacts
<1>3. row.named \in BOOLEAN /\ IsText(row.text)
  BY <1>1 DEF JobTyped
<1>4. /\ Len(summaries) \in Nat /\ n = Len(summaries) + 1
      /\ DOMAIN summaries = 1..Len(summaries) /\ DOMAIN summaries' = 1..n
  BY <1>1, <1>2, LenProperties DEF SummariesShape
<1> HIDE DEF n, row
<1>5. RowTyped(row)
  BY <1>1, <1>2, <1>3 DEF RowTyped, JobTyped, IsSummary
<1>6. \A i \in 1..n : i \in 1..Len(summaries) \/ i = n
  BY <1>4
<1>7. \A i \in 1..n : RowTyped(summaries'[i])
  BY <1>2, <1>4, <1>5, <1>6 DEF SummariesTyped
<1>8. QED
  BY <1>2, <1>4, <1>7 DEF SummariesTyped, RowTyped

LEMMA RetiredRows ==
    ASSUME SummariesShape, SummariesTyped, NEW p, Retire(p)
    PROVE  /\ SummariesShape' /\ SummariesTyped' /\ Grown
           /\ DOMAIN summaries' = DOMAIN summaries
<1>1. PICK gone :
        summaries' = [i \in DOMAIN summaries |->
                        [summaries[i] EXCEPT !.live = @ /\ i \notin gone]]
  BY DEF Retire
<1>2. SummariesShape' /\ Grown /\ DOMAIN summaries' = DOMAIN summaries
  BY <1>1, RetireFacts
<1>3. ASSUME NEW i \in DOMAIN summaries PROVE RowTyped(summaries'[i])
  <2>1. RowTyped(summaries[i])
    BY DEF SummariesTyped
  <2>2. SameSummary(summaries[i], summaries'[i]) /\ IsSummary(summaries'[i])
    BY <1>2 DEF Grown, SummariesShape
  <2>3. QED
    BY <2>1, <2>2 DEF RowTyped, SameSummary, IsSummary
<1>4. QED
  BY <1>2, <1>3 DEF SummariesTyped, RowTyped

LEMMA TypedStep ==
    ASSUME NEW p \in Processes, Others(p), JobTyped(p)', \A q \in Processes : JobTyped(q),
           SummariesShape, SummariesShape', SummariesTyped', Grown,
           live' \subseteq Ids, searchable' \subseteq Ids, WindowTyped'
    PROVE  TypeInv'
<1>1. \A q \in Processes : JobTyped(q)'
  BY OneTyped
<1>2. QED
  BY <1>1 DEF TypeInv, TypeOK, SummariesTyped, RowTyped, WindowTyped, JobTyped

LEMMA TypeInitially == Init => TypeInv
<1> SUFFICES ASSUME Init PROVE TypeInv
  OBVIOUS
<1>1. live \subseteq Ids
  <2>1. ASSUME NEW id \in live PROVE id \in Ids
    <3>1. live \in Held
      BY DEF Init
    <3>2. id \in [kind : ProposableKinds, key : Keys, text : Texts, owner : {id.owner}]
      BY <3>1, HeldAssumption
    <3>3. id \in UNION Held
      BY <3>1
    <3>4. QED
      BY <3>2, <3>3 DEF Ids
  <2>2. QED
    BY <2>1
<1>2. StoresTyped
  BY <1>1 DEF StoresTyped, Init
<1>3. SummariesTyped
  BY DEF SummariesTyped, Init
<1>4. WindowTyped
  <2>1. /\ table = [t \in Turns |-> "absent"] /\ promoted = [t \in Turns |-> 0] /\ filed = {}
    BY DEF Init
  <2>2. overlapped = FALSE /\ returned = FALSE /\ failures = 0
    BY DEF Init
  <2>3. table \in [Turns -> RowStates] /\ promoted \in [Turns -> Turns \cup {0}]
    BY <2>1 DEF RowStates
  <2>4. failures \in 0..MaxFailures
    BY <2>2, SizesOf
  <2>5. {overlapped, returned} \subseteq BOOLEAN
    BY <2>2
  <2>6. spilled = {}
    BY DEF Init
  <2>7. QED
    BY <2>1, <2>3, <2>4, <2>5, <2>6 DEF WindowTyped
<1>5. ASSUME NEW p \in Processes PROVE JobTyped(p)
  <2>1. job[p] = Idle /\ summaries = <<>>
    BY DEF Init
  <2>2. /\ job[p].at = "idle" /\ job[p].existing = {} /\ job[p].wrote = {}
        /\ job[p].retiring = {} /\ job[p].evicted = {} /\ job[p].previous = 0
        /\ job[p].replaces = {}
    BY <2>1 DEF Idle
  <2>3. Len(summaries) = 0
    BY <2>1
  <2>4. QED
    BY <2>2, <2>3 DEF JobTyped, Steps, Resting
<1>6. QED
  BY <1>2, <1>3, <1>4, <1>5, TypeParts

\* The inductive invariant of the shapes: the row that is about to be written
\* has the shape of those that were.
THEOREM TypeInvariant == Spec => []TypeInv
<1>1. TypeInv /\ RecordsInv /\ KeysInv' /\ SummaryInv /\ FoldedInv /\ WindowInv /\ [Next]_vars
        => TypeInv'
  <2> SUFFICES ASSUME TypeInv, RecordsInv, KeysInv', SummaryInv, FoldedInv, WindowInv,
                      [Next]_vars
               PROVE  TypeInv'
    OBVIOUS
  <2>1. /\ StoresTyped /\ SummariesTyped /\ WindowTyped /\ \A q \in Processes : JobTyped(q)
        /\ JobShape /\ SummariesShape
    BY TypeParts DEF RecordsInv, SummaryInv
  <2>2. WindowTyped'
    <3>1. overlapped' \in BOOLEAN /\ returned' \in BOOLEAN /\ failures \in Nat
      BY DEF KeysInv, RecordsInv
    <3>2. QED
      BY <2>1, <3>1, WindowStep
  <2>3. ASSUME summaries' = summaries PROVE SummariesShape' /\ SummariesTyped' /\ Grown
    BY <2>1, <2>3, SameRows
  <2>4. ASSUME NEW p \in Processes, NEW from, NEW to \in Steps \ {"writing"},
               Moves(p, from, to), summaries' = summaries,
               live' \subseteq Ids, searchable' \subseteq Ids
        PROVE  TypeInv'
    <3>1. JobTyped(p)' /\ Others(p)
      BY <2>1, <2>3, <2>4, MovedTyped, MovedBatch
    <3>2. QED
      BY <2>1, <2>2, <2>3, <2>4, <3>1, TypedStep
  <2>5. ASSUME NEW t \in Turns, Handle(t) \/ Resume(t) \/ FilePause(t) PROVE TypeInv'
    <3>1. PICK p \in Processes, from \in {"idle", "paused"},
               to \in {"ended", "paused", "recording"} :
            Moves(p, from, to)
      BY <2>5 DEF Handle, Resume, FilePause, Starts, Processes
    <3>2. summaries' = summaries /\ live' = live /\ searchable' = searchable
      BY <2>5 DEF Handle, Resume, FilePause, Starts, storeVars
    <3>3. QED
      BY <2>1, <2>4, <3>1, <3>2 DEF Steps, StoresTyped
  <2>6. ASSUME NEW p \in Processes, RetirePoints(p) \/ IndexWritten(p) PROVE TypeInv'
    <3>1. \/ Moves(p, "unindexing", "indexing")
          \/ Moves(p, "indexing", "marking")
      BY <2>6 DEF RetirePoints, IndexWritten
    <3>2. summaries' = summaries /\ live' = live
          /\ \/ searchable' \subseteq searchable
             \/ searchable' = searchable \cup job[p].wrote
      BY <2>6 DEF RetirePoints, IndexWritten
    <3>3. job[p].wrote \subseteq Ids
      BY <2>1 DEF JobTyped
    <3>4. QED
      BY <2>1, <2>4, <3>1, <3>2, <3>3 DEF Steps, StoresTyped
  <2>7. ASSUME NEW p \in Processes, WriteSummary(p) PROVE TypeInv'
    <3>1. SummariesShape' /\ SummariesTyped' /\ Grown
      BY <2>1, <2>7, WrittenRows
    <3>2. Moves(p, "writing", "retiring") /\ live' = live /\ searchable' = searchable
      BY <2>7 DEF WriteSummary
    <3>3. "retiring" \in Steps \ {"writing"}
      BY DEF Steps, Consolidating
    <3>4. JobTyped(p)' /\ Others(p)
      BY <2>1, <3>1, <3>2, <3>3, MovedTyped, MovedBatch
    <3>5. QED
      BY <2>1, <2>2, <3>1, <3>2, <3>4, TypedStep DEF StoresTyped
  <2>8. ASSUME NEW p \in Processes, MarkPromoted(p) \/ RecordTurn(p) \/ Raise(p) \/ Die(p)
        PROVE  TypeInv'
    <3>1. PICK to \in {"recording", "done", "dead"} :
            job' = [job EXCEPT ![p] = [Idle EXCEPT !.at = to]]
      BY <2>8 DEF MarkPromoted, RecordTurn, Raise, Die
    <3>2. summaries' = summaries /\ live' = live /\ searchable' = searchable
      BY <2>8 DEF MarkPromoted, RecordTurn, Raise, Die, storeVars
    <3>3. to \in Steps \ {"writing"}
      BY DEF Steps, Resting
    <3>4. JobTyped(p)' /\ Others(p)
      BY <2>1, <2>3, <3>1, <3>2, <3>3, ResetTyped, ResetBatch
    <3>5. QED
      BY <2>1, <2>2, <2>3, <3>2, <3>4, TypedStep DEF StoresTyped
  <2>9. ASSUME NEW p \in Processes, ReadEvicted(p) \/ ReadExisting(p) \/ ReadPrevious(p)
        PROVE  TypeInv'
    <3>1. summaries' = summaries /\ live' = live /\ searchable' = searchable
      BY <2>9 DEF ReadEvicted, ReadExisting, ReadPrevious, storeVars
    <3>2. JobTyped(p)' /\ Others(p)
      BY <2>1, <2>9, EvictedTyped, ReadExistingTyped, PreviousTyped, EvictedBatch,
         ReadExistingBatch, PreviousBatch
    <3>3. QED
      BY <2>1, <2>2, <2>3, <3>1, <3>2, TypedStep DEF StoresTyped
  <2>10. ASSUME NEW p \in Processes, Judge(p) PROVE TypeInv'
    <3>1. summaries' = summaries /\ searchable' = searchable
      BY <2>10 DEF Judge
    <3>2. JobTyped(p)' /\ live' \subseteq Ids /\ Others(p)
      BY <2>1, <2>10, JudgeTyped, JudgeBatch DEF RecordsInv
    <3>3. QED
      BY <2>1, <2>2, <2>3, <3>1, <3>2, TypedStep DEF StoresTyped
  <2>11. ASSUME NEW p \in Processes, Fold(p) PROVE TypeInv'
    <3>1. /\ summaries' = summaries /\ live' = live /\ searchable' = searchable
          /\ job[p].at = "folding"
      BY <2>11, FoldIs
    <3>2. IsFiniteSet(job[p].evicted)
      BY BatchIsFinite
    <3>3. job[p].evicted # {}
      BY <3>1 DEF SummaryInv, BatchInv
    <3>4. JobTyped(p)' /\ Others(p)
      BY <2>1, <2>11, <3>2, <3>3, FoldTyped, FoldShape
    <3>5. QED
      BY <2>1, <2>2, <2>3, <3>1, <3>4, TypedStep DEF StoresTyped
  <2>12. ASSUME NEW p \in Processes, Retire(p) PROVE TypeInv'
    <3>1. live' \subseteq live /\ searchable' = searchable
      BY <2>12 DEF Retire, Superseded
    <3>2. SummariesShape' /\ SummariesTyped' /\ Grown
      BY <2>1, <2>12, RetiredRows
    <3>3. JobTyped(p)' /\ Others(p)
      BY <2>1, <2>12, RetireTyped, RetireBatch
    <3>4. QED
      BY <2>1, <2>2, <3>1, <3>2, <3>3, TypedStep DEF StoresTyped
  <2>13. CASE UNCHANGED vars
    <3>1. /\ summaries' = summaries /\ live' = live /\ searchable' = searchable
          /\ job' = job
      BY <2>13 DEF vars, storeVars
    <3>2. \A q \in Processes : JobTyped(q)'
      BY <2>1, <3>1 DEF JobTyped
    <3>3. QED
      BY <2>1, <2>2, <2>3, <3>1, <3>2
         DEF TypeInv, TypeOK, StoresTyped, SummariesTyped, RowTyped, WindowTyped, JobTyped
  <2>14. QED
    BY <2>5, <2>6, <2>7, <2>8, <2>9, <2>10, <2>11, <2>12, <2>13 DEF Next, Consolidate
<1>2. QED
  BY TypeInitially, <1>1, RecordsInvariant, KeysInvariant, SummaryInvariant, FoldedInvariant,
     WindowInvariant, PTL DEF Spec

\* The stores and what every process holds have the shape they are declared to
\* have; a section of a summary never holds what may not be quoted, unless it is
\* what a cut has left, or more than its cap.
THEOREM TypeCorrect == Spec => []TypeOK
<1>1. TypeInv => TypeOK
  BY DEF TypeInv
<1>2. QED
  BY <1>1, TypeInvariant, PTL

(***************************************************************************)
(* No question is lost.                                                    *)
(***************************************************************************)
LEMMA CarriedFacts ==
    ASSUME SummariesShape, NEW t \in Turns, NewestSummary(t) # 0
    PROVE  NewestSummary(t) \in DOMAIN summaries
<1>1. DOMAIN summaries = 1..Len(summaries)
  BY LenProperties DEF SummariesShape
<1>2. QED
  BY <1>1, NewestFacts

\* The turns of a session see the same summaries.
LEMMA SameSession ==
    ASSUME NEW t \in Turns, NEW u \in SessionOf(t)
    PROVE  /\ SessionOf(u) = SessionOf(t) /\ NewestSummary(u) = NewestSummary(t)
           /\ CarriedItems(u) = CarriedItems(t) /\ Told(u) = Told(t)
<1>1. u \in Turns /\ ScopeOf[u].session = ScopeOf[t].session
  BY DEF SessionOf
<1>2. SessionOf(u) = SessionOf(t)
  BY <1>1 DEF SessionOf
<1>3. NewestSummary(u) = NewestSummary(t)
  BY <1>1, NewestOfSession
<1>4. QED
  BY <1>2, <1>3 DEF CarriedItems, Told

\* What a question gave way to stays on record.
LEMMA GoneStays ==
    ASSUME SummariesShape, Grown, spilled \subseteq spilled', NEW u, GaveWay(u)
    PROVE  GaveWay(u)'
<1>1. /\ Told(u) \subseteq Told(u)'
      /\ \A i \in Told(u) : summaries'[i].text = summaries[i].text
  BY ToldGrows
<1>2. CASE u \in spilled
  BY <1>2 DEF GaveWay
<1>3. ASSUME NEW i \in Told(u), Misread(u, summaries[i].text) PROVE GaveWay(u)'
  <2>1. i \in Told(u)' /\ Misread(u, summaries'[i].text)
    BY <1>1, <1>3
  <2>2. QED
    BY <2>1 DEF GaveWay
<1>4. QED
  BY <1>2, <1>3 DEF GaveWay

\* As long as nothing overlaps, the others hold nothing to be covered.
LEMMA OneCovers ==
    ASSUME NEW p \in Processes, Undisturbed(p), NothingPromotedIsLost',
           ~overlapped' => CoverInv(p)'
    PROVE  NothingPromotedIsLost' /\ \A q \in Processes : CoverInv(q)'
<1>1. ASSUME NEW q \in Processes, q # p, ~overlapped' PROVE CoverInv(q)'
  <2>1. job'[q].at \in Resting
    BY <1>1 DEF Undisturbed, Others
  <2>2. QED
    BY <2>1 DEF CoverInv, Resting, Settling
<1>2. \A q \in Processes : overlapped' => CoverInv(q)'
  BY DEF CoverInv
<1>3. QED
  BY <1>1, <1>2

\* A step that changes nothing of what a session is told.
Steady ==
    /\ SummariesShape /\ Grown /\ spilled \subseteq spilled'
    /\ ~overlapped => \A t \in Turns : CarriedItems(t)' = CarriedItems(t)

Standing == summaries' = summaries /\ promoted' = promoted /\ spilled \subseteq spilled'

LEMMA StandingViews ==
    ASSUME summaries' = summaries, SummariesShape, spilled \subseteq spilled'
    PROVE  Steady
<1>1. ASSUME NEW t \in Turns PROVE CarriedItems(t)' = CarriedItems(t)
  <2>1. LiveSummaries(t)' = LiveSummaries(t)
    BY DEF LiveSummaries
  <2>2. NewestSummary(t)' = NewestSummary(t)
    BY <2>1 DEF NewestSummary
  <2>3. QED
    BY <2>2 DEF CarriedItems
<1>2. Len(summaries) \in Nat
  BY LenProperties DEF SummariesShape
<1>3. Grown
  BY <1>2 DEF Grown, SameSummary
<1>4. QED
  BY <1>1, <1>3 DEF Steady

LEMMA SteadyKeeps ==
    ASSUME Steady, ~overlapped, NEW t \in Turns, NEW u, Kept(u, CarriedItems(t))
    PROVE  Kept(u, CarriedItems(t))'
<1>1. CarriedItems(t)' = CarriedItems(t)
  BY DEF Steady
<1>2. GaveWay(u) => GaveWay(u)'
  BY GoneStays DEF Steady
<1>3. QED
  BY <1>1, <1>2 DEF Kept

LEMMA SteadyStands ==
    ASSUME Steady, promoted' = promoted, ~overlapped' => ~overlapped, NothingPromotedIsLost
    PROVE  NothingPromotedIsLost'
<1>1. ASSUME ~overlapped', NEW u \in Clarified \ Unsafe, promoted'[u] # 0
      PROVE  Kept(u, CarriedItems(u))'
  <2>1. u \in Turns /\ Kept(u, CarriedItems(u))
    BY <1>1, SizesOf DEF NothingPromotedIsLost
  <2>2. QED
    BY <1>1, <2>1, SteadyKeeps
<1>2. QED
  BY <1>1 DEF NothingPromotedIsLost

\* A step that neither writes nor marks, and moves on with the batch it has.
LEMMA StandingCover ==
    ASSUME NEW p \in Processes, Undisturbed(p), Steady, promoted' = promoted,
           NothingPromotedIsLost, CoverInv(p),
           \/ job'[p].at \notin {"writing", "retiring"} \cup Settling
           \/ /\ job[p].at \in {"retiring"} \cup Settling
              /\ job'[p].at \in {"retiring"} \cup Settling
              /\ job'[p].evicted = job[p].evicted
           \/ job'[p].at = "retiring" /\ job'[p].evicted = {}
    PROVE  NothingPromotedIsLost' /\ \A q \in Processes : CoverInv(q)'
<1>1. NothingPromotedIsLost'
  BY SteadyStands DEF Undisturbed
<1>2. p[1] \in Turns
  BY DEF Processes
<1>3. ASSUME ~overlapped' PROVE CoverInv(p)'
  <2>1. ~overlapped
    BY <1>3 DEF Undisturbed
  <2>2. CASE job'[p].at \notin {"writing", "retiring"} \cup Settling
    BY <2>2 DEF CoverInv
  <2>3. CASE /\ job[p].at \in {"retiring"} \cup Settling
             /\ job'[p].at \in {"retiring"} \cup Settling
             /\ job'[p].evicted = job[p].evicted
    <3>1. ASSUME NEW u \in SessionOf(p[1]) \cap (Clarified \ Unsafe) \cap job[p].evicted
          PROVE  Kept(u, CarriedItems(p[1]))'
      <4>1. Kept(u, CarriedItems(p[1]))
        BY <2>1, <2>3, <3>1 DEF CoverInv
      <4>2. QED
        BY <1>2, <2>1, <4>1, SteadyKeeps
    <3>2. job'[p].at # "writing"
      BY <2>3 DEF Settling
    <3>3. QED
      BY <2>3, <3>1, <3>2 DEF CoverInv, SessionOf
  <2>4. CASE job'[p].at = "retiring" /\ job'[p].evicted = {}
    BY <2>4 DEF CoverInv, Settling
  <2>5. QED
    BY <2>2, <2>3, <2>4
<1>4. QED
  BY <1>1, <1>3, OneCovers

\* A question of the batch, or one the newest summary reads back with, is in the
\* row or spilled; one it does not read back with has given way.
LEMMA FoldCarries ==
    ASSUME NEW p \in Processes, JobTyped(p), SummariesShape, SummariesTyped, BatchInv(p),
           IsFiniteSet(job[p].evicted), NEW named, NEW other, NEW text, FoldCase(p, named, other, text),
           job[p].at = "folding", job[p].previous = NewestSummary(p[1]),
           NEW u \in SessionOf(p[1]) \cap (Clarified \ Unsafe),
           u \in job[p].evicted \/ Kept(u, CarriedItems(p[1]))
    PROVE  \/ GaveWay(u) \/ u \in spilled'
           \/ u \in ToSet(FoldItems(p, named)) /\ u \in ToSet(text.items)
<1> DEFINE merged == FoldMerged(p, named)
<1>1. PICK T : Carried(p).items \in Seq(T)
  BY CarriedIsRead
<1>2. PICK R : /\ merged \in Seq(R)
               /\ (job[p].evicted \cap Clarified) \cup ToSet(Carried(p).items) \subseteq ToSet(merged)
  <2>1. job[p].evicted \in SUBSET Turns /\ named.asked \in Seq(Sayings)
    BY AskedSayings DEF JobTyped
  <2>2. QED
    BY <1>1, <2>1, MergedHolds DEF FoldMerged
<1>3. spilled' = spilled \cup Spilled(merged, Safe(Capped(merged)), text)
  BY Zenon DEF FoldCase, FoldItems
<1>4. FoldItems(p, named) = Safe(Capped(merged))
  BY DEF FoldItems
<1> HIDE DEF merged
<1>5. ASSUME u \in ToSet(merged)
      PROVE  u \in spilled' \/ (u \in ToSet(FoldItems(p, named)) /\ u \in ToSet(text.items))
  <2>1. \/ u \in Spilled(merged, Safe(Capped(merged)), text)
        \/ u \in ToSet(Safe(Capped(merged))) /\ u \in ToSet(text.items)
    BY <1>2, <1>5, FoldShows
  <2>2. QED
    BY <1>3, <1>4, <2>1
<1>6. CASE u \in job[p].evicted
  BY <1>2, <1>5, <1>6
<1>7. CASE GaveWay(u)
  BY <1>7
<1>8. CASE u \in ToSet(CarriedItems(p[1]))
  <2>1. job[p].previous # 0 /\ u \in ToSet(summaries[job[p].previous].text.items)
    <3>1. ToSet(<<>>) = {}
      BY DEF ToSet
    <3>2. QED
      BY <1>8, <3>1 DEF CarriedItems
  <2>2. job[p].previous \in Told(u)
    <3>1. job[p].previous \in Told(p[1]) /\ p[1] \in Turns
      BY <2>1 DEF BatchInv, Processes
    <3>2. QED
      BY <3>1, SameSession
  <2>3. Carried(p) = ParseSummary(summaries[job[p].previous].text)
    BY <2>1 DEF Carried
  <2>4. CASE u \in ToSet(Carried(p).items)
    BY <1>2, <1>5, <2>4
  <2>5. CASE u \notin ToSet(Carried(p).items)
    <3>1. Misread(u, summaries[job[p].previous].text)
      BY <2>1, <2>3, <2>5 DEF Misread
    <3>2. QED
      BY <2>2, <3>1 DEF GaveWay
  <2>6. QED
    BY <2>4, <2>5
<1>9. QED
  BY <1>6, <1>7, <1>8 DEF Kept

\* A batch that is folded is held by the row, with all that was held before it,
\* or has given way.
LEMMA FoldCover ==
    ASSUME NEW p \in Processes, Undisturbed(p), NothingPromotedIsLost, JobShape, JobTyped(p),
           IsFiniteSet(job[p].evicted), SummariesShape, SummariesTyped, BatchInv(p),
           GoalInv(p), Fold(p)
    PROVE  NothingPromotedIsLost' /\ \A q \in Processes : CoverInv(q)'
<1>1. PICK named, other, text : FoldCase(p, named, other, text)
  BY FoldIs
<1>2. /\ job[p].at = "folding" /\ p[1] \in Turns
      /\ summaries' = summaries /\ promoted' = promoted
  BY FoldIs DEF Processes
<1>3. spilled \subseteq spilled'
  <2>1. PICK more : spilled' = spilled \cup more
    BY <1>1, Zenon DEF FoldCase
  <2>2. QED
    BY <2>1
<1>4. Steady
  BY <1>2, <1>3, StandingViews
<1>5. NothingPromotedIsLost'
  BY <1>2, <1>4, SteadyStands DEF Undisturbed
<1>6. job'[p].at \in {"retiring", "writing"} /\ job'[p].evicted = job[p].evicted
  BY FoldShape
<1>7. ASSUME ~overlapped' PROVE CoverInv(p)'
  <2>1. ~overlapped /\ job[p].previous = NewestSummary(p[1])
    BY <1>2, <1>7 DEF Undisturbed, GoalInv
  <2>2. ASSUME NEW u \in SessionOf(p[1]) \cap (Clarified \ Unsafe),
               promoted[u] # 0 \/ u \in job[p].evicted
        PROVE  \/ GaveWay(u)'
               \/ u \in ToSet(FoldItems(p, named)) /\ u \in ToSet(text.items)
    <3>1. promoted[u] # 0 => Kept(u, CarriedItems(p[1]))
      <4>1. CarriedItems(u) = CarriedItems(p[1])
        BY <1>2, SameSession
      <4>2. QED
        BY <2>1, <4>1 DEF NothingPromotedIsLost
    <3>2. \/ GaveWay(u) \/ u \in spilled'
          \/ u \in ToSet(FoldItems(p, named)) /\ u \in ToSet(text.items)
      BY <1>1, <1>2, <2>1, <2>2, <3>1, FoldCarries
    <3>3. GaveWay(u) => GaveWay(u)'
      BY <1>4, GoneStays DEF Steady
    <3>4. u \in spilled' => GaveWay(u)'
      BY DEF GaveWay
    <3>5. QED
      BY <3>2, <3>3, <3>4
  <2>3. CASE SaysNothing(p, named, other)
    <3>1. job' = [job EXCEPT ![p].at = "retiring", ![p].previous = 0]
      BY <1>1, <2>3, Zenon DEF FoldCase
    <3>2. job'[p].at = "retiring"
      BY <3>1 DEF JobShape, Fields, Idle
    <3>3. ToSet(FoldItems(p, named)) = {}
      BY <2>3 DEF SaysNothing, ToSet
    <3>4. ASSUME NEW u \in SessionOf(p[1]) \cap (Clarified \ Unsafe) \cap job[p].evicted
          PROVE  GaveWay(u)'
      BY <2>2, <3>3
    <3>5. QED
      BY <1>6, <3>2, <3>4 DEF CoverInv, SessionOf, Kept
  <2>4. CASE ~SaysNothing(p, named, other)
    <3>1. PICK rows, replaced :
            /\ rows = <<FoldRow(p, named, text)>>
            /\ job' = [job EXCEPT ![p].at = "writing", ![p].previous = 0,
                                  ![p].summary = rows, ![p].replaces = replaced]
      BY <1>1, <2>4, Zenon DEF FoldCase
    <3>2. job'[p].at = "writing" /\ job'[p].summary = rows
      BY <3>1 DEF JobShape, Fields, Idle
    <3>3. rows[1].text = text
      BY <3>1 DEF FoldRow
    <3>4. job'[p].summary[1].text.items = text.items
      BY <3>2, <3>3, Zenon
    <3>5. ASSUME NEW u \in SessionOf(p[1]) \cap (Clarified \ Unsafe),
                 promoted'[u] # 0 \/ u \in job'[p].evicted
          PROVE  u \in ToSet(job'[p].summary[1].text.items) \/ GaveWay(u)'
      BY <1>2, <1>6, <2>2, <3>4, <3>5
    <3>6. QED
      BY <3>2, <3>5 DEF CoverInv, SessionOf, Settling, Kept
  <2>5. QED
    BY <2>3, <2>4
<1>8. QED
  BY <1>5, <1>7, OneCovers

\* The row that is written becomes the one its session's turns are held by.
LEMMA WriteCover ==
    ASSUME NEW p \in Processes, Undisturbed(p), NothingPromotedIsLost, CoverInv(p), JobShape,
           SummaryInv, WriteSummary(p)
    PROVE  NothingPromotedIsLost' /\ \A q \in Processes : CoverInv(q)'
<1> DEFINE row == job[p].summary[1]
           n == Len(summaries) + 1
           session == SessionOf(p[1])
<1>1. /\ job[p].at = "writing" /\ job'[p].at = "retiring" /\ job'[p].evicted = job[p].evicted
      /\ promoted' = promoted /\ p[1] \in Turns /\ SummariesShape /\ spilled' = spilled
      /\ job[p].evicted \subseteq session
  <2>1. Moves(p, "writing", "retiring") /\ promoted' = promoted /\ spilled' = spilled
    BY DEF WriteSummary, windowVars, history
  <2>2. job[p].at = "writing" /\ job'[p].at = "retiring" /\ SameBatch(p)
    BY <2>1, MovedBatch
  <2>3. p[1] \in Turns /\ SummariesShape /\ job[p].evicted \subseteq session
    BY DEF Processes, SummaryInv, BatchInv
  <2>4. QED
    BY <2>1, <2>2, <2>3 DEF SameBatch
<1>2. /\ SummariesShape' /\ Len(summaries') = n /\ summaries'[n] = row /\ Grown
      /\ \A i \in 1..Len(summaries) : summaries'[i] = summaries[i]
      /\ \A t \in Turns :
            IF ScopeOf[t].session = ScopeOf[p[1]].session
            THEN NewestSummary(t)' = n
            ELSE NewestSummary(t)' = NewestSummary(t)
  BY WritingFacts
<1>3. /\ Len(summaries) \in Nat /\ n = Len(summaries) + 1 /\ n # 0
      /\ DOMAIN summaries = 1..Len(summaries) /\ DOMAIN summaries' = 1..n
  BY <1>1, <1>2, LenProperties DEF SummariesShape
<1> HIDE DEF n, row
<1>4. \A u : GaveWay(u) => GaveWay(u)'
  BY <1>1, <1>2, GoneStays
<1>5. CarriedItems(p[1])' = row.text.items
  BY <1>1, <1>2, <1>3 DEF CarriedItems
<1>6. ASSUME ~overlapped', NEW u \in session \cap (Clarified \ Unsafe),
             promoted[u] # 0 \/ u \in job[p].evicted
      PROVE  Kept(u, CarriedItems(p[1]))'
  <2>1. Kept(u, row.text.items)
    BY <1>1, <1>6 DEF CoverInv, Undisturbed, row
  <2>2. QED
    BY <1>4, <1>5, <2>1 DEF Kept
<1>7. ASSUME ~overlapped', NEW u \in Clarified \ Unsafe, promoted'[u] # 0
      PROVE  Kept(u, CarriedItems(u))'
  <2>1. u \in Turns /\ promoted[u] # 0
    BY <1>1, <1>7, SizesOf
  <2>2. CASE u \in session
    <3>1. CarriedItems(u)' = CarriedItems(p[1])'
      BY <1>1, <1>2, <2>1, <2>2 DEF SessionOf, CarriedItems
    <3>2. Kept(u, CarriedItems(p[1]))'
      BY <1>6, <1>7, <2>1, <2>2
    <3>3. QED
      BY <3>1, <3>2 DEF Kept
  <2>3. CASE u \notin session
    <3>1. NewestSummary(u)' = NewestSummary(u)
      BY <1>1, <1>2, <2>1, <2>3 DEF SessionOf
    <3>2. NewestSummary(u) # 0 => NewestSummary(u) \in 1..Len(summaries)
      BY <1>1, <1>3, <2>1, CarriedFacts
    <3>3. CarriedItems(u)' = CarriedItems(u)
      BY <1>2, <3>1, <3>2 DEF CarriedItems
    <3>4. Kept(u, CarriedItems(u))
      BY <1>7, <2>1 DEF NothingPromotedIsLost, Undisturbed
    <3>5. QED
      BY <1>4, <3>3, <3>4 DEF Kept
  <2>4. QED
    BY <2>2, <2>3
<1>8. NothingPromotedIsLost'
  BY <1>7 DEF NothingPromotedIsLost
<1>9. ASSUME ~overlapped' PROVE CoverInv(p)'
  <2>1. ASSUME NEW u \in session \cap (Clarified \ Unsafe) \cap job'[p].evicted
        PROVE  Kept(u, CarriedItems(p[1]))'
    BY <1>1, <1>6, <1>9, <2>1
  <2>2. QED
    BY <1>1, <2>1 DEF CoverInv, SessionOf
<1>10. QED
  BY <1>8, <1>9, OneCovers

\* Retiring what was replaced leaves the newest, and all it holds.
LEMMA RetireCover ==
    ASSUME NEW p \in Processes, Undisturbed(p), NothingPromotedIsLost, CoverInv(p), JobShape,
           SummaryInv, Retire(p)
    PROVE  NothingPromotedIsLost' /\ \A q \in Processes : CoverInv(q)'
<1>1. /\ job[p].at = "retiring" /\ job'[p].at = "unindexing"
      /\ job'[p].evicted = job[p].evicted /\ SummariesShape
  BY RetireBatch DEF Retire, SummaryInv
<1>2. promoted' = promoted /\ spilled' = spilled
  BY DEF Retire, windowVars, history
<1>3. Grown
  BY RetiringFacts
<1>4. ASSUME ~overlapped, NEW t \in Turns PROVE CarriedItems(t)' = CarriedItems(t)
  <2>1. NewestSummary(t)' = NewestSummary(t)
    BY <1>4, RetiringFacts
  <2>2. NewestSummary(t) # 0 => NewestSummary(t) \in DOMAIN summaries
    BY <1>1, CarriedFacts
  <2>3. QED
    BY <1>3, <2>1, <2>2 DEF CarriedItems, Grown, SameSummary
<1>5. Steady
  BY <1>1, <1>2, <1>3, <1>4 DEF Steady
<1>6. job[p].at \in {"retiring"} \cup Settling /\ job'[p].at \in {"retiring"} \cup Settling
  BY <1>1 DEF Settling
<1>7. QED
  BY <1>1, <1>2, <1>5, <1>6, StandingCover

\* What is marked was held before it was.
LEMMA MarkCover ==
    ASSUME NEW p \in Processes, Undisturbed(p), NothingPromotedIsLost, CoverInv(p), JobShape,
           SummaryInv, MarkPromoted(p)
    PROVE  NothingPromotedIsLost' /\ \A q \in Processes : CoverInv(q)'
<1>1. /\ job[p].at = "marking" /\ summaries' = summaries /\ p[1] \in Turns /\ p[1] # 0
      /\ job' = [job EXCEPT ![p] = [Idle EXCEPT !.at = "recording"]]
      /\ SummariesShape /\ job[p].evicted \subseteq SessionOf(p[1])
  BY SizesOf
     DEF MarkPromoted, storeVars, Processes, SummaryInv, BatchInv
<1>2. spilled' = spilled
  BY DEF MarkPromoted, Calm, Failing, history
<1>3. Steady /\ job'[p].at = "recording"
  BY <1>1, <1>2, StandingViews, ResetBatch
<1>4. \A u \in Turns : promoted'[u] # 0 => promoted[u] # 0 \/ u \in job[p].evicted
  BY <1>1 DEF MarkPromoted
<1>5. ASSUME ~overlapped', NEW u \in Clarified \ Unsafe, promoted'[u] # 0
      PROVE  Kept(u, CarriedItems(u))'
  <2>1. u \in Turns /\ ~overlapped
    BY <1>5, SizesOf DEF Undisturbed
  <2>2. CASE promoted[u] # 0
    <3>1. Kept(u, CarriedItems(u))
      BY <1>5, <2>1, <2>2 DEF NothingPromotedIsLost
    <3>2. QED
      BY <1>3, <2>1, <3>1, SteadyKeeps
  <2>3. CASE u \in job[p].evicted
    <3>1. u \in SessionOf(p[1])
      BY <1>1, <2>3
    <3>2. Kept(u, CarriedItems(p[1]))
      BY <1>1, <1>5, <2>1, <2>3, <3>1 DEF CoverInv, Settling
    <3>3. CarriedItems(u) = CarriedItems(p[1])
      BY <1>1, <3>1, SameSession
    <3>4. Kept(u, CarriedItems(u))
      BY <3>2, <3>3
    <3>5. QED
      BY <1>3, <2>1, <3>4, SteadyKeeps
  <2>4. QED
    BY <1>4, <1>5, <2>1, <2>2, <2>3
<1>6. NothingPromotedIsLost'
  BY <1>5 DEF NothingPromotedIsLost
<1>7. CoverInv(p)'
  BY <1>3 DEF CoverInv, Settling
<1>8. QED
  BY <1>6, <1>7, OneCovers

\* The inductive invariant of the questions, over those of the records, of the
\* summary, of the window and of the shapes.
THEOREM QuestionsInvariant == Spec => []QuestionsInv
<1> DEFINE Covered == NothingPromotedIsLost /\ \A p \in Processes : CoverInv(p)
           Grounds == RecordsInv /\ SummaryInv /\ TypeInv /\ FoldedInv /\ WindowInv
<1>1. Init => Covered
  <2> SUFFICES ASSUME Init PROVE Covered
    OBVIOUS
  <2>1. promoted = [t \in Turns |-> 0] /\ \A p \in Processes : job[p] = Idle
    BY DEF Init
  <2>2. NothingPromotedIsLost
    BY <2>1, SizesOf DEF NothingPromotedIsLost
  <2>3. \A p \in Processes : job[p].at = "idle"
    BY <2>1 DEF Idle
  <2>4. \A p \in Processes : CoverInv(p)
    BY <2>3 DEF CoverInv, Settling
  <2>5. QED
    BY <2>2, <2>4
<1>2. Covered /\ Grounds /\ [Next]_vars => Covered'
  <2> SUFFICES ASSUME Covered, Grounds, [Next]_vars PROVE Covered'
    OBVIOUS
  <2>1. /\ NothingPromotedIsLost /\ \A p \in Processes : CoverInv(p)
        /\ RecordsInv /\ SummaryInv /\ TypeInv /\ FoldedInv /\ WindowInv
        /\ JobShape /\ SummariesShape /\ SummariesTyped
    BY TypeParts DEF RecordsInv, SummaryInv
  <2>0. Standing => Steady
    BY <2>1, StandingViews DEF Standing
  <2>2. ASSUME NEW t \in Turns, Handle(t) \/ Resume(t) PROVE Covered'
    <3>1. PICK p \in Processes, to \in {"ended", "paused"} : Starts(p, to)
      BY <2>2 DEF Handle, Resume, Processes
    <3>2. Moves(p, "idle", to) /\ Standing
      BY <3>1 DEF Starts, storeVars, windowVars, Standing
    <3>3. Others(p) /\ job'[p].at = to
      BY <2>1, <3>2, MovedBatch
    <3>4. Undisturbed(p)
      BY <2>1, <3>1, <3>3, StepsAreUndisturbed
    <3>5. job'[p].at \notin {"writing", "retiring"} \cup Settling
      BY <3>3 DEF Settling
    <3>6. QED
      BY <2>1, <2>0, <3>2, <3>4, <3>5, StandingCover DEF Standing
  <2>3. ASSUME NEW t \in Turns, FilePause(t) PROVE Covered'
    <3> DEFINE p == <<t, 1>>
    <3>1. p \in Processes /\ Moves(p, "paused", "recording")
      BY <2>3 DEF FilePause, Processes
    <3>2. Standing /\ overlapped' = overlapped
      BY <2>3 DEF FilePause, storeVars, history, Standing
    <3> HIDE DEF p
    <3>3. Others(p) /\ job[p].at = "paused" /\ job'[p].at = "recording"
      BY <2>1, <3>1, MovedBatch
    <3>4. Undisturbed(p)
      BY <2>1, <3>1, <3>2, <3>3, StepsAreUndisturbed DEF Active, Resting
    <3>5. job'[p].at \notin {"writing", "retiring"} \cup Settling
      BY <3>3 DEF Settling
    <3>6. QED
      BY <2>1, <2>0, <3>1, <3>2, <3>4, <3>5, StandingCover DEF Standing
  <2>4. ASSUME NEW p \in Processes,
               ReadEvicted(p) \/ ReadExisting(p) \/ Judge(p) \/ ReadPrevious(p)
        PROVE  Covered'
    <3>1. Standing /\ overlapped' = overlapped
      BY <2>4, Zenon DEF ReadEvicted, ReadExisting, Judge, ReadPrevious, storeVars, windowVars,
                  history, Calm, Failing, Standing
    <3>2. /\ Others(p) /\ job[p].at \in {"ended", "evicted", "judging", "promoting"}
          /\ \/ job'[p].at \in {"evicted", "judging", "promoting", "folding"}
             \/ job'[p].at = "retiring" /\ job'[p].evicted = {}
      BY <2>1, <2>4, EvictedBatch, ReadExistingBatch, JudgeBatch, PreviousBatch DEF SameBatch
    <3>3. Undisturbed(p)
      BY <2>1, <3>1, <3>2, StepsAreUndisturbed DEF Active, Resting
    <3>4. \/ job'[p].at \notin {"writing", "retiring"} \cup Settling
          \/ job'[p].at = "retiring" /\ job'[p].evicted = {}
      BY <3>2 DEF Settling
    <3>5. QED
      BY <2>1, <2>0, <3>1, <3>3, <3>4, StandingCover DEF Standing
  <2>5. ASSUME NEW p \in Processes, RetirePoints(p) \/ IndexWritten(p) PROVE Covered'
    <3>1. Standing /\ overlapped' = overlapped
      BY <2>5 DEF RetirePoints, IndexWritten, windowVars, Calm, Failing, history, Standing
    <3>2. Moves(p, "unindexing", "indexing") \/ Moves(p, "indexing", "marking")
      BY <2>5 DEF RetirePoints, IndexWritten
    <3>3. Others(p) /\ job[p].at \in Settling /\ SameBatch(p) /\ job'[p].at \in Settling
      BY <2>1, <3>2, MovedBatch DEF Settling
    <3>4. Undisturbed(p)
      BY <2>1, <3>1, <3>3, StepsAreUndisturbed DEF Active, Resting, Settling
    <3>5. QED
      BY <2>1, <2>0, <3>1, <3>3, <3>4, StandingCover DEF Standing, SameBatch
  <2>6. ASSUME NEW p \in Processes, RecordTurn(p) \/ Raise(p) \/ Die(p) PROVE Covered'
    <3>1. Standing /\ overlapped' = overlapped
      BY <2>6 DEF RecordTurn, Raise, Die, storeVars, windowVars, Calm, Failing, history,
                  Standing
    <3>2. PICK to \in {"recording", "done", "dead"} :
            job' = [job EXCEPT ![p] = [Idle EXCEPT !.at = to]]
      BY <2>6 DEF RecordTurn, Raise, Die
    <3>3. Others(p) /\ job'[p].at = to
      BY <2>1, <3>2, ResetBatch
    <3>4. p \in Active
      BY <2>6 DEF RecordTurn, Raise, Die, Active, Resting, Consolidating
    <3>5. Undisturbed(p)
      BY <2>1, <3>1, <3>3, <3>4, StepsAreUndisturbed
    <3>6. job'[p].at \notin {"writing", "retiring"} \cup Settling
      BY <3>3 DEF Settling
    <3>7. QED
      BY <2>1, <2>0, <3>1, <3>5, <3>6, StandingCover DEF Standing
  <2>7. ASSUME NEW p \in Processes,
               Fold(p) \/ WriteSummary(p) \/ Retire(p) \/ MarkPromoted(p)
        PROVE  Covered'
    <3>1. overlapped' = overlapped
      BY <2>7, FoldIs DEF WriteSummary, Retire, MarkPromoted, Calm, Failing, history
    <3>2. p \in Active
      BY <2>7, FoldIs DEF WriteSummary, Moves, Retire, MarkPromoted, Active, Resting
    <3>3. CASE Fold(p)
      <4>1. /\ Others(p) /\ BatchInv(p) /\ GoalInv(p)
            /\ JobTyped(p) /\ IsFiniteSet(job[p].evicted)
        BY <2>1, <3>3, FoldShape, TypeParts, BatchIsFinite DEF SummaryInv
      <4>2. Undisturbed(p)
        BY <2>1, <3>1, <3>2, <4>1, StepsAreUndisturbed
      <4>3. QED
        BY <2>1, <3>3, <4>1, <4>2, FoldCover
    <3>4. CASE WriteSummary(p)
      <4>1. Moves(p, "writing", "retiring")
        BY <3>4 DEF WriteSummary
      <4>2. Others(p)
        BY <2>1, <4>1, MovedBatch
      <4>3. Undisturbed(p)
        BY <2>1, <3>1, <3>2, <4>2, StepsAreUndisturbed
      <4>4. QED
        BY <2>1, <3>4, <4>3, WriteCover
    <3>5. CASE Retire(p)
      <4>1. Undisturbed(p)
        BY <2>1, <3>1, <3>2, <3>5, RetireBatch, StepsAreUndisturbed
      <4>2. QED
        BY <2>1, <3>5, <4>1, RetireCover
    <3>6. CASE MarkPromoted(p)
      <4>1. job' = [job EXCEPT ![p] = [Idle EXCEPT !.at = "recording"]]
        BY <3>6 DEF MarkPromoted
      <4>2. Undisturbed(p)
        BY <2>1, <3>1, <3>2, <4>1, ResetBatch, StepsAreUndisturbed
      <4>3. QED
        BY <2>1, <3>6, <4>2, MarkCover
    <3>7. QED
      BY <2>7, <3>3, <3>4, <3>5, <3>6
  <2>8. CASE UNCHANGED vars
    <3>1. Standing /\ job' = job /\ overlapped' = overlapped
      BY <2>8 DEF vars, storeVars, windowVars, history, Standing
    <3>2. Steady /\ promoted' = promoted
      BY <2>0, <3>1 DEF Standing
    <3>3. NothingPromotedIsLost'
      BY <2>1, <3>1, <3>2, SteadyStands
    <3>4. ASSUME NEW p \in Processes PROVE CoverInv(p)'
      <4>1. p[1] \in Turns
        BY DEF Processes
      <4>2. \A u : GaveWay(u) => GaveWay(u)'
        BY <3>2, GoneStays DEF Steady
      <4>3. ~overlapped => CarriedItems(p[1])' = CarriedItems(p[1])
        BY <3>2, <4>1 DEF Steady
      <4>4. QED
        BY <2>1, <3>1, <3>2, <4>2, <4>3 DEF CoverInv, SessionOf, Kept
    <3>5. QED
      BY <3>3, <3>4
  <2>9. QED
    BY <2>2, <2>3, <2>4, <2>5, <2>6, <2>7, <2>8 DEF Next, Consolidate
<1>3. Covered /\ FoldedInv <=> QuestionsInv
  BY DEF QuestionsInv
<1> HIDE DEF Covered
<1>4. QED
  BY <1>1, <1>2, <1>3, RecordsInvariant, SummaryInvariant, TypeInvariant, FoldedInvariant,
     WindowInvariant, PTL DEF Spec

\* As long as no two consolidations overlap, whatever fails and whatever the
\* proposers name, the newest live summary of a session carries every question
\* folded so far: it leaves only where the cap or the line had no room for it, or
\* where the statement it stood in does not read as it was written.
THEOREM NothingLost == Spec => []NothingPromotedIsLost
<1>1. QuestionsInv => NothingPromotedIsLost
  BY DEF QuestionsInv
<1>2. QED
  BY <1>1, QuestionsInvariant, PTL
=============================================================================
