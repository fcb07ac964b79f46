---------------------------- MODULE SessionMemory ----------------------------
(***************************************************************************)
(* What the turns of a project leave behind: engine/orchestrator.py around *)
(* memory/service.py (records, summaries, the vector index) and            *)
(* memory/conversation.py (the window).                                    *)
(*                                                                         *)
(* A process is a segment of a turn: <<t, 1>> is handle(), <<t, 2>> the    *)
(* resume() of a turn that paused.  Each statement on a store commits by   *)
(* itself, so two processes interleave between any two of them, and each   *)
(* may die or see its store raise between any two of them.                 *)
(***************************************************************************)
EXTENDS MemoryPolicy, ConversationWindow, SessionSummary

CONSTANTS
    ScopeOf,        \* the actor and the session of a turn
    Proposals,      \* the lists of candidates each turn's proposer may return
    Summaries,      \* what each turn's summary proposer may return
    Held,           \* what earlier sessions may have left live
    TurnLimit,      \* how many turns the window shows
    Batch,          \* how many evicted turns one consolidation folds
    RecallLimit,    \* how many pinned memories a turn is shown
    SemanticCandidates, \* how many points a search of the index returns
    MaxActive,      \* the bound on processes at work at once
    Pausers,        \* the turns that may wait for a human
    MaxFailures     \* the bound on deaths and on failures of a store or an index

ASSUME MemoryAssumption ==
    /\ TurnLimit \in Nat \ {0} /\ Batch \in Nat \ {0}
    /\ RecallLimit \in Nat /\ SemanticCandidates \in Nat
    /\ Pausers \subseteq Turns /\ MaxActive \in Nat /\ MaxFailures \in Nat

Candidates == [kind : ProposableKinds, key : Keys, text : Texts, flaws : SUBSET ToSet(Checks)]

\* A proposal of no candidate is no proposal (ReadExisting).
ASSUME ProposalAssumption ==
    \A t \in Turns : \A list \in Proposals[t] : list \in Seq(Candidates) /\ list # <<>>

\* A proposer of summaries may name a goal, and some questions; with it goes
\* whether the sections not followed here have anything to say.
ASSUME NamingAssumption ==
    \A t \in Turns : \A named \in Summaries[t] :
       /\ named.goal \in Seq(Sayings) /\ Len(named.goal) <= 1
       /\ named.asked \in Seq(Sayings) /\ named.other \in BOOLEAN

\* One record to a kind, a key and an owner.
OnePerKey(ids) ==
    \A a, b \in ids : a.kind = b.kind /\ a.key = b.key /\ a.owner = b.owner => a = b

\* What is claimed of an untroubled project is claimed of one that has been so.
ASSUME HeldAssumption ==
    \A ids \in Held :
       /\ OnePerKey(ids)
       /\ \A id \in ids :
            id \in [kind : ProposableKinds, key : Keys, text : Texts, owner : {id.owner}]

VARIABLES
    live,       \* the records of the memories table no update has retired
    searchable, \* the points of the vector index not flagged as retired
    summaries,  \* the session_summary records, in the order written
    table,      \* session_turns: how each turn was last recorded
    promoted,   \* the run a turn was folded in, 0 for none
    filed,      \* the turns whose pause is in the approvers' queue
    job,        \* where each process is, and what it has read
    overlapped, \* history: a process has started beside another
    returned,   \* history: a turn has written again what it was about to retire
    spilled,    \* history: the questions a fold had no room for
    failures    \* history: how many deaths and failures there have been

storeVars == <<live, searchable, summaries>>
windowVars == <<table, promoted, filed>>
history == <<overlapped, returned, spilled, failures>>
vars == <<storeVars, windowVars, job, history>>

Processes == Turns \X {1, 2}

SessionOf(t) == {u \in Turns : ScopeOf[u].session = ScopeOf[t].session}

Idle == [at |-> "idle", existing |-> {}, left |-> <<>>, wrote |-> {}, retiring |-> {},
         evicted |-> {}, previous |-> 0, summary |-> <<>>, replaces |-> {}]

Resting == {"idle", "done", "dead"}

Active == {p \in Processes : job[p].at \notin Resting}

Init ==
    /\ live \in Held
    /\ searchable = live
    /\ summaries = <<>>
    /\ table = [t \in Turns |-> "absent"]
    /\ promoted = [t \in Turns |-> 0]
    /\ filed = {}
    /\ job = [p \in Processes |-> Idle]
    /\ overlapped = FALSE /\ returned = FALSE /\ spilled = {} /\ failures = 0

-----------------------------------------------------------------------------
(***************************************************************************)
(* The store's reads, bounded by a scope.                                  *)
(***************************************************************************)
Live(scope) == {id \in live : InBounds(id, scope)}

\* The places in the store of a session's live summaries.
LiveSummaries(t) ==
    {i \in DOMAIN summaries :
       summaries[i].live /\ ScopeOf[summaries[i].run].session = ScopeOf[t].session}

\* live() is newest first.
NewestSummary(t) ==
    IF LiveSummaries(t) = {} THEN 0 ELSE Max(LiveSummaries(t))

\* The points a search of the index may return to a scope.
Found(scope) == {id \in searchable : InBounds(id, scope)}

Pinned(scope) == {id \in Live(scope) : id.kind \in PinnedKinds}

\* A session's summaries are pinned, and have points of their own.
SummaryOf(i) == [summary |-> i]

PinnedSummaries(t) == {SummaryOf(i) : i \in LiveSummaries(t)}

SummaryPoints(t) ==
    {SummaryOf(i) : i \in {j \in DOMAIN summaries :
                             ScopeOf[summaries[j].run].session = ScopeOf[t].session}}

\* All of a set that fits a limit; else some of it, as the order of the store
\* or the similarity to the request has it.
Upto(limit, set) ==
    IF Cardinality(set) <= limit THEN {set}
    ELSE {some \in SUBSET set : Cardinality(some) <= limit}

\* What recall may gather for a turn: the pinned kinds from the store, the rest
\* through the index.  A point is worth the record it names: the store is asked
\* for each, and one that has been retired is not returned.
Recalls(t) ==
    LET scope == ScopeOf[t]
        pinned == Upto(RecallLimit, Pinned(scope) \cup PinnedSummaries(t))
        found == Upto(SemanticCandidates, Found(scope) \cup SummaryPoints(t))
    IN  {(p \cup (f \cap (Live(scope) \cup PinnedSummaries(t)))) : p \in pinned, f \in found}

-----------------------------------------------------------------------------
(***************************************************************************)
(* A turn, as the orchestrator runs it.                                    *)
(***************************************************************************)
Moves(p, from, to) ==
    job[p].at = from /\ job' = [job EXCEPT ![p].at = to]

Calm == UNCHANGED history

Failing ==
    /\ failures < MaxFailures
    /\ failures' = failures + 1
    /\ UNCHANGED <<overlapped, returned, spilled>>

Starts(p, to) ==
    /\ Cardinality(Active) < MaxActive
    /\ Moves(p, "idle", to)
    /\ overlapped' = (overlapped \/ Active # {})
    /\ UNCHANGED <<storeVars, windowVars, returned, spilled, failures>>

\* Recall, the declaration and the engine leave the stores alone.
Handle(t) ==
    /\ \A u \in Turns : u < t => job[<<u, 1>>].at # "idle"
    /\ \/ Starts(<<t, 1>>, "ended")
       \/ t \in Pausers /\ Starts(<<t, 1>>, "paused")

Resume(t) == t \in filed /\ Starts(<<t, 2>>, "ended")

\* save_run and pauses.save: from here an approver may resume the turn.
FilePause(t) ==
    /\ Moves(<<t, 1>>, "paused", "recording")
    /\ filed' = filed \cup {t}
    /\ UNCHANGED <<storeVars, table, promoted, history>>

WholeWindow == TurnLimit

\* The turn that is about to be recorded takes a place in the window.
RoomLeft == TurnLimit - 1

\* A store that is down yields no eviction this turn.
ReadEvicted(p) ==
    /\ job[p].at = "ended"
    /\ LET t == p[1]
           found == Evicted(table, {u \in Turns : promoted[u] # 0}, SessionOf(t),
                            RoomLeft, Batch)
       IN \/ job' = [job EXCEPT ![p].at = "evicted", ![p].evicted = found] /\ Calm
          \/ job' = [job EXCEPT ![p].at = "evicted"] /\ found # {} /\ Failing
    /\ UNCHANGED <<storeVars, windowVars>>

\* A turn that ended in a question has established nothing; a proposer that
\* answers in prose, or calls another tool, proposes nothing.
Proposed(t) == IF t \in Clarified THEN {} ELSE Proposals[t]

\* An established turn reads what exists and only then asks the proposer; one
\* that established nothing goes straight to the promotion.  A proposer that
\* fails proposes nothing.
ReadExisting(p) ==
    /\ job[p].at = "evicted"
    /\ \/ job' = [job EXCEPT ![p].at = "promoting"]
       \/ \E list \in Proposed(p[1]) :
               job' = [job EXCEPT ![p].at = "judging", ![p].left = list,
                                  ![p].existing = Live(ScopeOf[p[1]])]
    /\ UNCHANGED <<storeVars, windowVars, history>>

\* The row is put under its id: writing what is there changes nothing.
Written(id) == live \cup {id}

\* One candidate, against what existed when the turn asked and what the turn
\* itself has written since.
Judge(p) ==
    /\ job[p].at = "judging"
    /\ LET scope == ScopeOf[p[1]]
           c == Head(job[p].left)
           rest == Tail(job[p].left)
           next == IF rest = <<>> THEN "promoting" ELSE "judging"
       IN \E verdict \in Decide(c, job[p].existing, scope) :
            LET id == MemoryId([c EXCEPT !.key = verdict.key], scope)
            IN IF Stores(verdict)
               THEN /\ live' = Written(id)
                    /\ returned' = (returned \/ id \in job[p].retiring)
                    /\ job' = [job EXCEPT
                         ![p].at = next, ![p].left = rest,
                         ![p].wrote = @ \cup {id},
                         ![p].existing = (@ \ verdict.supersedes) \cup {id},
                         ![p].retiring = @ \cup verdict.supersedes]
               ELSE /\ job' = [job EXCEPT ![p].at = next, ![p].left = rest]
                    /\ UNCHANGED <<live, returned>>
    /\ UNCHANGED <<searchable, summaries, windowVars, overlapped, spilled, failures>>

ReadPrevious(p) ==
    /\ job[p].at = "promoting"
    /\ job' = IF job[p].evicted = {}
              THEN [job EXCEPT ![p].at = "retiring", ![p].existing = {}]
              ELSE [job EXCEPT ![p].at = "folding", ![p].existing = {},
                               ![p].previous = NewestSummary(p[1])]
    /\ UNCHANGED <<storeVars, windowVars, history>>

-----------------------------------------------------------------------------
(***************************************************************************)
(* The session's summary: a batch of evicted turns folded over what the    *)
(* newest one says.                                                        *)
(***************************************************************************)
NoSummary == [goal |-> <<>>, items |-> <<>>]

\* Asked and silent, failed, and none are one.
Silent == [goal |-> <<>>, asked |-> <<>>, other |-> FALSE]

\* conversation_state carries what the statement of the newest summary reads as.
Carried(p) ==
    IF job[p].previous = 0 THEN NoSummary ELSE ParseSummary(summaries[job[p].previous].text)

\* The questions that the cap or the line has no room for.
Spilled(merged, items, text) ==
    Clarified \cap
       ({merged[i] : i \in DOMAIN merged \ DOMAIN Capped(merged)}
        \cup (ToSet(items) \ ToSet(text.items)))

\* What the new summary replaces is read again here, after the proposer's call.
\* The sections not followed hold what the proposer says there or what was
\* carried, unless none of it may be quoted.  Nothing durable to say in any
\* section means no summary, and the turns count as folded.
Fold(p) ==
    /\ job[p].at = "folding"
    /\ \E named \in Summaries[p[1]] \cup {Silent}, other \in BOOLEAN :
         LET turns == job[p].evicted
             goal == Safe(Goal(turns, named.goal, Carried(p).goal))
             merged == Merged(turns, named.asked, Carried(p).items)
             items == Safe(Capped(merged))
         IN /\ other => named.other \/ job[p].previous # 0
            /\ \E text \in Statements(goal, items, other) :
                 /\ spilled' = spilled \cup Spilled(merged, items, text)
                 /\ job' =
                      IF goal = <<>> /\ items = <<>> /\ ~other
                      THEN [job EXCEPT ![p].at = "retiring", ![p].previous = 0]
                      ELSE [job EXCEPT ![p].at = "writing", ![p].previous = 0,
                              ![p].summary = <<[run |-> p[1], live |-> TRUE, links |-> turns,
                                                named |-> named.goal # <<>>, text |-> text]>>,
                              ![p].replaces = LiveSummaries(p[1])]
    /\ UNCHANGED <<storeVars, windowVars, overlapped, returned, failures>>

WriteSummary(p) ==
    /\ Moves(p, "writing", "retiring")
    /\ summaries' = summaries \o job[p].summary
    /\ UNCHANGED <<live, searchable, windowVars, history>>

Superseded(ids) == live \ ids

\* One statement retires all that the writes replaced.
Retire(p) ==
    /\ job[p].at = "retiring"
    /\ job' = [job EXCEPT ![p].at = "unindexing", ![p].retiring = @ \cap live,
                          ![p].summary = <<>>, ![p].replaces = {}]
    /\ live' = Superseded(job[p].retiring)
    /\ summaries' = [i \in DOMAIN summaries |->
                       [summaries[i] EXCEPT !.live = @ /\ i \notin job[p].replaces]]
    /\ UNCHANGED <<searchable, windowVars, history>>

\* The index is told after the store, and its failures are only logged.
RetirePoints(p) ==
    /\ Moves(p, "unindexing", "indexing")
    /\ \/ searchable' = searchable \ job[p].retiring /\ Calm
       \/ UNCHANGED searchable /\ job[p].retiring # {} /\ Failing
    /\ UNCHANGED <<live, summaries, windowVars>>

IndexNothing(p) ==
    /\ Moves(p, "indexing", "marking")
    /\ UNCHANGED <<storeVars, windowVars, history>>

IndexWritten(p) ==
    /\ Moves(p, "indexing", "marking")
    /\ \/ searchable' = searchable \cup job[p].wrote /\ Calm
       \/ UNCHANGED searchable /\ job[p].wrote # {} /\ Failing
    /\ UNCHANGED <<live, summaries, windowVars>>

\* A turn keeps the first run it was folded in.
MarkPromoted(p) ==
    /\ job[p].at = "marking"
    /\ job' = [job EXCEPT ![p] = [Idle EXCEPT !.at = "recording"]]
    /\ \/ promoted' = [u \in Turns |->
                         IF u \in job[p].evicted /\ promoted[u] = 0
                         THEN p[1] ELSE promoted[u]] /\ Calm
       \/ UNCHANGED promoted /\ job[p].evicted # {} /\ Failing
    /\ UNCHANGED <<storeVars, table, filed>>

\* How a segment leaves its turn: only a handle() that paused filed a pause.
Outcome(p) == IF p[2] = 1 /\ p[1] \in filed THEN "paused" ELSE "settled"

RecordTurn(p) ==
    /\ job[p].at = "recording"
    /\ job' = [job EXCEPT ![p] = [Idle EXCEPT !.at = "done"]]
    /\ \/ table' = [table EXCEPT ![p[1]] = Outcome(p)] /\ Calm
       \/ UNCHANGED table /\ Failing
    /\ UNCHANGED <<storeVars, promoted, filed>>

\* A store that raises ends the consolidation where it stands: nothing is
\* marked, and the turn goes on to be recorded.
Consolidating == {"evicted", "judging", "promoting", "folding", "writing", "retiring"}

RaiseAndMark(p) ==
    /\ job[p].at \in Consolidating
    /\ job' = [job EXCEPT ![p] = [Idle EXCEPT !.at = "marking", !.evicted = job[p].evicted]]
    /\ Failing
    /\ UNCHANGED <<storeVars, windowVars>>

Raise(p) ==
    /\ job[p].at \in Consolidating
    /\ job' = [job EXCEPT ![p] = [Idle EXCEPT !.at = "recording"]]
    /\ Failing
    /\ UNCHANGED <<storeVars, windowVars>>

Die(p) ==
    /\ p \in Active
    /\ job' = [job EXCEPT ![p] = [Idle EXCEPT !.at = "dead"]]
    /\ Failing
    /\ UNCHANGED <<storeVars, windowVars>>

Consolidate(p) ==
    \/ ReadEvicted(p) \/ ReadExisting(p) \/ Judge(p)
    \/ ReadPrevious(p) \/ Fold(p) \/ WriteSummary(p)
    \/ Retire(p) \/ RetirePoints(p) \/ IndexWritten(p) \/ MarkPromoted(p)

Next ==
    \/ \E t \in Turns : Handle(t) \/ Resume(t) \/ FilePause(t)
    \/ \E p \in Processes : Consolidate(p) \/ RecordTurn(p) \/ Raise(p) \/ Die(p)

Spec == Init /\ [][Next]_vars

-----------------------------------------------------------------------------
Ids == [kind : ProposableKinds, key : Keys, text : Texts,
        owner : {ScopeOf[t].actor : t \in Turns}
                \cup {id.owner : id \in UNION Held} \cup {"project"}]

Steps == Resting \cup Consolidating \cup
         {"ended", "paused", "unindexing", "indexing", "marking", "recording"}

\* A section holds what may be quoted or is left of it, up to its cap.
IsSection(items, cap) ==
    items \in Seq(Quotable \cup {Clipped[x] : x \in Sayings}) /\ Len(items) <= cap

IsText(text) == IsSection(text.goal, 1) /\ IsSection(text.items, ItemCap)

\* The shape of the stores and of every process.
TypeOK ==
    /\ live \subseteq Ids /\ searchable \subseteq Ids
    /\ \A i \in DOMAIN summaries :
         /\ summaries[i].run \in Turns /\ summaries[i].live \in BOOLEAN
         /\ summaries[i].links \subseteq Turns /\ summaries[i].named \in BOOLEAN
         /\ IsText(summaries[i].text)
    /\ table \in [Turns -> RowStates]
    /\ promoted \in [Turns -> Turns \cup {0}]
    /\ filed \subseteq Turns
    /\ {overlapped, returned} \subseteq BOOLEAN /\ failures \in 0..MaxFailures
    /\ spilled \subseteq Clarified
    /\ \A p \in Processes :
         /\ job[p].at \in Steps
         /\ job[p].existing \subseteq Ids /\ job[p].wrote \subseteq Ids
         /\ job[p].retiring \subseteq Ids
         /\ job[p].evicted \subseteq Turns
         /\ job[p].previous \in 0..Len(summaries)
         /\ job[p].replaces \subseteq DOMAIN summaries

(***************************************************************************)
(* The records.                                                            *)
(***************************************************************************)
\* A memory is retired only by a turn that has written its replacement: another
\* record of the same kind and the same owner.  A death between the two leaves
\* two live records, never none written.
ReplacedBeforeRetired ==
    [][\A id \in live \ live' :
         \E p \in Processes :
            /\ id \in job[p].retiring
            /\ \E new \in job[p].wrote :
                 new # id /\ new.kind = id.kind /\ new.owner = id.owner]_vars

Slot(id) == [kind |-> id.kind, key |-> id.key, owner |-> id.owner]

Slots(ids) == {Slot(id) : id \in ids}

\* What the project knows under a key changes and is never forgotten, whatever
\* fails: a record that is retired leaves one of its kind and owner under its
\* key, or, a preference, under the key of one that was retired with it (it may
\* be both keys' preferences that had come to one topic).  Unless two
\* consolidations overlap, or one turn changes what stands under a key and
\* changes it back: then it retires both.
KeysKeepAMemory ==
    [][\/ overlapped \/ returned
       \/ \A id \in live \ live' :
            \/ Slot(id) \in Slots(live')
            \/ /\ id.kind = "preference"
               /\ \E old \in live \ live' :
                    /\ old.kind = id.kind /\ old.owner = id.owner
                    /\ Slot(old) \in Slots(live')]_vars

Quiet == Active = {}

Untroubled == ~overlapped /\ failures = 0

\* Once an untroubled project is quiet, one record is live per key: two
\* candidates for one key in a turn become a write and an update.
OneMemoryPerKey ==
    Quiet /\ Untroubled => OnePerKey(live)

\* And its index has followed the table: recall gathers nothing that is not
\* live in the scope of a turn, all that is live when a search can return it,
\* and all that is pinned when it fits, however much else there is.  (The index
\* may still hold points of records a turn has replaced.)
RecallFindsWhatIsLive ==
    Quiet /\ Untroubled =>
        \A t \in Turns :
           LET scope == ScopeOf[t]
               all == Live(scope) \cup PinnedSummaries(t)
               pinned == Pinned(scope) \cup PinnedSummaries(t)
           IN \A gathered \in Recalls(t) :
                /\ gathered \subseteq all
                /\ Cardinality(Found(scope) \cup SummaryPoints(t)) <= SemanticCandidates =>
                      gathered = all
                /\ Cardinality(pinned) <= RecallLimit => pinned \subseteq gathered

(***************************************************************************)
(* The window and the summary.                                             *)
(***************************************************************************)
\* The summaries of a turn's session, live or replaced.
Told(t) == {i \in DOMAIN summaries : SessionOf(summaries[i].run) = SessionOf(t)}

\* A turn whose proposer may name a goal that no summary may quote: it takes
\* the place of the carried goal and of the request, and is dropped.
Misled(t) == \E named \in Summaries[t] : named.goal # <<>> /\ named.goal[1] \notin Quotable

\* A goal may be quoted whole and not when it has been split.
Spoiled(text) ==
    LET goal == ParseSummary(text).goal IN goal # <<>> /\ goal[1] \notin Quotable

\* A turn is marked as promoted by run r only when a summary r wrote folds it,
\* or when the batch had nothing to say: then the goal it came to, which is the
\* proposer's, the carried one or the request of the oldest turn, is one no
\* summary may quote.
PromotedIsFolded ==
    \A u \in Turns : promoted[u] # 0 =>
        \/ \E i \in DOMAIN summaries :
             summaries[i].run = promoted[u] /\ u \in summaries[i].links
        \/ Misled(promoted[u])
        \/ \E i \in Told(u) : Spoiled(summaries[i].text)
        \/ \E v \in SessionOf(u) \cap Unsafe : v <= u /\ promoted[v] # 0

CarriedItems(t) ==
    IF NewestSummary(t) = 0 THEN <<>> ELSE summaries[NewestSummary(t)].text.items

\* A summary says it, and is read back without it.
Misread(u, text) == u \in ToSet(text.items) /\ u \notin ToSet(ParseSummary(text).items)

\* A question that a fold had no room for, or that a summary does not read back
\* with.
GaveWay(u) == u \in spilled \/ \E i \in Told(u) : Misread(u, summaries[i].text)

Kept(u, items) == u \in ToSet(items) \/ GaveWay(u)

\* As long as no two consolidations overlap, the newest live summary carries
\* every question folded so far: it leaves only where there was no room for it,
\* or where the statement it stood in does not read as it was written.
NothingPromotedIsLost ==
    ~overlapped =>
        \A u \in Clarified \ Unsafe : promoted[u] # 0 => Kept(u, CarriedItems(u))

\* The goal of a statement that is read back as it was written, and may be
\* written again.
Firm(text) ==
    LET goal == ParseSummary(text).goal
    IN goal # <<>> /\ text.goal = <<goal[1]>> /\ goal[1] \in Quotable \ Long

Keeps(old, new) == Firm(old.text) => new.text.goal = old.text.goal \/ new.named

\* As long as no two consolidations overlap, a goal that reads back as it was
\* written is changed by a proposer that names another and by nothing else: a
\* later request does not take its place, and a new summary does not drop it.
GoalStands ==
    [][\A t \in Turns :
         NewestSummary(t) # 0 /\ ~overlapped =>
            Keeps(summaries[NewestSummary(t)], summaries'[NewestSummary(t)'])]_vars

\* The turns of a session that are on the table and in no summary.
Unfolded(t) == {u \in Rows(table, SessionOf(t)) : promoted[u] = 0}

\* As long as an untroubled project has never paused, what the window of a
\* session shows and what has been promoted leave no gap, at any step: a turn is
\* promoted before the next one takes its place in the window.
CleanTurnsCloseTheGap ==
    Untroubled /\ filed = {} =>
        \A t \in Turns : Unfolded(t) \subseteq Recent(table, SessionOf(t), TurnLimit)

(***************************************************************************)
(* The inductive invariant of the records: what a process holds between    *)
(* its writes and its retirements.                                         *)
(***************************************************************************)
Fields == DOMAIN Idle

JobShape ==
    /\ DOMAIN job = Processes /\ job = [p \in Processes |-> job[p]]
    /\ \A p \in Processes :
         DOMAIN job[p] = Fields /\ job[p] = [f \in Fields |-> job[p][f]]

Working == {"judging", "promoting", "folding", "writing", "retiring"}
Settling == {"unindexing", "indexing", "marking"}

Replaces(new, id) == new # id /\ new.kind = id.kind /\ new.owner = id.owner

\* A process that has nothing in hand replaces nothing; what it replaces has
\* been replaced before it is retired.
HandInv(p) ==
    /\ job[p].at \notin Working \cup Settling => job[p].wrote = {} /\ job[p].retiring = {}
    /\ job[p].at = "judging" => job[p].left \in Seq(Candidates) /\ job[p].left # <<>>
    /\ \A id \in job[p].retiring : \E new \in job[p].wrote : Replaces(new, id)

\* Nobody else writes while a process consolidates: what it judges against is
\* what will be left when it has retired what it replaced.
JudgingInv(p) ==
    /\ job[p].at = "judging" =>
          /\ OnePerKey(job[p].existing)
          /\ \A id \in job[p].existing : InBounds(id, ScopeOf[p[1]])
          /\ Live(ScopeOf[p[1]]) \ job[p].retiring \subseteq job[p].existing
    /\ job[p].at \in Settling => live \cap job[p].retiring = {}
    /\ job[p].at = "marking" => job[p].wrote \subseteq searchable
    /\ OnePerKey(live \ job[p].retiring) \/ p \notin Active
    /\ live \subseteq searchable \cup job[p].wrote \/ p \notin Active

RestingInv == Active = {} => OnePerKey(live) /\ live \subseteq searchable

AloneInv == ~overlapped => \A p, q \in Active : p = q

RecordsInv ==
    /\ JobShape /\ overlapped \in BOOLEAN /\ failures \in Nat
    /\ AloneInv
    /\ \A p \in Processes : HandInv(p)
    /\ Untroubled => RestingInv /\ \A p \in Processes : JudgingInv(p)

\* As long as nothing overlaps, what a process is about to retire is still
\* live, and each of those records has an heir that is not among them.
Heir(new, id) ==
    /\ new.kind = id.kind /\ new.owner = id.owner
    /\ id.kind = "preference" \/ new.key = id.key

KeepingInv(p) ==
    ~overlapped /\ job[p].at \in Working =>
        /\ job[p].retiring \cup job[p].wrote \subseteq live
        /\ job[p].at = "judging" => job[p].existing \subseteq live
        /\ ~returned =>
             \A id \in job[p].retiring :
                \E new \in job[p].wrote \ job[p].retiring, old \in job[p].retiring :
                   Heir(new, id) /\ Slot(new) = Slot(old)

KeysInv == RecordsInv /\ returned \in BOOLEAN /\ \A p \in Processes : KeepingInv(p)

(***************************************************************************)
(* The inductive invariant of the summary: what a process that folds a     *)
(* batch has read of the session, and what it is about to write.           *)
(***************************************************************************)
SummaryFields == {"run", "live", "links", "named", "text"}

IsSummary(row) ==
    DOMAIN row = SummaryFields /\ row.run \in Turns /\ row.live \in BOOLEAN

SummariesShape ==
    /\ summaries \in Seq(ToSet(summaries))
    /\ \A i \in DOMAIN summaries : IsSummary(summaries[i])

Waiting == {"idle", "ended", "paused"}

\* A batch comes from the process's session, and so does the summary it is
\* folded over; when it is marked, a summary of the process names it, or the
\* goal it came to may not be quoted.
BatchInv(p) ==
    LET batch == job[p].evicted IN
    /\ batch \subseteq SessionOf(p[1])
    /\ job[p].at \in Waiting => batch = {}
    /\ job[p].at \in {"folding", "writing"} => batch # {}
    /\ job[p].at = "folding" /\ job[p].previous # 0 => job[p].previous \in Told(p[1])
    /\ job[p].at = "writing" =>
          LET row == job[p].summary[1] IN
          /\ job[p].summary = <<row>> /\ IsSummary(row)
          /\ row.run = p[1] /\ row.live /\ row.links = batch
    /\ job[p].at \in {"retiring"} \cup Settling /\ batch # {} =>
          \/ \E i \in DOMAIN summaries :
                summaries[i].run = p[1] /\ summaries[i].links = batch
          \/ Misled(p[1])
          \/ \E i \in Told(p[1]) : Spoiled(summaries[i].text)
          \/ \E v \in batch \cap Unsafe : \A u \in batch : v <= u

\* As long as nothing overlaps, what a process has read of its session's
\* summaries stands until it has retired them.
GoalInv(p) ==
    LET newest == NewestSummary(p[1]) IN
    ~overlapped =>
       /\ job[p].at = "folding" => job[p].previous = newest
       /\ job[p].at = "writing" =>
             /\ job[p].replaces = LiveSummaries(p[1])
             /\ newest # 0 => Keeps(summaries[newest], job[p].summary[1])
       /\ job[p].at = "retiring" =>
             \A i \in job[p].replaces :
                i < newest /\ SessionOf(summaries[i].run) = SessionOf(p[1])
       /\ job[p].at \in Waiting \cup {"evicted", "judging", "promoting", "folding"} =>
             job[p].replaces = {}

SummaryInv ==
    /\ SummariesShape
    /\ \A p \in Processes : BatchInv(p) /\ GoalInv(p)
    /\ PromotedIsFolded

(***************************************************************************)
(* The inductive invariants of the shapes and of the questions: what is    *)
(* about to be written has the shape of what was, and loses no question.   *)
(***************************************************************************)
Recorded == {u \in Turns : table[u] # "absent"}

TypeInv ==
    /\ TypeOK
    /\ \A p \in Processes :
         job[p].at = "writing" =>
            job[p].summary[1].named \in BOOLEAN /\ IsText(job[p].summary[1].text)

\* What is folded has been recorded.
FoldedInv ==
    /\ \A p \in Processes : job[p].evicted \subseteq Recorded
    /\ \A i \in DOMAIN summaries : summaries[i].links \subseteq Recorded
    /\ \A u \in Turns : promoted[u] # 0 => u \in Recorded

\* What a process is about to write holds all its session has folded and its
\* batch; what stands holds its batch until it is marked.
CoverInv(p) ==
    LET quotable == SessionOf(p[1]) \cap (Clarified \ Unsafe) IN
    ~overlapped =>
       /\ job[p].at = "writing" =>
             \A u \in quotable : promoted[u] # 0 \/ u \in job[p].evicted =>
                Kept(u, job[p].summary[1].text.items)
       /\ job[p].at \in {"retiring"} \cup Settling =>
             \A u \in quotable \cap job[p].evicted : Kept(u, CarriedItems(p[1]))

QuestionsInv ==
    FoldedInv /\ NothingPromotedIsLost /\ \A p \in Processes : CoverInv(p)

(***************************************************************************)
(* The inductive invariant of the window: the turns of an untroubled       *)
(* project come one after the other, and the batch a process holds is what *)
(* will not be shown once its own turn is.                                 *)
(***************************************************************************)
\* Between the reading of the evictions and the marking.
Carrying == {"evicted"} \cup Working \cup Settling

GapInv(p) ==
    LET kept == Recent(table, SessionOf(p[1]), RoomLeft) IN
    /\ job[p].at \in Carrying => Unfolded(p[1]) \subseteq job[p].evicted \cup kept
    /\ job[p].at = "recording" => Unfolded(p[1]) \subseteq kept

OneAfterTheOther ==
    /\ \A p \in Processes : job[p].at # "dead" /\ (p[2] = 2 => job[p].at = "idle")
    /\ \A t \in Turns :
          table[t] = IF job[<<t, 1>>].at = "done" THEN "settled" ELSE "absent"
    /\ \A t, u \in Turns : t < u /\ job[<<u, 1>>].at # "idle" => job[<<t, 1>>].at = "done"

WindowInv ==
    /\ DOMAIN table = Turns /\ IsFiniteSet(Recorded)
    /\ Untroubled /\ filed = {} =>
          OneAfterTheOther /\ (\A p \in Processes : GapInv(p)) /\ CleanTurnsCloseTheGap

=============================================================================
