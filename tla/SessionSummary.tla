--------------------------- MODULE SessionSummary ---------------------------
(***************************************************************************)
(* What the summary of a session says: memory/promotion.py, which decides  *)
(* it, and memory/summary.py, which renders it as one line and reads that  *)
(* line back when the next batch is folded.                                *)
(*                                                                         *)
(* A saying is the request of a turn, named by the turn, or a note:        *)
(* anything else a proposer may name, or what is left of a saying that was *)
(* cut or split.  A statement is what is shown of the goal (one saying at  *)
(* most) and of the open questions, and how its line ends.                 *)
(***************************************************************************)
EXTENDS Enumeration, SequencesExt

CONSTANTS
    Turns,          \* 1..n, in the order they start
    Clarified,      \* the turns that ended in a question to the user
    Notes,          \* what a summary may say that is no turn's request
    Unsafe,         \* the sayings no summary may quote
    Long,           \* those that do not fit a line of their own
    Dotted,         \* those that end as a cut line does
    Clipped,        \* what is left of a saying where the line is cut
    Pieces,         \* what each is read back as: the parts at its "; " and labels
    MaxPieces,      \* the bound on the parts of a saying
    ItemCap         \* how many items a section holds

Sayings == Turns \cup Notes

Quotable == Sayings \ Unsafe

\* A part begins with the label of a section, or continues the one it is in.
Labels == {"Goal", "Decided", "Open", "Other"}

ASSUME SummaryAssumption ==
    /\ Turns \in SUBSET (Nat \ {0}) /\ Clarified \subseteq Turns
    /\ ItemCap \in Nat \ {0} /\ MaxPieces \in Nat \ {0}
    /\ Clipped \in [Sayings -> Sayings]
    /\ Pieces \in [Sayings -> Seq([label : Labels \cup {"none"}, text : Sayings])]
    /\ \A x \in Sayings :
          Len(Pieces[x]) \in 1..MaxPieces /\ Pieces[x][1].label = "none"

-----------------------------------------------------------------------------
(***************************************************************************)
(* What to say: conversation_state.                                        *)
(***************************************************************************)
Requests(turns) == Ascending(turns)

Questions(turns) == Ascending(turns \cap Clarified)

LatestRequest(turns, named, carried) == <<Min(turns)>>

\* The goal the proposer named, else the carried one, else the oldest request.
Goal(turns, named, carried) ==
    IF named # <<>> THEN named
    ELSE IF carried # <<>> THEN <<carried[1]>>
    ELSE <<Min(turns)>>

\* The first occurrences of what a sequence holds.
FirstOnes(s) == Picked(s, {i \in DOMAIN s : \A j \in DOMAIN s : s[j] = s[i] => i <= j})

OnlyNew(turns, asked, carried) == FirstOnes(Questions(turns) \o asked)

\* The batch's own questions, then the proposer's, then the carried ones.
Merged(turns, asked, carried) == FirstOnes(Questions(turns) \o asked \o carried)

Capped(items) == SubSeq(items, 1, Min({ItemCap, Len(items)}))

-----------------------------------------------------------------------------
(***************************************************************************)
(* How it is written: _render.                                             *)
(***************************************************************************)
Unfiltered(items) == Picked(items, {i \in DOMAIN items : items[i] \in Sayings})

\* An item that reads as an instruction or a credential is dropped.
Safe(items) == Picked(items, {i \in DOMAIN items : items[i] \in Quotable})

Fits(items) == \A i \in DOMAIN items : items[i] \notin Long

\* A section cut at some item.
Cuts(items) ==
    {Append(SubSeq(items, 1, k - 1), Clipped[items[k]]) : k \in DOMAIN items}

Dots(said) == said # <<>> /\ Last(said) \in Dotted

\* How the line ends: as a line that was never cut, in dots that stand for a
\* lost end, or in the dots of its last item, which are taken for such.  With
\* other sections on it, its last item may be one of theirs.
Endings(said, other) ==
    (IF Dots(said) THEN {"dots"} ELSE {"whole"})
    \cup (IF other THEN {"whole", "cut"} ELSE {})

\* The statements these sections may be written as, next to other sections or
\* none.  A section that does not fit behind another is left out, and marked
\* unless there is no room to; the first one is cut, and nothing follows it.
Statements(goal, items, other) ==
    LET Lines(goals, sections, ends) == [goal : goals, items : sections, ends : ends]
    IN  UNION {
          IF Fits(goal \o items) THEN Lines({goal}, {items}, Endings(goal \o items, other))
          ELSE {},
          IF items # <<>> /\ Fits(goal) /\ (goal # <<>> \/ other)
          THEN Lines({goal}, {<<>>}, Endings(goal, other) \cup {"whole"}) ELSE {},
          IF Fits(goal) THEN {} ELSE Lines(Cuts(goal), {<<>>}, {"whole", "cut"}),
          IF goal = <<>> /\ (Len(items) > 1 \/ ~Fits(items))
          THEN Lines({<<>>}, Cuts(items), {"whole", "cut"}) ELSE {}}

-----------------------------------------------------------------------------
(***************************************************************************)
(* How it is read back: parse_summary.                                     *)
(***************************************************************************)
\* The last item loses the dots that were taken for a cut.
Undotted(text, said) ==
    IF text.ends = "dots" THEN [said EXCEPT ![Len(said)] = Clipped[said[Len(said)]]] ELSE said

\* A section of the line.  Each saying has MaxPieces places, of which its parts
\* take the first ones.  A part is under the last label before it; the line puts
\* labels of its own before the goal and before the first item.
Section(text, label) ==
    LET said == Undotted(text, text.goal \o text.items)
        Part(n) == Pieces[said[((n - 1) \div MaxPieces) + 1]]
        Place(n) == ((n - 1) % MaxPieces) + 1
        places == {n \in 1..(MaxPieces * Len(said)) : Place(n) <= Len(Part(n))}
        Label(n) == IF n = 1 /\ text.goal # <<>> THEN "Goal"
                    ELSE IF n = MaxPieces * Len(text.goal) + 1 THEN "Open"
                    ELSE Part(n)[Place(n)].label
        Under(n) == Label(Max({m \in places : m <= n /\ Label(m) # "none"}))
        at == {n \in places : Under(n) = label}
    IN  [i \in 1..Cardinality(at) |-> Part(Nth(at, i))[Place(Nth(at, i))].text]

\* A line that ends as if it were cut loses the last part of its first section.
ParseSummary(text) ==
    LET goal == Section(text, "Goal")
        items == Section(text, "Open")
        Without(section, lost) == IF lost THEN Front(section) ELSE section
        cut == text.ends # "whole"
    IN  [goal |-> Without(goal, cut),
         items |-> Without(items, cut /\ goal = <<>> /\ Section(text, "Decided") = <<>>)]

=============================================================================
