--------------------------- MODULE MCDocumentIndex --------------------------
(* Two documents.  The second text of a document moves a boundary: the      *)
(* section that took two chunks takes one, and the one that took one takes  *)
(* two, so the ids of the chunks change with it.                            *)
EXTENDS DocumentIndex, TLC

TheDocuments == 1..2
ThreeIngests == 1..3

\* A longer heading leaves less room: the short first section takes two chunks.
Versions == (<<"draft", "plan">> :> <<1, 2>>) @@ (<<"final", "plan">> :> <<2>>)
            @@ (<<"draft", "forecast">> :> <<2, 1>>)

Entry(text, header, scope) ==
    [text |-> text, header |-> header, project |-> "atlas", scope |-> scope]

Rows == {Entry("draft", "plan", "read"), Entry("final", "plan", "read"),
         Entry("draft", "forecast", "lead")}

Askers == {[project |-> "atlas", scopes |-> {"read"}],
           [project |-> "atlas", scopes |-> {"read", "lead"}]}

\* The second part of a split section is the nearest; the short first section
\* of a draft is far, and still shares most words with the question.
SimilarityOf(passage) ==
    CASE passage[4] = 2        -> 8
      [] passage[1] = "final"  -> 6
      [] passage[3] = 1        -> 2
      [] OTHER                 -> 5

OverlapOf(passage) ==
    CASE passage[3] = 1 /\ passage[4] = 0 -> 9
      [] passage[4] = 2                   -> 0
      [] OTHER                            -> 4
=============================================================================
