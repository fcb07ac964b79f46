--------------------------- MODULE MCSessionMemory ---------------------------
(***************************************************************************)
(* The instance of SessionMemory for TLC: the three turns of a session in  *)
(* a project where others have left memories, and four statements.         *)
(***************************************************************************)
EXTENDS SessionMemory

CONSTANTS alpha, beta, gamma, delta, aim, lure, more, part

Topics == [x \in {alpha, beta, gamma, delta} |-> IF x = gamma THEN "two" ELSE "one"]

Ann == [actor |-> "ann", session |-> "s1"]
Bob == [actor |-> "bob", session |-> "s0"]

Scopes == [t \in Turns |-> Ann]

Says(kind, key, text) == [kind |-> kind, key |-> key, text |-> text, flaws |-> {}]

Fact(key, text) == Says("fact", key, text)
Preference(key, text) == Says("preference", key, text)

Poisoned == [Fact("k", beta) EXCEPT !.flaws = {"instruction_like", "not_durable"}]

\* The second turn may name one key twice, both times anew; the third then
\* finds the second statement there, and may return to it.
Lists ==
    [t \in Turns |->
       IF t < 3 THEN {<<Fact("k", alpha), Fact("k", beta)>>, <<Preference("k", alpha)>>}
       ELSE {<<Preference("m", delta), Poisoned>>, <<Fact("k", alpha), Fact("k", beta)>>}]

\* What another session of the project, and another actor, left behind, beside
\* what the same actor did, who has come back to the topic of one preference
\* under the key of another.
Earlier == {{MemoryId(Fact("k", gamma), Bob), MemoryId(Preference("k", beta), Bob),
             MemoryId(Preference("k", alpha), Ann), MemoryId(Preference("l", beta), Ann)}}

\* The second turn's proposer may name the goal, and a question that reads back
\* as another one; the third's may name a goal no summary may quote.
Named == [t \in Turns |->
            IF t = 2 THEN {[goal |-> <<aim>>, asked |-> <<>>, other |-> FALSE],
                               [goal |-> <<>>, asked |-> <<more>>, other |-> FALSE]}
            ELSE {[goal |-> <<lure>>, asked |-> <<>>, other |-> FALSE]}]

Here(x) == [label |-> "none", text |-> x]

Parts == [x \in Sayings |->
            IF x = more THEN <<Here(part), [label |-> "Goal", text |-> part]>>
            ELSE <<Here(x)>>]

Rests == [x \in Sayings |-> part]

\* What is written without being cut or split is read back as it was.
ASSUME PlainTextReadsBack ==
    \A goal \in {<<>>, <<1>>, <<aim>>}, items \in {<<>>, <<1>>, <<part, 1>>} :
       ParseSummary([goal |-> goal, items |-> items, ends |-> "whole"])
         = [goal |-> goal, items |-> items]

=============================================================================
