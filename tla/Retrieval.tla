----------------------------- MODULE Retrieval -----------------------------
(***************************************************************************)
(* How a question finds passages: rag/access.py (who may read),            *)
(* rag/vector_index.py and rag/lexical.py (the two rankings),              *)
(* rag/fusion.py (reciprocal ranks) and rag/retriever.py (the whole).      *)
(*                                                                         *)
(* A chunk is [id, passage, project, scope].  How near a passage is to the *)
(* question and how many of its words it holds are data: Similarity and    *)
(* Overlap.  Scores are exact fractions, not floating point.               *)
(***************************************************************************)
EXTENDS Enumeration

CONSTANTS
    Similarity(_),  \* cosine similarity of a passage to the question
    Overlap(_),     \* BM25 score of a passage, 0 when it shares no word
    Floor,          \* MIN_COSINE_SIMILARITY
    CandidateLimit, \* how many hits each ranking contributes
    RrfK            \* RRF_K

\* 20 and 60 in the code.  With more candidates than that, a passage one search
\* found first would come before one that both found last.
ASSUME RetrievalAssumption ==
    /\ CandidateLimit \in Nat \ {0} /\ RrfK \in Nat /\ Floor \in Int
    /\ CandidateLimit <= RrfK + 1

\* Read by both searches, on the copy of the chunk each one holds.
IsAuthorized(chunk, context) ==
    /\ chunk.project = context.project
    /\ chunk.scope \in context.scopes

\* The order of chunk ids, which are tuples of numbers.
Before(x, y) ==
    \E n \in DOMAIN x : x[n] < y[n] /\ \A m \in 1..(n - 1) : x[m] = y[m]

\* The first `limit' elements of S, each placed by how many are ahead of it.
InOrder(S, Ahead(_, _), limit) ==
    [i \in 1..(IF Cardinality(S) < limit THEN Cardinality(S) ELSE limit) |->
        CHOOSE x \in S : Cardinality({y \in S : Ahead(y, x)}) = i - 1]

Ranking(chunks, Score(_)) ==
    LET Ahead(c, e) == \/ Score(c.passage) > Score(e.passage)
                       \/ Score(c.passage) = Score(e.passage) /\ Before(c.id, e.id)
    IN  InOrder(chunks, Ahead, CandidateLimit)

Readable(chunks, context) == {c \in chunks : IsAuthorized(c, context)}

Dense(points, context) ==
    LET ranking == Ranking(Readable(points, context), Similarity)
    IN  Picked(ranking, {i \in DOMAIN ranking : Similarity(ranking[i].passage) >= Floor})

\* A chunk that shares no word with the question is not a hit.
Lexical(snapshot, context) ==
    Ranking({c \in Readable(snapshot, context) : Overlap(c.passage) > 0}, Overlap)

IdsOf(ranking) == {ranking[i].id : i \in DOMAIN ranking}

\* 0 for a passage the ranking does not hold.
RankIn(ranking, id) ==
    IF id \in IdsOf(ranking) THEN CHOOSE i \in DOMAIN ranking : ranking[i].id = id
    ELSE 0

\* Scored by the list that was read last, not by both.
LastScore(ranks) == <<1, RrfK + IF ranks[2] = 0 THEN ranks[1] ELSE ranks[2]>>

\* The sum of 1 / (RrfK + rank), as a numerator and a denominator.
FusedScore(ranks) ==
    LET a == RrfK + ranks[1]
        b == RrfK + ranks[2]
    IN  CASE ranks[1] = 0 -> <<1, b>>
          [] ranks[2] = 0 -> <<1, a>>
          [] OTHER        -> <<a + b, a * b>>

Exceeds(f, g) == f[1] * g[2] > g[1] * f[2]

\* Passages are one by their id, and the dense copy of it is the one quoted.
Fuse(dense, lexical, limit) ==
    LET ids == IdsOf(dense) \cup IdsOf(lexical)
        score == [id \in ids |-> FusedScore(<<RankIn(dense, id), RankIn(lexical, id)>>)]
        Ahead(x, y) == \/ Exceeds(score[x], score[y])
                       \/ ~Exceeds(score[y], score[x]) /\ Before(x, y)
        Copy(id) == IF id \in IdsOf(dense) THEN dense[RankIn(dense, id)]
                    ELSE lexical[RankIn(lexical, id)]
        order == InOrder(ids, Ahead, limit)
    IN  [i \in DOMAIN order |-> Copy(order[i])]

\* The dense half decides whether the question can be answered at all.
Search(points, snapshot, context, limit) ==
    LET near == Dense(points, context)
    IN  IF near = <<>> THEN <<>> ELSE Fuse(near, Lexical(snapshot, context), limit)
=============================================================================
