------------------------- MODULE ConversationWindow -------------------------
(***************************************************************************)
(* The short-term window of one session over its table of turns:           *)
(* persistence/postgres_conversation.py behind memory/conversation.py.     *)
(*                                                                         *)
(* Turns are numbered in the order they started, which is the order of     *)
(* started_at.  A table maps a turn to how it was last recorded.           *)
(***************************************************************************)
EXTENDS Naturals, FiniteSets, FiniteSetsExt

RowStates == {"absent", "paused", "settled"}

\* The rows of a session, whatever their state.
Rows(table, session) == {u \in session : table[u] # "absent"}

\* The newest n turns of a set.
Newest(n, turns) == {u \in turns : Cardinality({v \in turns : v > u}) < n}

\* The oldest n turns of a set.
Oldest(n, turns) == {u \in turns : Cardinality({v \in turns : v < u}) < n}

\* recent: what the session's next turn is shown.
Recent(table, session, limit) == Newest(limit, Rows(table, session))

\* evicted: settled, not promoted, and not among the newest to keep.
Evicted(table, promoted, session, keep, batch) ==
    Oldest(batch, {u \in Rows(table, session) \ Newest(keep, Rows(table, session)) :
                     table[u] = "settled" /\ u \notin promoted})

=============================================================================
