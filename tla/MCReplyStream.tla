--------------------------- MODULE MCReplyStream ---------------------------
(* A request and the decision on its pause. *)
EXTENDS ReplyStream

TwoSegments == 1..2
=============================================================================
