---------------------------- MODULE MCTurnEngine ----------------------------
(***************************************************************************)
(* Instances of TurnEngine for TLC.  The calls of an instance are numbered *)
(* by kind, so that calls of one kind can be exchanged.                     *)
(***************************************************************************)
EXTENDS TurnEngine, TLC

CONSTANTS read1, read2, read3, export1, write1, write2

\* Two approvals in one turn, beside a read and an escalated read.
TwoWrites == {read1, export1, write1, write2}
TwoWritesWrites == {write1, write2}
TwoWritesEscalated == {export1}

\* Enough reads to spend the real budget of eight steps before the write.
ThreeReads == {read1, read2, read3, write1}
ThreeReadsWrites == {write1}
ThreeReadsEscalated == {}

=============================================================================
