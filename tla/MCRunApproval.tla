---------------------------- MODULE MCRunApproval ----------------------------
(***************************************************************************)
(* The instance of RunApproval for TLC.                                    *)
(***************************************************************************)
EXTENDS RunApproval

CONSTANTS ann, bob

TwoApprovers == {ann, bob}

=============================================================================
