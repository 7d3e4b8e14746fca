---------------------------- MODULE MCHumanReview ----------------------------
(* Small instances of HumanReview for TLC: its constants are all model values. *)
EXTENDS HumanReview, TLC

=============================================================================
