------------------------------- MODULE MCPosting -------------------------------
(* Instances of Posting for TLC; the bounds are in the .cfg files.          *)
EXTENDS Posting, TLC

CONSTANTS r, a

=============================================================================
