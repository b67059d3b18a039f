------------------------------ MODULE MCFenceSync ------------------------------
(* Instances of FenceSync for TLC; the bounds are in the .cfg files.        *)
EXTENDS FenceSync

CONSTANTS f1, f2, b1, b2

=============================================================================
