----------------------------- MODULE MCFrameBuffer -----------------------------
(* Instances of FrameBuffer for TLC; the bounds are in the .cfg files.      *)
EXTENDS FrameBuffer

\* Render threads are interchangeable: nothing orders or compares them.
Symmetric == Permutations(Threads)

=============================================================================
