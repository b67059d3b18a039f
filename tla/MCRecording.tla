------------------------------ MODULE MCRecording ------------------------------
(* Instances of Recording for TLC; the bounds are in the .cfg files.        *)
EXTENDS Recording, TLC

CONSTANTS r, a, b

\* The embedding program's threads are interchangeable.
Interchangeable == Permutations(Apis)

=============================================================================
