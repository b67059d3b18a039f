----------------------------- MODULE MCRenderServer -----------------------------
(* The render server for TLC. *)
EXTENDS RenderServer, TLC

CONSTANTS a, b, c

AnyHeader == PipeNames \cup {"other"}
Transfer  == {"transfer"}
AnyFlags  == {"serve", "exit"}

Interchangeable == Permutations({a, b, c})

=============================================================================
