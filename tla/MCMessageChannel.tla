---------------------------- MODULE MCMessageChannel ----------------------------
(* The message channel for TLC: a few threads and messages, all operations or  *)
(* only some of them.                                                          *)
EXTENDS MessageChannel, TLC

CONSTANTS a, b, c, m1, m2

AnyOp       == AllOps
NoEmptyWait == AllOps \ {"waitForEmpty"}

Interchangeable == Permutations({a, b, c})

=============================================================================
