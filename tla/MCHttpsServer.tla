---------------------------- MODULE MCHttpsServer ----------------------------
(* HttpsServer for TLC: the blocks of the heap are interchangeable. *)
EXTENDS HttpsServer, TLC

BlockSymmetry == Permutations(Blocks)
==============================================================================
