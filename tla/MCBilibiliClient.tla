-------------------------- MODULE MCBilibiliClient ---------------------------
(* Instance of BilibiliClient for TLC: calls are interchangeable. *)
EXTENDS BilibiliClient

CallSymmetry == Permutations(Calls)

=============================================================================
