---------------------------- MODULE MCApiSession ----------------------------
(* Instances of ApiSession for TLC.                                        *)
EXTENDS ApiSession, TLC

(* The requests are interchangeable.                                       *)
Permuted == Permutations(Requests)
=============================================================================
