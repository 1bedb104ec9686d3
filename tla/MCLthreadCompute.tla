-------------------------- MODULE MCLthreadCompute --------------------------
(* LthreadCompute with two schedulers, a listener on each. *)
EXTENDS LthreadCompute, TLC

CONSTANTS s1, s2, l1, l2

MCRoot == s1 :> l1 @@ s2 :> l2

(* Compute schedulers are interchangeable; only safety runs use this. *)
MCSymmetry == Permutations(Comps)
=============================================================================
