---------------------------- MODULE MCColocation ----------------------------
(* Model-checking instances of Colocation: requests are interchangeable     *)
(* when none of them is an orphan.                                          *)
EXTENDS Colocation, TLC

Symmetry == Permutations(Req)
=============================================================================
