--------------------------- MODULE MCPolicyRunner ---------------------------
(* Model-checking instances of PolicyRunner: requests are interchangeable.  *)
EXTENDS PolicyRunner, TLC

Symmetry == Permutations(Req)
=============================================================================
