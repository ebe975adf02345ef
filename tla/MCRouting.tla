------------------------------- MODULE MCRouting -------------------------------
EXTENDS Routing

MCRequests == {48}
MCCached == {0, 2}

(* How far a policy is explored.  random-q may choose any replica: what any *)
(* policy without a window can do after a step of an engine, it can do too. *)
(* Two steps matter to the samples of an idle time, which only preble-tps-q *)
(* has, and those of the others are too old at 3.                           *)
Explored ==
    CASE policy \in {"random-q", "preble-tps-q"} -> TRUE
      [] policy \in {"preble-q", "preble-bs-q"} -> now <= 3 /\ steps <= 1
      [] OTHER -> steps = 0

================================================================================
