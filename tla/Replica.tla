------------------------------ MODULE Replica ------------------------------
(***************************************************************************)
(* What one replica of the engine driver promises to the scheduler, which  *)
(* routes by its batch size, and to the clients it serves.  Every request  *)
(* takes a slot when it is assigned; the slot is given up once, by the     *)
(* finish, the drop or the acknowledged abort of the request; a client is  *)
(* answered once, with End after the slot was given up or with Error while *)
(* it is held.  Nothing is promised once the driver has failed.            *)
(***************************************************************************)
EXTENDS Integers, FiniteSets

CONSTANT Req

VARIABLES alive, slots, bs, client

vars == <<alive, slots, bs, client>>

Init == alive = TRUE /\ slots = {} /\ bs = 0 /\ client = [r \in Req |-> "new"]

Assign(r) ==
  /\ client[r] = "new" /\ r \notin slots
  /\ client' = [client EXCEPT ![r] = "waiting"]
  /\ slots' = slots \cup {r} /\ bs' = bs + 1

Leave(r) ==
  /\ client[r] = "waiting"
  /\ client' = [client EXCEPT ![r] = "gone"]
  /\ UNCHANGED <<slots, bs>>

(* The requests of S are finished, as reported by one step of the engine.   *)
Finish(S) ==
  /\ S \subseteq slots
  /\ slots' = slots \ S /\ bs' = bs - Cardinality(S)
  /\ UNCHANGED client

Answer(r) ==
  /\ client[r] = "waiting" /\ r \notin slots
  /\ client' = [client EXCEPT ![r] = "End"]
  /\ UNCHANGED <<slots, bs>>

(* End of a cycle: F are refused, S are dropped or their abort acknowledged;*)
(* no client of S is left waiting.                                          *)
Except(F, S) ==
  /\ F \subseteq slots /\ S \subseteq slots
  /\ client' = [r \in Req |-> IF r \in F /\ client[r] = "waiting" THEN "Error" ELSE client[r]]
  /\ \A r \in S : client'[r] # "waiting"
  /\ slots' = slots \ S /\ bs' = bs - Cardinality(S)

Serve ==
  /\ alive /\ alive'
  /\ \/ \E r \in Req : Assign(r) \/ Leave(r) \/ Answer(r)
     \/ \E S \in SUBSET slots : Finish(S)
     \/ \E F, S \in SUBSET slots : Except(F, S)

(* The driver fails, and whatever happens after that. *)
Fail == ~alive'

Next == Serve \/ Fail

Spec == Init /\ [][Next]_vars
=============================================================================
