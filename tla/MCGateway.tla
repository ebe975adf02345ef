------------------------------ MODULE MCGateway ------------------------------
(* The instance of Gateway that is checked: limits 2 and 3, so that every   *)
(* outcome of validation has a request of its own.                          *)
EXTENDS Gateway

Sent(stream, len, max) == [stream |-> stream, bad |-> FALSE, renders |-> TRUE, len |-> len, max |-> max]

KindList ==
  <<Sent(TRUE, 1, 2),                                     \* fills the context
    Sent(FALSE, 2, Unset),                                \* the default, 1
    Sent(FALSE, 3, Unset),                                \* the prompt is too long
    [Sent(TRUE, 1, 3) EXCEPT !.renders = FALSE],          \* the template fails
    Sent(FALSE, 2, 0)>>                                   \* refused before the tokenizer

MCKinds == {KindList[i] : i \in DOMAIN KindList}

(* The requests are interchangeable, so what they are is chosen up to order; *)
(* at most MaxQueued of them get past validation.                            *)
MaxQueued == 2
MCRank(r) == CHOOSE i \in DOMAIN KindList : KindList[i] = kind[r]

MCInit ==
  /\ Init
  /\ \A r, s \in Req : r < s => MCRank(r) <= MCRank(s)
  /\ \A r \in Req : r > MaxQueued => ~WithinLimits(kind[r]) \/ ~kind[r].renders \/ ParametersRefused(kind[r])

MCSpec == MCInit /\ [][Next]_vars /\ Fairness
=============================================================================
