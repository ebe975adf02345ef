----------------------------- MODULE MCPrefixCache -----------------------------
EXTENDS PrefixCache

MCReq == 1..3
MCBid == 1..4
MCNode == 0..8

(* Two requests with the same first block, a third with nothing in common with them. *)
MCPrompt == <<<<"a", "a", "b", "b", "c">>, <<"a", "a", "c", "c">>, <<"b", "b", "c", "c">>>>
MCGenToken == <<"d", "d", "e">>

MCMaxGen == <<1, 0, 0>>

Full(r) == MCPrompt[r] \o [i \in 1..(MaxGen[r] + 1) |-> MCGenToken[r]]
MCHash == UNION {{SubSeq(Full(r), 1, n) : n \in 1..Len(Full(r))} : r \in MCReq}

===============================================================================
