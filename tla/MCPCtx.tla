---------------------------------- MODULE MCPCtx ----------------------------------
(* Of the prompts the first and the third are the same, whole blocks only, *)
(* the second shares their first block and ends in part of one, and the    *)
(* fourth has nothing in common with them.                                 *)
EXTENDS PCtx

MCReq == 1..4
MCInputLength == <<4, 3, 4, 2>>
MCHashes == <<<<<<"a">>, <<"a", "b">>>>, <<<<"a">>>>, <<<<"a">>, <<"a", "b">>>>, <<<<"c">>>>>>
MCMaxDecode == <<1, 1, 0, 1>>
MCPredict(batch) == batch.num_tokens + batch.size
====
