-------------------------- MODULE MCOffloadEngine --------------------------
(* Small instances of OffloadEngine. *)
EXTENDS OffloadEngine

Model(name, fp, files, quant, dequant, encdec) ==
    [name |-> name, fp |-> fp, shards |-> files, quant |-> quant,
     dequant |-> dequant, encdec |-> encdec,
     shape |-> [layers |-> IF name = "b" THEN <<"moe", "dense", "moe">>
                           ELSE <<"dense", "moe", "moe">>,
                experts |-> 2, firstDense |-> 1, deepseek |-> name = "a",
                dispatched |-> quant \notin {"gptq", "mxfp4"},
                packed |-> quant \in {"gptq", "awq"}]]

W(x) == <<x, "weight">>

(* dense: two files.  awq: the same configuration under another name, packed *)
(* tensors, a head shared with its embedding.  mx: mxfp4, as it is and       *)
(* dequantized, the latter a new version of the same model.                  *)
MCInfo ==
    [m \in Models |->
        IF m = "dense" THEN Model("a", 1, <<<<W("emb"), W("w")>>, <<LmHead>>>>, "none", FALSE, FALSE)
        ELSE IF m = "awq" THEN Model("b", 1, <<<<W("emb"), <<"w", "packed">>>>>>, "awq", FALSE, TRUE)
        ELSE IF m = "mx" THEN Model("c", 1, <<<<LmHead, <<"w", "blocks">>, <<"w", "scales">>>>>>, "mxfp4", FALSE, FALSE)
        ELSE IF m = "mxd" THEN Model("c", 2, <<<<LmHead, <<"w", "blocks">>, <<"w", "scales">>>>>>, "mxfp4", TRUE, FALSE)
        ELSE IF m = "tied" THEN Model("d", 1, <<<<W("emb")>>>>, "none", FALSE, FALSE)
        ELSE Model("e", 1, <<<<W("emb")>>>>, "other", FALSE, FALSE)]

MCTensors == <<{"a"}, {"b", "c", "unused"}, {"d"}>>
Kv == <<[pair |-> TRUE, at |-> "dev", k |-> "cuda0", v |-> "cuda1"],
        [pair |-> FALSE, at |-> "dev", k |-> "cpu", v |-> "cpu"]>>
MCLeaves ==
    <<[stage |-> 1, tensors |-> {"a"}, kv |-> <<>>],
      [stage |-> 2, tensors |-> {"b"}, kv |-> Kv],
      [stage |-> 2, tensors |-> {"c"}, kv |-> <<>>],
      [stage |-> 3, tensors |-> {"d"}, kv |-> <<>>]>>
=============================================================================
