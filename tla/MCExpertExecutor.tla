-------------------------- MODULE MCExpertExecutor --------------------------
(* Small instances of ExpertExecutor: two layers of two experts, room for   *)
(* one on the GPU.  Every family of blocks is run; the number of blocks of  *)
(* a behaviour is its last argument.                                        *)
EXTENDS ExpertExecutor

Block(family, prefetch, overlap, fails, steps) ==
    [family |-> family, prefetch |-> prefetch, overlap |-> overlap, fails |-> fails, steps |-> steps]

MCBlocks ==
    {Block("mixtral", FALSE, FALSE, FALSE, 4), Block("qwen3", FALSE, FALSE, TRUE, 3),
     Block("deepseek", TRUE, FALSE, FALSE, 2), Block("dbrx", TRUE, TRUE, FALSE, 2),
     Block("nllb", FALSE, FALSE, FALSE, 3)}
    \cup {Block(f, FALSE, FALSE, FALSE, 1) :
            f \in {"olmoe", "jamba", "deepseek_v2", "deepseek_v3", "gpt_oss", "gptq", "gpt_oss_local"}}

Both == <<1, 2>>
MCSelections ==
    [f \in {b.family : b \in MCBlocks} |->
        CASE f = "mixtral"  -> {<<Both>>, <<<<2, 1>>, Both>>}
          [] f = "qwen3"    -> {<<<<1>>>>, <<Both>>, <<<<1>>, <<2>>>>}
          [] f = "nllb"     -> {<<<<>>, <<2>>>>, <<<<1>>, <<2>>>>}
          [] f = "deepseek" -> {<<Both>>, <<<<1>>, <<2>>>>}
          [] f = "dbrx"     -> {<<<<1>>>>, <<<<2>>, <<2>>>>}
          [] OTHER          -> {<<<<2>>>>, <<<<2, 1>>, Both>>}]

=============================================================================
