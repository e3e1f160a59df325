---------------------------- MODULE ExpertRouting ---------------------------
(***************************************************************************)
(* How the MoE blocks (models/) turn a token's top-k experts into          *)
(* the mask and the weights they dispatch.  A selection is the sequence of *)
(* the chosen experts, the heaviest first; its i-th expert has the weight  *)
(* Rank(selection, i), and normalising keeps the order of the weights.     *)
(***************************************************************************)
EXTENDS Integers, Sequences, FiniteSets, SequencesExt, FiniteSetsExt

Rank(selection, i) == Len(selection) + 1 - i

(* The sum over the k one-hot rows: Mixtral, Qwen3, OLMoE, Jamba. *)
OneHotWeights(E, selection) ==
    [e \in E |-> MapThenSumSet(LAMBDA i : IF selection[i] = e THEN Rank(selection, i) ELSE 0,
                               DOMAIN selection)]

(* scatter_ into zeros: DeepSeek's own gate, gpt-oss. *)
ScatterWeights(E, selection) ==
    FoldLeft(LAMBDA w, i : [w EXCEPT ![selection[i]] = Rank(selection, i)],
             [e \in E |-> 0], [i \in DOMAIN selection |-> i])

(* scatter_add_ into zeros: DBRX, DeepSeek V2 and V3, V4's masks. *)
ScatterAddWeights(E, selection) ==
    FoldLeft(LAMBDA w, i : [w EXCEPT ![selection[i]] = @ + Rank(selection, i)],
             [e \in E |-> 0], [i \in DOMAIN selection |-> i])

(* logical_or of the first two columns. *)
MixtralMask(selection) == {selection[1], selection[2]}

(* any over the columns. *)
AnyMask(E, selection) == {e \in E : \E i \in DOMAIN selection : selection[i] = e}

(* scatter_(True). *)
ScatterMask(selection) == Range(selection)

(* combining_weights.bool(): a token the router dropped has none. *)
NllbMask(E, weights) == {e \in E : weights[e] # 0}

(* One operator per block of models/: what its forward dispatches. *)
MixtralRoute(E, s) == [mask |-> MixtralMask(s), weight |-> OneHotWeights(E, s)]
QwenRoute(E, s) == [mask |-> AnyMask(E, s), weight |-> OneHotWeights(E, s)]
OlmoeRoute(E, s) == [mask |-> AnyMask(E, s), weight |-> OneHotWeights(E, s)]
JambaRoute(E, s) == [mask |-> AnyMask(E, s), weight |-> OneHotWeights(E, s)]
DbrxRoute(E, s) == [mask |-> ScatterMask(s), weight |-> ScatterAddWeights(E, s)]
DeepseekRoute(E, s) == [mask |-> ScatterMask(s), weight |-> ScatterWeights(E, s)]
DeepseekV2Route(E, s) == [mask |-> ScatterMask(s), weight |-> ScatterAddWeights(E, s)]
DeepseekV3Route(E, s) == [mask |-> ScatterMask(s), weight |-> ScatterAddWeights(E, s)]
DeepseekV4Route(E, s) == [mask |-> ScatterMask(s), weight |-> ScatterAddWeights(E, s)]
GptOssRoute(E, s) == [mask |-> ScatterMask(s), weight |-> ScatterWeights(E, s)]
NllbRoute(E, s) == [mask |-> NllbMask(E, OneHotWeights(E, s)), weight |-> OneHotWeights(E, s)]

Route(family, E, s) ==
    CASE family = "mixtral"     -> MixtralRoute(E, s)
      [] family = "qwen3"       -> QwenRoute(E, s)
      [] family = "olmoe"       -> OlmoeRoute(E, s)
      [] family = "jamba"       -> JambaRoute(E, s)
      [] family = "dbrx"        -> DbrxRoute(E, s)
      [] family = "deepseek"    -> DeepseekRoute(E, s)
      [] family = "deepseek_v2" -> DeepseekV2Route(E, s)
      [] family = "deepseek_v3" -> DeepseekV3Route(E, s)
      [] family = "gpt_oss"     -> GptOssRoute(E, s)
      [] family = "nllb"        -> NllbRoute(E, s)

(* Two blocks can do without the dispatcher: expert after expert, they add  *)
(* its weighted output to the tokens that chose it.  GPTQ Mixtral finds the *)
(* tokens and the rank they gave the expert in the one-hot mask ...         *)
AddByRank(E, selections, f, e) ==
    [t \in DOMAIN selections |->
        [f[t] EXCEPT ![e] = @ + MapThenSumSet(LAMBDA i : Rank(selections[t], i),
                                    {i \in DOMAIN selections[t] : selections[t][i] = e})]]

(* ... and gpt-oss in the scattered mask and weights. *)
AddByMask(E, selections, f, e) ==
    [t \in DOMAIN selections |->
        IF e \in ScatterMask(selections[t])
        THEN [f[t] EXCEPT ![e] = @ + ScatterWeights(E, selections[t])[e]] ELSE f[t]]

Zeros(E, selections) == [t \in DOMAIN selections |-> [e \in E |-> 0]]
GptqForward(E, selections) ==
    FoldLeft(LAMBDA f, e : AddByRank(E, selections, f, e), Zeros(E, selections), SetToSortSeq(E, <))
GptOssForward(E, selections) ==
    FoldLeft(LAMBDA f, e : AddByMask(E, selections, f, e), Zeros(E, selections), SetToSortSeq(E, <))

(* dispatch_local: the experts some token of the batch is routed to. *)
ExpertList(E, routes) == {e \in E : \E t \in DOMAIN routes : e \in routes[t].mask}
=============================================================================
