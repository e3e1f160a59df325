---------------------------- MODULE ExpertWiring ----------------------------
(***************************************************************************)
(* How a loaded model's parameters become the nodes that are moved         *)
(* together (OffloadEngine.get_topology), and how the three tables that    *)
(* speak of "expert e of layer l" are numbered: the experts registered     *)
(* with the dispatcher (setup_archer_hooks), the MoE blocks' layer_id and  *)
(* the prefetcher's expert_tensor_map (archer_from_pretrained).            *)
(*                                                                         *)
(* A shape is a model's layers, each dense or MoE, its number of experts,  *)
(* the first_k_dense_replace of its configuration and whether its name has *)
(* "deepseek" in it, whether its experts run through the dispatcher, and   *)
(* whether their tensors are packed.  Layers and experts count from 0.     *)
(***************************************************************************)
EXTENDS Integers, Sequences, FiniteSets, SequencesExt

Parameter(layer, expert, part) == [layer |-> layer, expert |-> expert, part |-> part]
NoExpert == -1
IsExpert(p) == p.expert # NoExpert

ExpertParameters(s, l) ==
    FlattenSeq([e \in 1..s.experts |-> <<Parameter(l, e - 1, "w1"), Parameter(l, e - 1, "w2")>>])

(* model.named_parameters(): the embedding, then layer by layer. *)
LayerParameters(s, l) ==
    <<Parameter(l, NoExpert, "attn")>>
    \o (IF s.layers[l + 1] = "dense" THEN <<Parameter(l, NoExpert, "mlp")>>
        ELSE (IF s.packed THEN <<>> ELSE ExpertParameters(s, l))
             \o <<Parameter(l, NoExpert, "shared_experts")>>)

Parameters(s) ==
    <<Parameter(-1, NoExpert, "embed")>>
    \o FlattenSeq([l \in 1..Len(s.layers) |-> LayerParameters(s, l - 1)])

(* model.named_buffers(): a MoE layer's routing bias, and the experts whose *)
(* packed tensors are buffers.                                              *)
LayerBuffers(s, l) ==
    IF s.layers[l + 1] = "dense" THEN <<>>
    ELSE <<Parameter(l, NoExpert, "bias")>> \o (IF s.packed THEN ExpertParameters(s, l) ELSE <<>>)

Buffers(s) == FlattenSeq([l \in 1..Len(s.layers) |-> LayerBuffers(s, l - 1)])

(* The name up to its last number; up to "experts" for an expert. *)
StoredName(p) == <<p.layer, IsExpert(p)>>


(* get_topology, one parameter: a new stage, a new expert of a stage, or    *)
(* one more tensor of a node.                                               *)
AddParameter(topology, p) ==
    IF \E i \in DOMAIN topology : topology[i].name = StoredName(p)
    THEN LET i == CHOOSE j \in DOMAIN topology : topology[j].name = StoredName(p)
             same == {n \in DOMAIN topology[i].nodes :
                        \E q \in topology[i].nodes[n] : q.expert = p.expert}
         IN IF same # {}
            THEN [topology EXCEPT ![i].nodes[CHOOSE n \in same : TRUE] = @ \cup {p}]
            ELSE [topology EXCEPT ![i].nodes = Append(@, {p})]
    ELSE Append(topology, [name |-> StoredName(p), nodes |-> <<{p}>>])

(* get_topology: the parameters, then the buffers. *)
GetTopology(s) == FoldLeft(AddParameter, <<>>, Parameters(s) \o Buffers(s))

FirstDense(s) == IF s.deepseek THEN s.firstDense ELSE 0

(* setup_archer_hooks: the dispatcher's experts, numbered by counting;      *)
(* gpt-oss and GPTQ models do not use the dispatcher.                       *)
RegisteredExperts(s) ==
    LET stages == IF s.dispatched THEN SelectSeq(GetTopology(s), LAMBDA t : t.name[2]) ELSE <<>>
        first == FirstDense(s)
    IN [k \in {<<first + i - 1, e>> : i \in DOMAIN stages, e \in 0..(s.experts - 1)} |->
            stages[k[1] - first + 1].nodes[k[2] + 1]]

(* module.layer_id of the i-th MoE block. *)
BlockLayerId(s, i) == i - 1 + FirstDense(s)

(* The layer of the model the i-th MoE block is in. *)
MoeLayers(s) == SelectSeq([l \in 1..Len(s.layers) |-> l - 1], LAMBDA l : s.layers[l + 1] = "moe")

(* expert_tensor_map, by the layer number in the name (parse_expert_id);    *)
(* the last tensor of an expert stays.                                      *)
ExpertTensorMap(s) ==
    [k \in {<<l, e>> : l \in Range(MoeLayers(s)), e \in 0..(s.experts - 1)} |->
        Parameter(k[1], k[2], "w2")]

Wiring(s) ==
    [topology |-> GetTopology(s), experts |-> RegisteredExperts(s), map |-> ExpertTensorMap(s)]

-----------------------------------------------------------------------------
(* Every parameter is in exactly one node, and a node is one layer's or one *)
(* expert's: what is moved together is used together.                       *)
TopologyIsPartition(s, w) ==
    LET nodes == UNION {Range(w.topology[i].nodes) : i \in DOMAIN w.topology}
    IN /\ UNION nodes = Range(Parameters(s)) \cup Range(Buffers(s))
       /\ \A n1, n2 \in nodes : n1 # n2 => n1 \cap n2 = {}
       /\ \A n \in nodes : \A p, q \in n : p.layer = q.layer /\ p.expert = q.expert

(* A MoE block that dispatches expert e under its layer_id runs the tensors *)
(* of expert e of its own layer.                                            *)
BlocksRunTheirExperts(s, w) ==
    s.dispatched => \A i \in DOMAIN MoeLayers(s), e \in 0..(s.experts - 1) :
        w.experts[<<BlockLayerId(s, i), e>>] =
            {Parameter(MoeLayers(s)[i], e, "w1"), Parameter(MoeLayers(s)[i], e, "w2")}

(* The prefetcher moves a tensor of the very expert the block dispatches,   *)
(* when the MoE layers are the last ones and the name says how many dense   *)
(* ones come first (otherwise it counts layers and the block counts blocks).*)
PrefetcherAgrees(s, w) ==
    MoeLayers(s) = [i \in DOMAIN MoeLayers(s) |-> BlockLayerId(s, i)] =>
        \A k \in DOMAIN w.experts : w.map[k] \in w.experts[k]
=============================================================================
