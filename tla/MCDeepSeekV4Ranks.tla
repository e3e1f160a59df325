-------------------------- MODULE MCDeepSeekV4Ranks -------------------------
(* Small instances of DeepSeekV4Ranks: two ranks of two experts or one of   *)
(* three, two layers.                                                       *)
EXTENDS DeepSeekV4Ranks

Tensor(size, sharded, target) == [size |-> size, sharded |-> sharded, target |-> target]
Good == <<Tensor(4, TRUE, 4), Tensor(3, FALSE, 3)>>
Uneven == <<Tensor(5, TRUE, 5)>>
Other == <<Tensor(4, TRUE, 6)>>

One(loader, store, cuda, max, steps) ==
    [loader |-> loader, store |-> store, cuda |-> cuda, world |-> 1, joined |-> [r \in {0} |-> "none"],
     tensors |-> Good, experts |-> 3, max |-> max, steps |-> steps,
     picks |-> {<<<<0, 1>>>>, <<<<1>>, <<2>>>>, <<<<0, 2>>, <<0, 1>>>>}]
Two(second, tensors, experts, max, steps) ==
    [loader |-> "sharded", store |-> "official", cuda |-> TRUE, world |-> 2,
     joined |-> [r \in 0..1 |-> IF r = 0 THEN "same" ELSE second],
     tensors |-> tensors, experts |-> experts, max |-> max, steps |-> steps,
     picks |-> {<<<<0, 1>>>>, <<<<3>>, <<1>>>>, <<<<0, 2>>, <<3, 1>>>>}]

MCSetups ==
    {Two("same", Good, 4, 1, 3), Two("same", Good, 4, 2, 3), Two("same", Uneven, 4, 1, 1), Two("same", Other, 4, 1, 1),
     Two("same", Good, 3, 1, 1), Two("other", Good, 4, 1, 1),
     One("offloaded", "official", TRUE, 2, 4), One("offloaded", "official", FALSE, 1, 3),
     [One("offloaded", "official", TRUE, 1, 2) EXCEPT !.tensors = Other],
     One("none", "provider", TRUE, 1, 3), One("none", "provider", TRUE, 4, 3),
     One("none", "provider", FALSE, 2, 3), One("none", "indexer", TRUE, 0, 3)}

MCMemory == 0..7

=============================================================================
