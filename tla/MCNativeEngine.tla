--------------------------- MODULE MCNativeEngine ---------------------------
(***************************************************************************)
(* Three requests: two have their first block in common, and one needs all *)
(* the GPU blocks and more than the CPU has.                               *)
(***************************************************************************)
EXTENDS NativeEngine

MCPrompt ==
    CHOOSE f \in [Requests -> {[full |-> <<"a", "b">>, tail |-> 0],
                               [full |-> <<"a">>, tail |-> 0],
                               [full |-> <<"c", "d">>, tail |-> 1]}] :
        \A r, q \in Requests : r # q => f[r] # f[q]
=============================================================================
