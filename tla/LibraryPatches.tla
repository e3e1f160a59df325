--------------------------- MODULE LibraryPatches ---------------------------
(***************************************************************************)
(* What OffloadEngine changes in torch and transformers while it builds a  *)
(* model (__enter__, __exit__, clean_up and runtime/hooks.py).  A function *)
(* or class attribute is the number of wrappers around the original; a     *)
(* replaced MoE block class is 1, the library's own class 0.               *)
(***************************************************************************)
EXTENDS Naturals

(* Put back by __exit__: the model class's __init__, post_init and          *)
(* from_pretrained, Module.apply, index_select, and the constructors and    *)
(* reset_parameters of torch.nn.                                            *)
Functions == {"init", "post_init", "from_pretrained", "apply", "index_select", "nn"}
Attributes == Functions \cup {"QuantLinear", "blocks", "gpt_oss"}

VARIABLES attr, old   \* the attributes and their _old_ copies
patchVars == <<attr, old>>

Original == [a \in Attributes |-> 0]
PatchInit == attr = Original /\ old = Original

(* activate_empty_init and deactivate_empty_init, on the constructors and   *)
(* reset_parameters of every module of torch.nn.                            *)
ActivateEmptyInit(f) == [f EXCEPT !["nn"] = attr["nn"] + 1]
DeactivateEmptyInit(f) == [f EXCEPT !["nn"] = old["nn"]]

(* __enter__ wraps QuantLinear.__init__ twice, and saves what the first     *)
(* time left as the original.                                               *)
EnterPatches ==
    /\ old' = [a \in Attributes |-> IF a = "QuantLinear" THEN attr[a] + 1 ELSE attr[a]]
    /\ attr' = ActivateEmptyInit(
                  [a \in Attributes |-> IF a = "QuantLinear" THEN attr[a] + 2
                                        ELSE IF a \in Functions THEN attr[a] + 1
                                        ELSE 1])

(* archer_from_pretrained puts the class's own __init__ back before it      *)
(* builds the model: at the start of a conversion, or once the signature of *)
(* the directory was accepted.                                              *)
UnwrapInit == attr' = [attr EXCEPT !["init"] = old["init"]] /\ UNCHANGED old

(* __exit__, with or without an exception. *)
ExitPatches ==
    /\ attr' = DeactivateEmptyInit([a \in Attributes |-> IF a = "blocks" THEN attr[a] ELSE old[a]])
    /\ UNCHANGED old

(* clean_up *)
CleanUpPatches ==
    /\ attr' = [attr EXCEPT !["blocks"] = old["blocks"], !["gpt_oss"] = old["gpt_oss"]]
    /\ UNCHANGED old
=============================================================================
