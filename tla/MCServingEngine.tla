-------------------------- MODULE MCServingEngine --------------------------
(***************************************************************************)
(* A small instance of ServingEngine.  Request r may have the sequences    *)
(* <<r, 1>> and <<r, 2>>.                                                  *)
(***************************************************************************)
EXTENDS ServingEngine

MCRequests == 1 .. 3
MCSeqs == Requests \X (1 .. 2)
MCSeqsOf == [r \in Requests |-> << <<r, 1>>, <<r, 2>> >>]

Shape(n, prompt, maxNew) == [n |-> n, prompt |-> prompt, maxNew |-> maxNew]

(* Preemption, partial recovery, parallel sampling; each fits by itself, but *)
(* a decode step may find the cache full.                                    *)
Contention ==
    [shapes |-> {Shape(1, 1, 2), Shape(2, 1, 3), Shape(1, 4, 2)}, arrivals |-> 3,
     useCP |-> FALSE, paged |-> FALSE, forwardMayFail |-> FALSE, callbackMayRaise |-> FALSE]

(* An empty prompt, a prompt that fills its last block but one slot, a       *)
(* request that is larger than the whole cache; everything that can raise    *)
(* does, and the waiting queue is reordered.                                 *)
Failures ==
    [shapes |-> {Shape(1, 0, 1), Shape(2, 1, 2), Shape(1, 2, 2), Shape(1, 7, 1)}, arrivals |-> 2,
     useCP |-> TRUE, paged |-> TRUE, forwardMayFail |-> TRUE, callbackMayRaise |-> TRUE]

(* Requests that compete for blocks but never outgrow those of their prompt. *)
Competition ==
    [shapes |-> {Shape(1, 1, 2), Shape(2, 1, 2), Shape(1, 3, 2)}, arrivals |-> 3,
     useCP |-> FALSE, paged |-> FALSE, forwardMayFail |-> FALSE, callbackMayRaise |-> FALSE]

ContentionSettings == {Contention, Failures}
LivenessSettings == {Competition}
SwapSettings == {Contention}
=============================================================================
