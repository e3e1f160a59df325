-------------------------- MODULE OffloadingPolicy --------------------------
(***************************************************************************)
(* The replacement policies of memory/offloading_policy.py as values.      *)
(* An OrderedDict is the sequence of its keys, oldest first; val gives the *)
(* value of each key a policy holds.  LRUPolicy uses t1 only.  ARCPolicy   *)
(* keeps keys seen once in t1, keys seen again in t2, the keys that fell   *)
(* out of them in the ghost lists b1 and b2, and a target size p for t1.   *)
(***************************************************************************)
EXTENDS Integers, Sequences, SequencesExt

Bigger(a, b) == IF a > b THEN a ELSE b
Smaller(a, b) == IF a < b THEN a ELSE b
Has(list, k) == k \in ToSet(list)
ToEnd(list, k) == Append(Remove(list, k), k)

NewPolicy(kind, cap, keys) ==
    [kind |-> kind, cap |-> cap, p |-> 0,
     t1 |-> <<>>, t2 |-> <<>>, b1 |-> <<>>, b2 |-> <<>>, val |-> [k \in keys |-> 0]]

Held(pol) == pol.t1 \o pol.t2
Holds(pol, k) == Has(Held(pol), k)

(* LRUPolicy.get and ARCPolicy.get: a hit moves the key to the young end. *)
Get(pol, k) ==
    CASE ~ Holds(pol, k) -> pol
      [] Holds(pol, k) /\ pol.kind = "LRU" -> [pol EXCEPT !.t1 = ToEnd(@, k)]
      [] Holds(pol, k) /\ pol.kind = "ARC" ->
           [pol EXCEPT !.t1 = Remove(@, k), !.t2 = ToEnd(@, k)]

(* Mutant: the ghost lists are bounded one by one only. *)
TrimEachGhost(pol) ==
    LET cut(list) == SubSeq(list, Bigger(0, Len(list) - pol.cap) + 1, Len(list))
    IN [pol EXCEPT !.b1 = cut(@), !.b2 = cut(@)]

(* _trim_ghosts: each ghost list is cut to the capacity, then both        *)
(* together, from the longer one.                                         *)
TrimGhosts(pol) ==
    LET cut(list) == SubSeq(list, Bigger(0, Len(list) - pol.cap) + 1, Len(list))
        drop(q, i) ==
            CASE Len(q.b1) + Len(q.b2) <= q.cap -> q
              [] Len(q.b1) + Len(q.b2) > q.cap /\ Len(q.b1) >= Len(q.b2) ->
                   [q EXCEPT !.b1 = Tail(@)]
              [] OTHER -> [q EXCEPT !.b2 = Tail(@)]
    IN FoldLeft(drop, [pol EXCEPT !.b1 = cut(@), !.b2 = cut(@)], [i \in 1 .. pol.cap |-> i])

T1ToGhost(pol) == [pol EXCEPT !.t1 = Tail(@), !.b1 = Append(@, Head(pol.t1))]
T2ToGhost(pol) == [pol EXCEPT !.t2 = Tail(@), !.b2 = Append(@, Head(pol.t2))]

(* _replace: room for k, whose victim the caller is not told of. *)
Replace(pol, k) ==
    LET overTarget == \/ Len(pol.t1) > pol.p
                      \/ Has(pol.b2, k) /\ Len(pol.t1) = pol.p
    IN CASE pol.t1 # <<>> /\ overTarget -> T1ToGhost(pol)
         [] ~ (pol.t1 # <<>> /\ overTarget) /\ pol.t2 # <<>> -> T2ToGhost(pol)
         [] ~ (pol.t1 # <<>> /\ overTarget) /\ pol.t2 = <<>> /\ pol.t1 # <<>> -> T1ToGhost(pol)
         [] OTHER -> pol

LRUPut(pol, k) ==
    LET room == IF ~ Holds(pol, k) /\ Len(pol.t1) >= pol.cap
                THEN [pol EXCEPT !.t1 = Tail(@)] ELSE pol
    IN [room EXCEPT !.t1 = ToEnd(@, k)]

(* ARCPolicy.put of a key whose ghost is in b1 or b2: p moves towards the  *)
(* list that would have hit.                                               *)
GhostHit(pol, k) ==
    LET step(far, near) == Bigger(1, Len(far) \div Bigger(1, Len(near)))
        p == IF Has(pol.b1, k) THEN Smaller(pol.cap, pol.p + step(pol.b2, pol.b1))
                               ELSE Bigger(0, pol.p - step(pol.b1, pol.b2))
    IN TrimGhosts([Replace([pol EXCEPT !.p = p], k) EXCEPT
                     !.b1 = Remove(@, k), !.b2 = Remove(@, k), !.t2 = Append(@, k)])

(* ARCPolicy.put of a key it knows nothing of. *)
NewKey(pol, k) ==
    LET l1    == Len(pol.t1) + Len(pol.b1)
        total == l1 + Len(pol.t2) + Len(pol.b2)
        cut   == IF total >= 2 * pol.cap /\ pol.b2 # <<>>
                 THEN [pol EXCEPT !.b2 = Tail(@)] ELSE pol
        room  == CASE l1 = pol.cap /\ Len(pol.t1) < pol.cap ->
                        Replace([pol EXCEPT !.b1 = Tail(@)], k)
                   [] l1 = pol.cap /\ Len(pol.t1) = pol.cap -> [pol EXCEPT !.t1 = Tail(@)]
                   [] l1 < pol.cap /\ total >= pol.cap -> Replace(cut, k)
                   [] OTHER -> pol
    IN TrimGhosts([room EXCEPT !.t1 = Append(@, k)])

ARCPut(pol, k) ==
    CASE Holds(pol, k) -> [pol EXCEPT !.t1 = Remove(@, k), !.t2 = ToEnd(@, k)]
      [] ~ Holds(pol, k) /\ Has(pol.b1 \o pol.b2, k) -> GhostHit(pol, k)
      [] OTHER -> NewKey(pol, k)

Put(pol, k, v) ==
    LET with == [pol EXCEPT !.val[k] = v] IN
    IF pol.kind = "LRU" THEN LRUPut(with, k) ELSE ARCPut(with, k)

(* evict: the key that goes is the head of Held. *)
Victim(pol) == Head(Held(pol))

Evict(pol) ==
    CASE pol.kind = "LRU" -> [pol EXCEPT !.t1 = Tail(@)]
      [] pol.kind = "ARC" /\ pol.t1 # <<>> -> TrimGhosts(T1ToGhost(pol))
      [] OTHER -> TrimGhosts(T2ToGhost(pol))
=============================================================================
