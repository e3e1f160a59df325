--------------------------- MODULE SequenceStore ---------------------------
(***************************************************************************)
(* What the paged KV cache promises, with no blocks, no allocator and no   *)
(* swapping: every sequence has a list of KV entries of its own, and an    *)
(* operation on one sequence leaves the lists of all the others alone.     *)
(* Moving a sequence between GPU and CPU memory does not change its list.  *)
(* The one loss the cache allows is that of swap_in when memory runs out.  *)
(***************************************************************************)
EXTENDS Integers, Sequences

CONSTANTS Seqs, Data, Absent

VARIABLE content

Present(s) == content[s] # Absent

StoreInit == content = [s \in Seqs |-> Absent]

(* allocate_sequence: the fresh entries hold whatever was in their place. *)
Create(s) ==
    /\ ~Present(s)
    /\ content'[s] \in Seq(Data)
    /\ content' = [content EXCEPT ![s] = content'[s]]

(* append_tokens crossing a block boundary: one more entry. *)
Extend(s) ==
    /\ Present(s)
    /\ \E v \in Data : content' = [content EXCEPT ![s] = Append(@, v)]

(* The kernels store one entry. *)
Store(s) ==
    /\ Present(s)
    /\ \E i \in 1 .. Len(content[s]), v \in Data :
          content' = [content EXCEPT ![s][i] = v]

(* free_sequence on each member of S: all that one completed or aborted     *)
(* request held goes together.                                              *)
Drop(S) == content' = [s \in Seqs |-> IF s \in S THEN Absent ELSE content[s]]

(* swap_in out of memory: the entries are gone, the sequence is not. *)
Lose(s) ==
    /\ Present(s)
    /\ content' = [content EXCEPT ![s] = <<>>]

StoreNext ==
    \/ \E s \in Seqs : Create(s) \/ Extend(s) \/ Store(s) \/ Lose(s)
    \/ \E S \in SUBSET Seqs : Drop(S)

StoreSpec == StoreInit /\ [][StoreNext]_content
=============================================================================
