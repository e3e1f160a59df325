----------------------------- MODULE PrefixCache ----------------------------
(***************************************************************************)
(* PrefixCache (serving/prefix_cache.py): full blocks of a prompt, found   *)
(* again by the hash of their tokens, in LRU order.                        *)
(***************************************************************************)
EXTENDS Integers, Sequences, FiniteSets, SequencesExt, FiniteSetsExt

CONSTANTS
    Prompts,      \* the token sequences inserted and looked up
    BlockSize, MaxEntries, Modulus,   \* Modulus: 256 in the code
    MaxInserts    \* bound on the inserts of a behaviour

ASSUME PrefixAssumption ==
    BlockSize \in Nat \ {0} /\ MaxEntries \in Nat \ {0} /\ Modulus \in Nat \ {0} /\ MaxInserts \in Nat

VARIABLES
    entries,   \* _entries, oldest first: [hash, block, tokens]
    inserts,   \* inserts so far; the blocks of the n-th are <<n, 1>>, <<n, 2>>, ...
    written,   \* what each block was inserted for
    found      \* the last lookup: [prompt, blocks]

prefixVars == <<entries, inserts, written, found>>

PrefixInit ==
    /\ entries = <<>> /\ inserts = 0 /\ written = <<>> /\ found = [prompt |-> <<>>, blocks |-> <<>>]

(* hash_token_block *)
Hash(tokens) == [i \in DOMAIN tokens |-> tokens[i] % Modulus]

(* _iter_full_blocks *)
FullBlocks(prompt) ==
    [k \in 1..(Len(prompt) \div BlockSize) |-> SubSeq(prompt, ((k - 1) * BlockSize) + 1, k * BlockSize)]

Without(es, h) == SelectSeq(es, LAMBDA e : e.hash # h)
Entry(es, h) == CHOOSE e \in Range(es) : e.hash = h

EvictLru(es, n) == SubSeq(es, Min({n, Len(es)}) + 1, Len(es))

Insert(prompt) ==
    /\ inserts < MaxInserts /\ inserts' = inserts + 1
    /\ LET blocks == FullBlocks(prompt)
           put == FoldLeft(LAMBDA es, k : Append(Without(es, Hash(blocks[k])),
                                [hash |-> Hash(blocks[k]), block |-> <<inserts + 1, k>>, tokens |-> blocks[k]]),
                           entries, [k \in DOMAIN blocks |-> k])
       IN /\ entries' = EvictLru(put, Max({Len(put) - MaxEntries, 0}))
          /\ written' = Append(written, blocks)
    /\ UNCHANGED found

(* Mutant: the hash is trusted. *)
MatchesByHash(es, tokens) == \E e \in Range(es) : e.hash = Hash(tokens)

Matches(es, tokens) == \E e \in Range(es) : e.hash = Hash(tokens) /\ e.tokens = tokens

Lookup(prompt) ==
    LET blocks == FullBlocks(prompt)
        n == Max({0} \cup {k \in DOMAIN blocks : \A j \in 1..k : Matches(entries, blocks[j])})
    IN /\ found' = [prompt |-> prompt, blocks |-> [k \in 1..n |-> Entry(entries, Hash(blocks[k])).block]]
       /\ entries' = FoldLeft(LAMBDA es, k : Append(Without(es, Hash(blocks[k])), Entry(es, Hash(blocks[k]))),
                              entries, [k \in 1..n |-> k])
       /\ UNCHANGED <<inserts, written>>

Evict == entries # <<>> /\ entries' = EvictLru(entries, 1) /\ UNCHANGED <<inserts, written, found>>

PrefixNext == Evict \/ \E p \in Prompts : Insert(p) \/ Lookup(p)

-----------------------------------------------------------------------------
(* The blocks a lookup returns were inserted for the very tokens of the     *)
(* prompt, block by block, although tokens that are equal modulo 256 share  *)
(* a hash and replace each other's entry; and there are never more than     *)
(* max_entries, nor two entries of one hash.                                *)
FoundHoldsThePrompt ==
    /\ \A k \in DOMAIN found.blocks :
          written[found.blocks[k][1]][found.blocks[k][2]] = FullBlocks(found.prompt)[k]
    /\ Len(entries) <= MaxEntries
    /\ \A i, j \in DOMAIN entries : entries[i].hash = entries[j].hash => i = j
=============================================================================
