---------------------------- MODULE OffloadCache ----------------------------
(***************************************************************************)
(* The offload directory: how OffloadEngine (runtime/model_offload.py)     *)
(* converts a checkpoint into it once and loads the model from it ever     *)
(* after.  The directory outlives the process: the tensor index            *)
(* (archer_index), the tensors' bytes (archer_param_0), name_id_map.json   *)
(* and model_signature.json.  A load may raise, and the process may die,   *)
(* between any two writes.  Each tensor takes one place of the file.       *)
(***************************************************************************)
EXTENDS Integers, Sequences, FiniteSets, SequencesExt

CONSTANTS
    Models,     \* the models that are ever loaded from this directory
    Info,       \* Info[m]: its name, fingerprint, checkpoint and quantization
    MaxLoads    \* bound on the loads

ASSUME LoadsAssumption == MaxLoads \in Nat

(* A tensor's name is its module and its part: "weight"; "packed" for qweight, *)
(* qzeros, scales and g_idx; "blocks" and "scales" of mxfp4.                   *)
LmHead == <<"lm_head", "weight">>

VARIABLES
    disk,     \* the four files
    pc, model, index, offset, shards, names, ids,  \* the load that is under way
    loads, loaded, partial, unsigned               \* history

diskVars == <<disk>>
loadVars == <<model, index, offset, shards, names, ids>>
histVars == <<loads, loaded, partial, unsigned>>
cacheVars == <<disk, pc, loadVars, histVars>>

Empty == [x \in {} |-> 0]

(* name_id_map.json: absent, torn, or whole. *)
File(state, map) == [state |-> state, ids |-> map]

CacheInit ==
    /\ disk = [index |-> Empty, bytes |-> Empty, map |-> File("absent", Empty), sig |-> {}]
    /\ pc = "out" /\ model = "none" /\ index = Empty /\ offset = 0
    /\ shards = <<>> /\ names = <<>> /\ ids = Empty
    /\ loads = 0 /\ loaded = {} /\ partial = FALSE /\ unsigned = FALSE

Put(f, x, v) == [y \in DOMAIN f \cup {x} |-> IF y = x THEN v ELSE f[y]]

-----------------------------------------------------------------------------
(* Conversions. *)

(* validate_quantization_support *)
Supported(m) == Info[m].quant # "other"

(* should_cast_tensor *)
ShouldCast(m, n) == ~(Info[m].quant \in {"gptq", "awq"} /\ n[2] = "packed")

(* _cast_state_dict_tensors: what becomes of a tensor's type. *)
Dtype(m, n) ==
    IF \/ Info[m].quant = "mxfp4" /\ n[2] \in {"blocks", "scales"}
       \/ ~ShouldCast(m, n)
    THEN "kept" ELSE "cast"

(* With MOE_INFINITY_MXFP4_DEQUANT a pair of blocks and scales of one file  *)
(* becomes one tensor of the model's type, at the end of the file.          *)
Dequantized(m, file) ==
    LET pairs == {b \in {file[i][1] : i \in DOMAIN file} :
                     {<<b, "blocks">>, <<b, "scales">>} \subseteq Range(file)}
    IN IF Info[m].quant = "mxfp4" /\ Info[m].dequant
       THEN SelectSeq(file, LAMBDA n : n[1] \notin pairs)
            \o [i \in 1..Cardinality(pairs) |-> <<SetToSeq(pairs)[i], "weight">>]
       ELSE file

(* What the file of tensors holds for name n of model m. *)
Content(m, n) == [model |-> m, name |-> n, dtype |-> Dtype(m, n)]

(* An mxfp4 parameter is looked up by its base name. *)
WithAliases(m, map) ==
    LET blocks == {n \in DOMAIN map : n[2] = "blocks"}
        base(n) == <<n[1], "weight">>
        names_ == DOMAIN map \cup {base(n) : n \in blocks}
    IN IF Info[m].quant = "mxfp4"
       THEN [x \in names_ |-> IF \E n \in blocks : base(n) = x
                              THEN map[CHOOSE n \in blocks : base(n) = x]
                              ELSE map[x]]
       ELSE map

(* The names of the checkpoint in the order of their ids. *)
Stored(m) == FlattenSeq([i \in DOMAIN Info[m].shards |-> Dequantized(m, Info[m].shards[i])])

(* The parameters of the built model. *)
Params(m) == {IF n[2] \in {"blocks", "scales"} THEN <<n[1], "weight">> ELSE n :
                 n \in Range(Stored(m))} \cup {LmHead}

-----------------------------------------------------------------------------
(* The load. *)

Signature(m) == [name |-> Info[m].name, fp |-> Info[m].fp]

(* A conversion that ends here leaves tensors behind it without the rest of *)
(* them, or without the signature.                                          *)
Converting == pc \in {"read", "store", "serialize", "dump", "sign"}
Interrupted ==
    /\ partial' = (\/ partial
                   \/ /\ Converting /\ DOMAIN disk.index # {}
                      /\ Cardinality(DOMAIN disk.index) < Len(Stored(model)))
    /\ unsigned' = (unsigned \/ (Converting /\ DOMAIN disk.index # {}))

Raise ==
    /\ pc' = "raise" /\ Interrupted
    /\ UNCHANGED <<diskVars, loadVars, loads, loaded>>

(* OffloadEngine.init opens the directory: the index is read, the place of  *)
(* the next new tensor starts at 0.  archer_from_pretrained refuses an      *)
(* unsupported quantization, then converts, unless both the index and the   *)
(* map were there.                                                          *)
Start(m) ==
    /\ pc = "out" /\ loads < MaxLoads
    /\ loads' = loads + 1 /\ loaded' = loaded \cup {m}
    /\ model' = m /\ index' = disk.index /\ offset' = 0
    /\ shards' = Info[m].shards /\ names' = <<>> /\ ids' = Empty
    /\ pc' = IF ~Supported(m) THEN "raise"
             ELSE IF DOMAIN disk.index # {} /\ disk.map.state # "absent" THEN "validate"
             ELSE "read"
    /\ UNCHANGED <<diskVars, partial, unsigned>>

(* One checkpoint file is read and cast. *)
ReadShard ==
    /\ pc = "read" /\ shards # <<>>
    /\ names' = Dequantized(model, Head(shards)) /\ shards' = Tail(shards)
    /\ pc' = "store"
    /\ UNCHANGED <<diskVars, model, index, offset, ids, histVars>>

ReadShardRaises == pc = "read" /\ shards # <<>> /\ Raise

(* _offload_state_dict gives the tensor the next id; what the index already *)
(* has is not written again.                                                *)
StoreTensor ==
    /\ pc = "store" /\ names # <<>>
    /\ LET n == Head(names)
           id == Cardinality(DOMAIN ids)
       IN /\ ids' = Put(ids, n, id)
          /\ IF id \in DOMAIN index THEN pc' = "store" /\ UNCHANGED <<disk, index, offset>>
             ELSE /\ index' = Put(index, id, offset) /\ offset' = offset + 1
                  /\ disk' = [disk EXCEPT !.bytes = Put(@, offset, Content(model, n))]
                  /\ pc' = "serialize"
    /\ names' = Tail(names) /\ UNCHANGED <<model, shards, histVars>>

(* OffloadTensor writes the index after every tensor. *)
SerializeIndex ==
    /\ pc = "serialize" /\ pc' = "store"
    /\ disk' = [disk EXCEPT !.index = index]
    /\ UNCHANGED <<loadVars, histVars>>

ShardDone ==
    /\ pc = "store" /\ names = <<>> /\ pc' = "read"
    /\ UNCHANGED <<diskVars, loadVars, histVars>>

(* open(name_id_map_file, "w") empties the file. *)
OpenMap ==
    /\ pc = "read" /\ shards = <<>>
    /\ ids' = WithAliases(model, ids) /\ disk' = [disk EXCEPT !.map = File("torn", Empty)]
    /\ pc' = "dump"
    /\ UNCHANGED <<model, index, offset, shards, names, histVars>>

DumpMap ==
    /\ pc = "dump" /\ pc' = "sign"
    /\ disk' = [disk EXCEPT !.map = File("whole", ids)]
    /\ UNCHANGED <<loadVars, histVars>>

(* _write_model_signature renames a complete file into place. *)
Sign ==
    /\ pc = "sign" /\ pc' = "build"
    /\ disk' = [disk EXCEPT !.sig = {Signature(model)}]
    /\ UNCHANGED <<loadVars, histVars>>

(* Mutant: only the fingerprint is compared. *)
ValidateFingerprint ==
    /\ pc = "validate"
    /\ \/ disk.sig = {} /\ disk' = [disk EXCEPT !.sig = {Signature(model)}] /\ pc' = "loadmap"
       \/ (\E s \in disk.sig : s.fp = Info[model].fp) /\ pc' = "loadmap" /\ UNCHANGED diskVars
    /\ UNCHANGED <<loadVars, histVars>>

(* _validate_model_signature: a directory without one is stamped. *)
Validate ==
    /\ pc = "validate"
    /\ \/ disk.sig = {} /\ disk' = [disk EXCEPT !.sig = {Signature(model)}] /\ pc' = "loadmap"
       \/ disk.sig = {Signature(model)} /\ pc' = "loadmap" /\ UNCHANGED diskVars
    /\ UNCHANGED <<loadVars, histVars>>

ValidateRaises ==
    pc = "validate" /\ disk.sig \notin {{}, {Signature(model)}} /\ Raise

LoadMap ==
    /\ pc = "loadmap" /\ disk.map.state = "whole"
    /\ ids' = disk.map.ids /\ pc' = "build"
    /\ UNCHANGED <<diskVars, model, index, offset, shards, names, histVars>>

LoadMapRaises == pc = "loadmap" /\ disk.map.state = "torn" /\ Raise

(* The model is built.  Without a head of its own it shares tensor 0, which *)
(* only a model with an encoder has the attributes for.                     *)
BuildModel ==
    /\ pc = "build"
    /\ LmHead \in DOMAIN ids \/ Info[model].encdec
    /\ ids' = IF LmHead \in DOMAIN ids THEN ids ELSE Put(ids, LmHead, 0)
    /\ pc' = "register"
    /\ UNCHANGED <<diskVars, model, index, offset, shards, names, histVars>>

(* _from_config or the conversion of a quantized model raises. *)
BuildRaises ==
    /\ pc = "build"
    /\ \/ Info[model].quant \in {"gptq", "awq"}
       \/ LmHead \notin DOMAIN ids /\ ~Info[model].encdec
    /\ Raise

Registered == Params(model) \cap DOMAIN ids

(* setup_archer_hooks registers every parameter the map names; a tensor the *)
(* index does not have ends the process.                                    *)
Register ==
    /\ pc = "register"
    /\ pc' = IF \A p \in Registered : ids[p] \in DOMAIN index THEN "exit" ELSE "abort"
    /\ UNCHANGED <<diskVars, loadVars, histVars>>

LoadStep ==
    \/ ReadShard \/ ReadShardRaises \/ StoreTensor \/ SerializeIndex \/ ShardDone
    \/ OpenMap \/ DumpMap \/ Sign
    \/ Validate \/ ValidateRaises \/ LoadMap \/ LoadMapRaises
    \/ BuildModel \/ BuildRaises \/ Register

(* The process dies at any moment. *)
Dies ==
    /\ pc # "out" /\ pc' = "out" /\ Interrupted
    /\ model' = "none" /\ index' = Empty /\ offset' = 0
    /\ shards' = <<>> /\ names' = <<>> /\ ids' = Empty
    /\ UNCHANGED <<diskVars, loads, loaded>>

-----------------------------------------------------------------------------
(* No conversion was left half done, and none left unsigned to another model. *)
Undamaged == ~partial /\ (unsigned => Cardinality(loaded) = 1)

(* What a parameter of the running model reads. *)
Reads(p) == disk.bytes[disk.index[ids[p]]]

(* The tensor of the checkpoint a parameter stands for. *)
Origin(p) ==
    IF p \in Range(Stored(model)) THEN p
    ELSE IF <<p[1], "blocks">> \in Range(Stored(model)) THEN <<p[1], "blocks">>
    ELSE Stored(model)[1]

(* The cache directory is sound.  Every parameter of a loaded model reads   *)
(* its own tensor, with its bits as they were or converted to the model's   *)
(* type, whichever models were loaded from the directory and whatever       *)
(* raised or died before: as long as no conversion was left half done, and  *)
(* none left unsigned to another model.  A complete name_id_map.json names  *)
(* only tensors the index has, so archer_engine.register() never meets an   *)
(* unknown id, and bit-packed tensors are stored bit for bit.               *)
ReadsOwnWeights ==
    /\ pc = "ready" /\ Undamaged =>
          \A p \in Registered : Reads(p) = Content(model, Origin(p))
    /\ \A n \in DOMAIN disk.map.ids : disk.map.ids[n] \in DOMAIN disk.index
    /\ pc # "abort"
    /\ \A o \in DOMAIN disk.bytes :
          disk.bytes[o].name[2] \in {"packed", "blocks"} => disk.bytes[o].dtype = "kept"
=============================================================================
