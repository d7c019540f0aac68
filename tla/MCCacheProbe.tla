---------------------------- MODULE MCCacheProbe ----------------------------
(***************************************************************************)
(* Two roots and two revisions.  Root "b" is a complete download with the  *)
(* expected hashes, of either kind, that may be whole before the probe     *)
(* begins; to one of the PyTorch kind a safetensors index may be added     *)
(* afterwards, which shadows it.  Root "a", probed first, downloads        *)
(* another rendering of the same revision with more and larger shards, one *)
(* whose configuration cannot be read, one with an index that does not     *)
(* parse, or a PyTorch one beside a safetensors index.  Shards and         *)
(* tokenizers may be opaque, and an opaque shard is empty.                 *)
(***************************************************************************)
EXTENDS CacheProbe

MCRoots == <<"a", "b">>
MCShards == <<"1.bin", "1.safetensors", "2.safetensors">>
MCListed == [kind \in Kind |->
  IF kind = "pytorch_bin" THEN [c \in {"exact", "other"} |-> {"1.bin"}]
  ELSE [c \in {"exact", "other"} |->
          IF c = "exact" THEN {"1.safetensors"} ELSE {"1.safetensors", "2.safetensors"}]]
MCSize == [c \in {"exact", "other", "opaque"} |->
             CASE c = "exact" -> 1 [] c = "other" -> 2 [] c = "opaque" -> 0]
SI == "model.safetensors.index.json"
PI == "pytorch_model.bin.index.json"

Holding(files, contents) == [f \in File |-> IF f \in files THEN contents[f] ELSE "absent"]
All(c) == [f \in File |-> c]
\* What a root holds of revision "v"; of "w" every root has a configuration.
InA == {[Holding({"config.json", "tokenizer.json", SI, "1.safetensors", "2.safetensors"}, All("other"))
           EXCEPT !["config.json"] = "exact"],
        [Holding({"config.json", "tokenizer.json", SI, "1.safetensors"}, All("exact"))
           EXCEPT !["config.json"] = "opaque", !["tokenizer.json"] = "opaque"],
        [Holding({"config.json", "tokenizer.json", SI}, All("exact"))
           EXCEPT ![SI] = "garbled", !["tokenizer.json"] = "special"],
        [Holding({"tokenizer.model", PI, "1.bin", SI}, All("exact"))
           EXCEPT ![PI] = "other", !["config.json"] = "other"]}
InB == {[Holding({"config.json", "vocab.json", "merges.txt", SI, "1.safetensors"}, All("exact"))
           EXCEPT !["vocab.json"] = "opaque", !["1.safetensors"] = "opaque"],
        [Holding({"config.json", "tokenizer.model", PI, "1.bin"}, All("exact"))
           EXCEPT !["1.bin"] = "opaque"],
        [Holding({"config.json", "tokenizer.model", PI, "1.bin", SI}, All("exact"))
           EXCEPT !["1.bin"] = "opaque"]}
AtW == Holding({"config.json"}, All("other"))
MCCaches == {[p \in Place |-> IF p[2] = "v" THEN IF p[1] = "a" THEN a[p[3]] ELSE b[p[3]]
                              ELSE IF p[1] = "a" THEN AtW[p[3]] ELSE "absent"] :
               a \in InA, b \in InB}
OfB(b) == {"b"} \X {"v"} \X {f \in File : b[f] # "absent"}
MCStarts == {OfB(b) : b \in InB} \cup
            {{<<"a", "v", "config.json">>, <<"b", "v", "config.json">>,
              <<"b", "v", "vocab.json">>, <<"b", "v", SI>>}}
MCMains == {[r \in Root |-> "v"], [r \in Root |-> IF r = "a" THEN None ELSE "v"]}
MCMoves == {<<"a", "w">>}
MCOptions == {[revision |-> "v", expected |-> {}],
              [revision |-> "v", expected |-> {"index", "config"}],
              [revision |-> None, expected |-> {}]}
=============================================================================
