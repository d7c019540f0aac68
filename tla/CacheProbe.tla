----------------------------- MODULE CacheProbe -----------------------------
(***************************************************************************)
(* probe of tools/probe_qwen_cache.py: a walk over the cache roots which   *)
(* opens or stats one known file of a snapshot after the other, while a    *)
(* downloader goes on adding files to the same snapshots and moving        *)
(* refs/main.  Every look at the file system is one step.                  *)
(*                                                                         *)
(* The contents of a file are reduced to what the probe tells apart:       *)
(*   "exact"    a regular file with the hash the caller expects            *)
(*   "other"    a regular file with another hash                           *)
(*   "garbled"  an index that does not parse or names an unsafe shard      *)
(*   "opaque"   a regular file that cannot be read whole: unreadable, or   *)
(*              larger than the limit of what is hashed                    *)
(*   "special"  not a regular file, or one that cannot be stat'ed          *)
(* config.json, tokenizer_config.json and the indices are opened and read; *)
(* tokenizer files and shards are only stat'ed, so of them the probe takes *)
(* an opaque or an empty file for present, and never looks into one.       *)
(* A downloader never changes or removes a file that has arrived: a        *)
(* snapshot belongs to one revision and its files are renamed into place.  *)
(***************************************************************************)
EXTENDS Naturals, Sequences, FiniteSetsExt

CONSTANTS Roots,      \* the cache roots, in the order they are probed
          Revision,   \* full lowercase SHAs
          None,       \* null
          Shards,     \* all shard names, sorted
          Listed,     \* the shards an index names, by its kind and contents
          Size,       \* bytes of a shard, by its contents
          Caches,     \* what the roots may hold once downloads have ended
          Starts,     \* which of it may be there when the probe starts
          Mains,      \* what refs/main may be then, root by root
          Moves,      \* where it may move
          Options     \* command lines

Root == {Roots[i] : i \in DOMAIN Roots}
Shard == {Shards[i] : i \in DOMAIN Shards}
Kind == {"safetensors", "pytorch_bin"}
Index == [kind \in Kind |-> IF kind = "safetensors" THEN "model.safetensors.index.json"
                                                   ELSE "pytorch_model.bin.index.json"]
Order == <<"config.json", "tokenizer.json", "tokenizer.model", "vocab.json", "merges.txt",
           "tokenizer_config.json", Index["safetensors"], Index["pytorch_bin"]>> \o Shards
File == {Order[i] : i \in DOMAIN Order}
Content == {"exact", "other", "garbled", "opaque", "special"}
Place == Root \X Revision \X File

\* Without a root the loop of probe is never entered.
ASSUME RootAssumption == Roots \in Seq(Root) /\ Roots # <<>>
\* The patterns of _safe_shard_name: a shard has none of the other names.
ASSUME ShardAssumption == /\ Shards \in Seq(Shard)
                          /\ \A i \in 1..8 : Order[i] \notin Shard
ASSUME ListedAssumption ==
  Listed \in [Kind -> [{"exact", "other"} -> (SUBSET Shard) \ {{}}]]
ASSUME SizeAssumption == Size \in [{"exact", "other", "opaque"} -> Nat]
ASSUME CacheAssumption == /\ Caches \subseteq [Place -> Content \cup {"absent"}]
                          /\ \A c \in Caches, p \in Place :
                               c[p] = "garbled" => p[3] \in {Index[k] : k \in Kind}
                          /\ Starts \subseteq SUBSET Place
                          /\ Mains \subseteq [Root -> Revision \cup {None}]
                          /\ Moves \subseteq Root \X Revision
\* main refuses expected hashes without a revision.
ASSUME OptionAssumption ==
  /\ Options \subseteq [revision : Revision \cup {None},
                        expected : SUBSET {"config", "index", "tokenizer_config"}]
  /\ \A o \in Options : o.expected # {} => o.revision # None

\* None is no revision, and no entry.
ASSUME NoneAssumption == /\ None \notin Revision
                         /\ \A D \in SUBSET File : None \notin [D -> Content \cup {"absent"}]

VARIABLES options,    \* the command line
          cache,      \* what the roots will hold
          arrived,    \* which of it is there already
          main,       \* the revision in refs/main of each root
          ready,      \* snapshots that were whole when the probe began, and
                      \* the kind of their index (history)
          at,         \* the probe is at Roots[at]
          phase,      \* next look: "root", "ref", "snapshot", "files" or "done"
          revision,   \* candidate_revision
          seen,       \* what this snapshot's files were when they were looked at
          best,       \* best_by_revision, an entry as what was seen
          cacheFound  \* model_cache_directory_found

disk == <<options, cache, arrived, main, ready>>
probe == <<at, phase, revision, seen, best, cacheFound>>
vars == <<disk, probe>>

On(r, v, f) == IF <<r, v, f>> \in arrived THEN cache[<<r, v, f>>] ELSE "absent"
\* A downloader makes a snapshot's directory for the first file it puts there.
IsDirectory(r, v) == \E f \in File : On(r, v, f) # "absent"

\* The contents with which a file counts: _read_bounded_regular reads it whole,
\* _regular_file_size finds a regular file.
Opened == {"config.json", "tokenizer_config.json"} \cup {Index[kind] : kind \in Kind}
Accepted(f) == {"exact", "other"} \cup (IF f \in Opened THEN {} ELSE {"opaque"})

\* A whole snapshot, stated of the disk and not of what was seen: a configuration
\* and an index that can be read, a tokenizer, and a regular file for every shard
\* that the index names.  Whether a loader can use these files is not looked at.
Whole(r, v, kind) ==
  LET Has(f) == On(r, v, f) \in Accepted(f) IN
  /\ Has("config.json")
  /\ Has("tokenizer.json") \/ Has("tokenizer.model") \/ (Has("vocab.json") /\ Has("merges.txt"))
  /\ Has(Index[kind])
  /\ \A s \in Listed[kind][On(r, v, Index[kind])] : Has(s)
Expected(name, r, v, kind) ==
  On(r, v, CASE name = "config" -> "config.json" [] name = "index" -> Index[kind]
             [] name = "tokenizer_config" -> "tokenizer_config.json") = "exact"
\* A safetensors index is there, or will be, beside a whole PyTorch snapshot: the
\* probe judges the snapshot by that index and misses that it is whole.
Shadowed(r, v, kind) ==
  kind = "pytorch_bin" /\ cache[<<r, v, Index["safetensors"]>>] # "absent"

Init == /\ options \in Options
        /\ cache \in Caches /\ arrived \in Starts
        /\ \A p \in arrived : cache[p] # "absent"
        /\ main \in Mains
        /\ ready = {w \in Root \X Revision \X Kind :
                      /\ Whole(w[1], w[2], w[3]) /\ ~Shadowed(w[1], w[2], w[3])
                      /\ \A e \in options.expected : Expected(e, w[1], w[2], w[3])}
        /\ at = 1 /\ phase = "root" /\ revision = None /\ seen = <<>>
        /\ best = [v \in Revision |-> None]
        /\ cacheFound = FALSE

(***************************************************************************)
(* What is derived from the files seen so far.                             *)
(***************************************************************************)
Saw(s, f) == IF f \in DOMAIN s THEN s[f] ELSE "unseen"
Regular(s, f) == Saw(s, f) \in Accepted(f)

\* _read_index: the PyTorch index is opened only when there is no other.
IndexKind(s) == IF Saw(s, Index["safetensors"]) = "absent" THEN "pytorch_bin" ELSE "safetensors"
IndexSeen(s) == Saw(s, Index[IndexKind(s)])
Parsed(s) == Regular(s, Index[IndexKind(s)])
Named(s) == IF Parsed(s) THEN Listed[IndexKind(s)][IndexSeen(s)] ELSE {}

EitherTokenizerFile(s) == Regular(s, "vocab.json") \/ Regular(s, "merges.txt")
HasTokenizerPair(s) == Regular(s, "vocab.json") /\ Regular(s, "merges.txt")
HasTokenizer(s) == Regular(s, "tokenizer.json") \/ Regular(s, "tokenizer.model") \/ HasTokenizerPair(s)

\* The short cuts of "or" and "and", of _read_index and of index_parsed.
Skipped(s, f) ==
  \/ f = "tokenizer.model" /\ HasTokenizer(s)
  \/ f = "vocab.json" /\ HasTokenizer(s)
  \/ f = "merges.txt" /\ (HasTokenizer(s) \/ ~Regular(s, "vocab.json"))
  \/ f = Index["pytorch_bin"] /\ IndexKind(s) # "pytorch_bin"
  \/ f \in Shard /\ f \notin Named(s)
Remaining(s) == {i \in DOMAIN Order : Order[i] \notin DOMAIN s /\ ~Skipped(s, Order[i])}

Present(s) == {f \in Named(s) : Regular(s, f)}
Bytes(s) == MapThenSumSet(LAMBDA f : Size[s[f]], Present(s))

ObservedHash(s, name) ==
  Saw(s, CASE name = "config" -> "config.json" [] name = "index" -> Index[IndexKind(s)]
           [] name = "tokenizer_config" -> "tokenizer_config.json")
AnyHashMatches(s) == options.expected = {} \/ \E n \in options.expected : ObservedHash(s, n) = "exact"
HashesMatch(s) == \A n \in options.expected : ObservedHash(s, n) = "exact"

Complete(s) == /\ Regular(s, "config.json") /\ HasTokenizer(s)
               /\ Parsed(s) /\ Present(s) = Named(s)
               /\ HashesMatch(s)
ExactShards(s) == /\ "index" \in options.expected /\ IndexSeen(s) = "exact"
                  /\ Parsed(s) /\ Present(s) = Named(s)

\* _probe_rank, compared as Python compares tuples.
RankedBySize(s, t) ==
  LET c == Cardinality(Present(s)) d == Cardinality(Present(t)) IN
  c > d \/ (c = d /\ Bytes(s) > Bytes(t))
RanksAbove(s, t) ==
  LET c == Cardinality(Present(s)) d == Cardinality(Present(t)) IN
  \/ Complete(s) /\ ~Complete(t)
  \/ Complete(s) = Complete(t) /\ c > d
  \/ Complete(s) = Complete(t) /\ c = d /\ Bytes(s) > Bytes(t)

(***************************************************************************)
(* The probe.                                                              *)
(***************************************************************************)
NextRootKeepsSeen == /\ at' = at + 1
                     /\ phase' = IF at = Len(Roots) THEN "done" ELSE "root"
                     /\ revision' = None /\ UNCHANGED seen
NextRoot == /\ at' = at + 1
            /\ phase' = IF at = Len(Roots) THEN "done" ELSE "root"
            /\ revision' = None /\ seen' = <<>>

\* model_cache_directory_found |= _is_directory(model_cache)
FindCache == /\ phase = "root"
             /\ cacheFound' = (cacheFound \/ main[Roots[at]] # None
                                          \/ \E v \in Revision : IsDirectory(Roots[at], v))
             /\ phase' = "ref"
             /\ UNCHANGED <<disk, at, revision, seen, best>>

\* candidate_revision = revision or _read_main_revision(model_cache)
Candidate == IF options.revision # None THEN options.revision ELSE main[Roots[at]]
ReadRefAlways == /\ phase = "ref"
                 /\ revision' = Candidate /\ phase' = "snapshot"
                 /\ UNCHANGED <<disk, at, seen, best, cacheFound>>
ReadRef == /\ phase = "ref"
           /\ IF Candidate = None THEN NextRoot
              ELSE revision' = Candidate /\ phase' = "snapshot" /\ UNCHANGED <<at, seen>>
           /\ UNCHANGED <<disk, best, cacheFound>>

OpenSnapshot == /\ phase = "snapshot"
                /\ IF IsDirectory(Roots[at], revision)
                   THEN phase' = "files" /\ UNCHANGED <<at, revision, seen>>
                   ELSE NextRoot
                /\ UNCHANGED <<disk, best, cacheFound>>

Look == /\ phase = "files" /\ Remaining(seen) # {}
        /\ LET f == Order[Min(Remaining(seen))]
           IN seen' = [g \in DOMAIN seen \cup {f} |->
                         IF g = f THEN On(Roots[at], revision, f) ELSE seen[g]]
        /\ UNCHANGED <<disk, at, phase, revision, best, cacheFound>>

Keep == /\ phase = "files" /\ Remaining(seen) = {}
        /\ IF best[revision] = None \/ RanksAbove(seen, best[revision])
           THEN best' = [best EXCEPT ![revision] = seen]
           ELSE UNCHANGED best
        /\ NextRoot
        /\ UNCHANGED <<disk, cacheFound>>

(***************************************************************************)
(* The downloader, another program.                                        *)
(***************************************************************************)
Arrive == /\ \E p \in Place \ arrived : cache[p] # "absent" /\ arrived' = arrived \cup {p}
          /\ UNCHANGED <<options, cache, main, ready, probe>>
MoveMain == /\ \E m \in Moves : main' = [main EXCEPT ![m[1]] = m[2]]
            /\ UNCHANGED <<options, cache, arrived, ready, probe>>

Step == FindCache \/ ReadRef \/ OpenSnapshot \/ Look \/ Keep
Next == phase # "done" /\ (Step \/ Arrive \/ MoveMain)

Spec == Init /\ [][Next]_vars

-----------------------------------------------------------------------------
\* The walk: where the probe is, and that a snapshot is only opened for a
\* revision.
TypeOK ==
  /\ arrived \subseteq Place /\ main \in [Root -> Revision \cup {None}]
  /\ at \in 1..Len(Roots) + 1 /\ phase \in {"root", "ref", "snapshot", "files", "done"}
  /\ at > Len(Roots) <=> phase = "done"
  /\ IF phase \in {"snapshot", "files"} THEN revision \in Revision ELSE revision = None
  /\ DOMAIN seen \subseteq File /\ \A f \in DOMAIN seen : seen[f] \in Content \cup {"absent"}
  /\ cacheFound \in BOOLEAN

Entries == {best[v] : v \in Revision} \ {None}
Reported(v) == phase = "done" /\ best[v] # None

\* What the finished report affirms is so on disk, although no two files were
\* looked at in the same instant: a complete entry has, in one root, all the files
\* of a whole snapshot, "found" means that there is a shard.  It affirms that the
\* tokenizer and the shards are there as regular files, not that they can be read
\* or are sound.  (complete, found and model_cache_directory_found of probe.)
ReportIsTrue ==
  /\ \A v \in Revision : Reported(v) /\ Complete(best[v]) =>
       \E r \in Root, kind \in Kind : Whole(r, v, kind)
  /\ \A v \in Revision : Reported(v) /\ Present(best[v]) # {} =>
       \E r \in Root, s \in Shard : On(r, v, s) \in Accepted(s)
  /\ phase = "done" /\ cacheFound =>
       \E r \in Root : main[r] # None \/ \E v \in Revision : IsDirectory(r, v)

\* A snapshot of the revision asked for that was whole, and had the expected
\* hashes, when the probe began is reported complete, whatever the other roots
\* hold and whatever arrives meanwhile: the choice among the roots (_probe_rank)
\* never loses it.  A snapshot of the PyTorch kind is excepted if a safetensors
\* index is beside it or arrives there (Shadowed): _read_index prefers that one.
CompleteIsFound ==
  \A w \in ready : phase = "done" /\ w[2] = options.revision =>
                     best[w[2]] # None /\ Complete(best[w[2]])

\* An entry describes the files of one root: nothing that was counted in one
\* cache is credited to the snapshot of another.
EntryIsOneSnapshot ==
  \A v \in Revision : best[v] # None =>
    \E r \in Root : \A f \in DOMAIN best[v] : best[v][f] # "absent" => On(r, v, f) = best[v][f]

\* With expected hashes, a complete entry has every one of them on disk in one
\* root, and with an expected index it is reported as the exact set of shards
\* too: the two flags the evidence validator requires cannot disagree.
CompleteIsAuthentic ==
  \A v \in Revision : Reported(v) /\ Complete(best[v]) =>
    /\ \E r \in Root, kind \in Kind : \A e \in options.expected : Expected(e, r, v, kind)
    /\ "index" \in options.expected => ExactShards(best[v])
=============================================================================
