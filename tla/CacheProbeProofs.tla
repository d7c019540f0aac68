-------------------------- MODULE CacheProbeProofs --------------------------
(***************************************************************************)
(* Proofs about CacheProbe, for any roots, revisions, shards, contents of  *)
(* the caches and command lines, and for any downloads during the probe.   *)
(* Files are looked at one after the other; what makes the report true all *)
(* the same is that a file that has arrived stays as it is.                *)
(***************************************************************************)
EXTENDS CacheProbe, WellFoundedInduction, TLAPS

\* What is known of a snapshot, by what has been looked at.
Entry == UNION {[D -> Content \cup {"absent"}] : D \in SUBSET File}

Environment ==
  /\ options \in Options /\ cache \in Caches /\ arrived \subseteq Place
  /\ main \in [Root -> Revision \cup {None}]

Walk ==
  /\ at \in 1..Len(Roots) + 1 /\ phase \in {"root", "ref", "snapshot", "files", "done"}
  /\ at > Len(Roots) <=> phase = "done"
  /\ IF phase \in {"snapshot", "files"}
     THEN revision \in Revision /\ (options.revision # None => revision = options.revision)
     ELSE revision = None
  /\ seen \in Entry
  /\ phase # "files" => seen = <<>>
  /\ best \in [Revision -> Entry \cup {None}]
  /\ cacheFound \in BOOLEAN

\* What the entry s says was there is there in root r.
Agrees(s, r, v) == \A f \in DOMAIN s : s[f] # "absent" => On(r, v, f) = s[f]

SeenIsThere == phase = "files" => Agrees(seen, Roots[at], revision)
BestIsThere == \A v \in Revision : best[v] # None => \E r \in Root : Agrees(best[v], r, v)
FoundIsThere == cacheFound => \E r \in Root : main[r] # None \/ \E v \in Revision : IsDirectory(r, v)

\* File f counts, and has been seen as it is if it has been looked at.
Safe(f, r, v) == /\ On(r, v, f) \in Accepted(f)
                 /\ f \in DOMAIN seen => seen[f] = On(r, v, f)

NamedFile(name, kind) == CASE name = "config" -> "config.json" [] name = "index" -> Index[kind]
                           [] name = "tokenizer_config" -> "tokenizer_config.json"

\* A snapshot that was whole is still whole, and its files look so.
WholeStays ==
  \A w \in ready :
    /\ w \in Root \X Revision \X Kind
    /\ Whole(w[1], w[2], w[3]) /\ ~Shadowed(w[1], w[2], w[3])
    /\ \A e \in options.expected : Expected(e, w[1], w[2], w[3])

WholeIsSeenOf(kind) ==
  phase = "files" /\ <<Roots[at], revision, kind>> \in ready =>
    LET S(f) == Safe(f, Roots[at], revision)
        index == Index[kind] IN
    /\ S("config.json") /\ S(index)
    /\ S("tokenizer.json") \/ S("tokenizer.model") \/ (S("vocab.json") /\ S("merges.txt"))
    /\ \A f \in Listed[kind][On(Roots[at], revision, index)] : S(f)
    /\ kind = "pytorch_bin" /\ Index["safetensors"] \in DOMAIN seen =>
         seen[Index["safetensors"]] = "absent"
    /\ \A e \in options.expected :
         LET f == NamedFile(e, kind) IN f \in DOMAIN seen => seen[f] = "exact"
WholeIsSeen == \A kind \in Kind : WholeIsSeenOf(kind)

\* A root that has been passed has left its mark.
WholeIsKept ==
  \A i \in 1 .. at - 1, kind \in Kind : <<Roots[i], options.revision, kind>> \in ready =>
    best[options.revision] # None /\ Complete(best[options.revision])

IInv == /\ Environment /\ Walk /\ SeenIsThere /\ BestIsThere /\ FoundIsThere
        /\ WholeStays /\ WholeIsSeen /\ WholeIsKept

-----------------------------------------------------------------------------
\* A non-empty set of positions has a least one.
LEMMA LeastPosition ==
  ASSUME NEW S \in SUBSET Nat, S # {}
  PROVE  Min(S) \in S
<1> DEFINE Less == OpToRel(<, Nat)
<1>1. IsWellFoundedOn(Less, Nat)  BY NatLessThanWellFounded, Zenon
<1>2. \A x, y \in Nat : <<y, x>> \notin Less => x =< y  BY DEF OpToRel
<1> HIDE DEF Less
<1>3. PICK x \in S : \A y \in S : <<y, x>> \notin Less  BY <1>1, WFMin
<1>4. \A y \in S : x =< y  BY <1>2, <1>3
<1> QED BY <1>4 DEF Min

\* What a concatenation is made of.
LEMMA ConcatFacts ==
  ASSUME NEW S, NEW s \in Seq(S), NEW t \in Seq(S)
  PROVE  /\ DOMAIN (s \o t) = 1 .. Len(s) + Len(t)
         /\ \A i \in 1 .. Len(s) : (s \o t)[i] = s[i]
         /\ \A i \in 1 .. Len(t) : (s \o t)[Len(s) + i] = t[i]
OBVIOUS

\* A sequence over a set is one over a larger set.
LEMMA WiderSeq ==
  ASSUME NEW S, NEW T, S \subseteq T, NEW q \in Seq(S)
  PROVE  q \in Seq(T)
OBVIOUS

\* Eight elements are a sequence.
LEMMA EightFacts ==
  ASSUME NEW T, NEW a \in T, NEW b \in T, NEW c \in T, NEW d \in T,
         NEW e \in T, NEW f \in T, NEW g \in T, NEW h \in T
  PROVE  <<a, b, c, d, e, f, g, h>> \in Seq(T) /\ Len(<<a, b, c, d, e, f, g, h>>) = 8
OBVIOUS

\* Eight elements in front of a sequence.
LEMMA EightAndMore ==
  ASSUME NEW a, NEW b, NEW c, NEW d, NEW e, NEW f, NEW g, NEW h, NEW S, NEW q \in Seq(S),
         NEW o, o = <<a, b, c, d, e, f, g, h>> \o q
  PROVE  /\ DOMAIN o = 1 .. 8 + Len(q)
         /\ o[1] = a /\ o[2] = b /\ o[3] = c /\ o[4] = d
         /\ o[5] = e /\ o[6] = f /\ o[7] = g /\ o[8] = h
         /\ \A i \in 1 .. Len(q) : o[8 + i] = q[i]
<1>1. PICK T : T = S \cup {a, b, c, d, e, f, g, h}  OBVIOUS
<1>2. PICK s : s = <<a, b, c, d, e, f, g, h>>  OBVIOUS
<1>3. s \in Seq(T)  BY <1>1, <1>2, EightFacts
<1>4. q \in Seq(T)  BY <1>1, WiderSeq
<1>5. o = s \o q  BY <1>2
<1>6. /\ DOMAIN (s \o q) = 1 .. Len(s) + Len(q)
      /\ \A i \in 1 .. Len(s) : (s \o q)[i] = s[i]
      /\ \A i \in 1 .. Len(q) : (s \o q)[Len(s) + i] = q[i]
  BY <1>3, <1>4
<1>7. /\ DOMAIN o = 1 .. 8 + Len(q)
      /\ \A i \in 1 .. 8 : o[i] = s[i]
      /\ \A i \in 1 .. Len(q) : o[8 + i] = q[i]
  BY <1>2, <1>5, <1>6
<1>8. /\ s[1] = a /\ s[2] = b /\ s[3] = c /\ s[4] = d
      /\ s[5] = e /\ s[6] = f /\ s[7] = g /\ s[8] = h
  BY <1>2
<1> QED BY <1>7, <1>8

\* The parts of Order: eight names, then the shards.
LEMMA OrderFacts ==
  /\ DOMAIN Order \subseteq Nat
  /\ \A i \in DOMAIN Order : Order[i] \in File
  /\ \A f \in File : \E i \in DOMAIN Order : Order[i] = f
  /\ {"config.json", "tokenizer.json", "tokenizer.model", "vocab.json", "merges.txt",
      "tokenizer_config.json", Index["safetensors"], Index["pytorch_bin"]} \subseteq File
  /\ Shard \subseteq File
  /\ Shard \cap {"config.json", "tokenizer.json", "tokenizer.model", "vocab.json", "merges.txt",
      "tokenizer_config.json", Index["safetensors"], Index["pytorch_bin"]} = {}
<1>1. /\ DOMAIN Order = 1 .. 8 + Len(Shards)
      /\ Order[1] = "config.json" /\ Order[2] = "tokenizer.json" /\ Order[3] = "tokenizer.model"
      /\ Order[4] = "vocab.json" /\ Order[5] = "merges.txt" /\ Order[6] = "tokenizer_config.json"
      /\ Order[7] = Index["safetensors"] /\ Order[8] = Index["pytorch_bin"]
      /\ \A i \in 1 .. Len(Shards) : Order[8 + i] = Shards[i]
  <2>1. Shards \in Seq(Shard)  BY ShardAssumption
  <2>2. Order = <<"config.json", "tokenizer.json", "tokenizer.model", "vocab.json", "merges.txt",
                  "tokenizer_config.json", Index["safetensors"], Index["pytorch_bin"]>> \o Shards
    BY DEF Order
  <2> QED BY <2>1, <2>2, EightAndMore
<1>2. DOMAIN Shards = 1 .. Len(Shards) /\ Len(Shards) \in Nat  BY ShardAssumption
<1>3. \A i \in 1 .. 8 : Order[i] \in File /\ Order[i] \notin Shard
  BY <1>1, <1>2, ShardAssumption DEF File
<1>4. Shard \subseteq File
  BY <1>1, <1>2 DEF File, Shard
<1>5. /\ DOMAIN Order \subseteq Nat
      /\ \A i \in DOMAIN Order : Order[i] \in File
      /\ \A f \in File : \E i \in DOMAIN Order : Order[i] = f
  BY <1>1 DEF File
<1>6. {"config.json", "tokenizer.json", "tokenizer.model", "vocab.json", "merges.txt",
       "tokenizer_config.json", Index["safetensors"], Index["pytorch_bin"]}
        = {Order[i] : i \in 1 .. 8}
  BY <1>1
<1> QED BY <1>3, <1>4, <1>5, <1>6

\* What is in the caches.
LEMMA OnFacts ==
  ASSUME Environment, NEW r \in Root, NEW v \in Revision, NEW f \in File
  PROVE  On(r, v, f) \in Content \cup {"absent"}
BY CacheAssumption DEF Environment, On, Place

\* What has arrived stays: a file that is there is there afterwards, as it was.
ArrivalsStay == options' = options /\ cache' = cache /\ arrived \subseteq arrived' /\ arrived' \subseteq Place

\* A file that is there is there after any step, as it was.
LEMMA OnStays ==
  ASSUME ArrivalsStay, NEW r, NEW v, NEW f, On(r, v, f) # "absent"
  PROVE  On(r, v, f)' = On(r, v, f)
BY DEF ArrivalsStay, On

\* So is a snapshot's directory,
LEMMA DirectoryStays ==
  ASSUME ArrivalsStay, NEW r, NEW v, IsDirectory(r, v)
  PROVE  IsDirectory(r, v)'
BY OnStays DEF IsDirectory

\* a whole snapshot,
LEMMA WholeStaysWhole ==
  ASSUME ArrivalsStay, NEW r, NEW v, NEW kind \in Kind, Whole(r, v, kind)
  PROVE  Whole(r, v, kind)'
<1>1. \A f : On(r, v, f) \in Accepted(f) => On(r, v, f)' = On(r, v, f)
  BY OnStays DEF Accepted
<1> QED BY <1>1 DEF Whole

\* and a file with its expected hash.
LEMMA ExpectedStays ==
  ASSUME ArrivalsStay, NEW r, NEW v, NEW kind \in Kind, NEW e, Expected(e, r, v, kind)
  PROVE  Expected(e, r, v, kind)'
<1>1. \A f : On(r, v, f) = "exact" => On(r, v, f)' = "exact"
  BY OnStays
<1> QED BY <1>1 DEF Expected

\* Every step leaves the arrivals.
LEMMA StepsKeepArrivals ==
  ASSUME Environment, [Next]_vars
  PROVE  ArrivalsStay
BY DEF Next, Step, FindCache, ReadRef, OpenSnapshot, Look, Keep, Arrive, MoveMain, vars, disk,
       Environment, ArrivalsStay

-----------------------------------------------------------------------------
\* The two indices have two names.
LEMMA IndexNames ==
  /\ Kind = {"safetensors", "pytorch_bin"}
  /\ Index["safetensors"] = "model.safetensors.index.json"
  /\ Index["pytorch_bin"] = "pytorch_model.bin.index.json"
BY DEF Kind, Index

\* An index that counts is one whose shards are known.
LEMMA IndexAccepted ==
  \A kind \in Kind : Accepted(Index[kind]) = {"exact", "other"} /\ "opaque" \notin Accepted(Index[kind])
BY DEF Accepted, Opened

\* What an entry says was there is not made of contents the probe ignores.
LEMMA CompleteIsWhole ==
  ASSUME Environment, NEW s \in Entry, NEW r \in Root, NEW v \in Revision,
         Agrees(s, r, v), Complete(s)
  PROVE  /\ IndexKind(s) \in Kind
         /\ Whole(r, v, IndexKind(s))
         /\ \A e \in options.expected : Expected(e, r, v, IndexKind(s))
<1>1. \A f : Regular(s, f) => On(r, v, f) = s[f] /\ On(r, v, f) \in Accepted(f)
  BY DEF Regular, Saw, Agrees, Accepted
<1>2. IndexKind(s) \in Kind  BY DEF IndexKind, Kind
<1>3. On(r, v, Index[IndexKind(s)]) = s[Index[IndexKind(s)]]
      /\ On(r, v, Index[IndexKind(s)]) \in Accepted(Index[IndexKind(s)])
  BY <1>1 DEF Complete, Parsed
<1>4. Named(s) = Listed[IndexKind(s)][On(r, v, Index[IndexKind(s)])]
  BY <1>3 DEF Complete, Named, Parsed, IndexSeen, Saw, Regular, Accepted
<1>5. \A f \in Named(s) : On(r, v, f) \in Accepted(f)
  BY <1>1 DEF Complete, Present
<1>6. Whole(r, v, IndexKind(s))
  BY <1>1, <1>3, <1>4, <1>5 DEF Whole, Complete, HasTokenizer, HasTokenizerPair
<1>7. \A f : Saw(s, f) = "exact" => On(r, v, f) = "exact"
  BY DEF Saw, Agrees
<1>8. \A e \in options.expected : Expected(e, r, v, IndexKind(s))
  BY <1>7 DEF Complete, HashesMatch, ObservedHash, Expected
<1> QED BY <1>2, <1>6, <1>8

\* When nothing remains, every file was looked at or skipped.
LEMMA AllLookedAt ==
  ASSUME NEW s, Remaining(s) = {}, NEW f \in File
  PROVE  f \in DOMAIN s \/ Skipped(s, f)
BY OrderFacts DEF Remaining

\* A whole snapshot whose files look so is a complete entry.
LEMMA WholeLooksComplete ==
  ASSUME Environment, phase = "files", Remaining(seen) = {}, NEW kind \in Kind,
         WholeIsSeen, <<Roots[at], revision, kind>> \in ready
  PROVE  Complete(seen)
<1> DEFINE S(f) == Safe(f, Roots[at], revision)
<1>1. \A f : S(f) /\ f \in DOMAIN seen => Regular(seen, f) /\ Saw(seen, f) = On(Roots[at], revision, f)
  BY DEF Safe, Regular, Saw
<1>0. WholeIsSeenOf(kind)  BY DEF WholeIsSeen
<1> HIDE DEF WholeIsSeen
<1>2. \A f \in {"config.json", "tokenizer.json", "tokenizer_config.json", Index["safetensors"]} :
        f \in DOMAIN seen
  BY AllLookedAt, OrderFacts, IndexNames DEF Skipped
<1>9. IndexKind(seen) = kind /\ Index[kind] \in DOMAIN seen
  <2>1. CASE kind = "safetensors"
    <3>1. Saw(seen, Index["safetensors"]) = On(Roots[at], revision, Index["safetensors"])
          /\ Regular(seen, Index["safetensors"])
      BY <1>0, <1>1, <1>2, <2>1 DEF WholeIsSeenOf
    <3>2. Saw(seen, Index["safetensors"]) # "absent"  BY <3>1 DEF Regular, Accepted
    <3> QED BY <1>2, <2>1, <3>2 DEF IndexKind
  <2>2. CASE kind = "pytorch_bin"
    <3>1. Saw(seen, Index["safetensors"]) = "absent"
      BY <1>0, <1>2, <2>2 DEF WholeIsSeenOf, Saw
    <3>2. IndexKind(seen) = "pytorch_bin"  BY <3>1 DEF IndexKind
    <3>3. Index["pytorch_bin"] \in DOMAIN seen
      BY <3>2, AllLookedAt, OrderFacts, IndexNames DEF Skipped
    <3> QED BY <2>2, <3>2, <3>3
  <2> QED BY <2>1, <2>2, IndexNames
<1>3. Regular(seen, "config.json") /\ Regular(seen, Index[kind])
  BY <1>0, <1>1, <1>2, <1>9 DEF WholeIsSeenOf
<1>4. HasTokenizer(seen)
  <2>1. CASE S("tokenizer.json")
    BY <1>1, <1>2, <2>1 DEF HasTokenizer
  <2>2. CASE S("tokenizer.model")
    <3>1. "tokenizer.model" \in DOMAIN seen \/ HasTokenizer(seen)
      BY AllLookedAt, OrderFacts, IndexNames DEF Skipped
    <3> QED BY <1>1, <2>2, <3>1 DEF HasTokenizer
  <2>3. CASE S("vocab.json") /\ S("merges.txt")
    <3>1. "vocab.json" \in DOMAIN seen \/ HasTokenizer(seen)
      BY AllLookedAt, OrderFacts, IndexNames DEF Skipped
    <3>2. "merges.txt" \in DOMAIN seen \/ HasTokenizer(seen) \/ ~Regular(seen, "vocab.json")
      BY AllLookedAt, OrderFacts, IndexNames DEF Skipped
    <3> QED BY <1>1, <2>3, <3>1, <3>2 DEF HasTokenizer, HasTokenizerPair
  <2> QED BY <1>0, <2>1, <2>2, <2>3 DEF WholeIsSeenOf
<1>5. IndexKind(seen) = kind /\ Parsed(seen)
  BY <1>3, <1>9 DEF Parsed
<1>6. /\ Named(seen) = Listed[kind][On(Roots[at], revision, Index[kind])]
      /\ Named(seen) \subseteq Shard
  <2>1. Saw(seen, Index[kind]) = On(Roots[at], revision, Index[kind])
        /\ On(Roots[at], revision, Index[kind]) \in {"exact", "other"}
    BY <1>0, <1>1, <1>9, IndexAccepted DEF WholeIsSeenOf, Safe
  <2> QED BY <1>5, <2>1, ListedAssumption, IndexNames DEF Named, IndexSeen
<1>7. \A f \in Named(seen) : Regular(seen, f)
  <2>1. \A f \in Named(seen) : f \in DOMAIN seen
    BY <1>6, AllLookedAt, OrderFacts DEF Skipped
  <2> QED BY <1>0, <1>1, <1>6, <2>1 DEF WholeIsSeenOf
<1>8. HashesMatch(seen)
  <2> SUFFICES ASSUME NEW e \in options.expected  PROVE ObservedHash(seen, e) = "exact"
    BY DEF HashesMatch
  <2>1. e \in {"config", "index", "tokenizer_config"}
    BY OptionAssumption DEF Environment
  <2>2. NamedFile(e, kind) \in DOMAIN seen
    BY <1>2, <1>9, <2>1 DEF NamedFile
  <2>3. seen[NamedFile(e, kind)] = "exact"
    BY <1>0, <2>2 DEF WholeIsSeenOf
  <2> QED BY <1>5, <2>1, <2>2, <2>3 DEF ObservedHash, NamedFile, Saw
<1> QED BY <1>3, <1>4, <1>5, <1>7, <1>8 DEF Complete, Present

-----------------------------------------------------------------------------
\* Nothing has been looked at: an entry all the same.
LEMMA EmptyEntry == <<>> \in Entry
<1>1. <<>> \in [{} -> Content \cup {"absent"}]  OBVIOUS
<1> QED BY <1>1 DEF Entry

\* None is not mistaken for an entry.
LEMMA SeenIsNotNone == Walk => seen # None
BY NoneAssumption DEF Walk, Entry

\* Before the probe nothing is claimed, and what is whole is recorded.
LEMMA InitInvariant == Init => IInv
<1> SUFFICES ASSUME Init PROVE IInv  OBVIOUS
<1>1. Environment  BY CacheAssumption DEF Init, Environment
<1>2. Walk
  <2>1. <<>> \in Entry  BY EmptyEntry
  <2>2. Len(Roots) \in Nat /\ Len(Roots) # 0  BY RootAssumption
  <2>3. best \in [Revision -> Entry \cup {None}]  BY DEF Init
  <2>4. at \in 1 .. Len(Roots) + 1 /\ ~(at > Len(Roots))  BY <2>2 DEF Init
  <2> QED BY <2>1, <2>3, <2>4 DEF Init, Walk
<1>3. WholeStays  BY DEF Init, WholeStays
<1> QED BY <1>1, <1>2, <1>3
        DEF Init, IInv, SeenIsThere, BestIsThere, FoundIsThere, WholeIsSeen, WholeIsSeenOf, WholeIsKept

\* The environment's part, and that a whole snapshot stays whole.
LEMMA EnvironmentKept ==
  ASSUME IInv, [Next]_vars
  PROVE  Environment' /\ WholeStays'
<1>1. ArrivalsStay  BY StepsKeepArrivals DEF IInv
<1>2. main' \in [Root -> Revision \cup {None}] /\ ready' = ready
  <2>1. CASE MoveMain  BY <2>1, CacheAssumption DEF MoveMain, IInv, Environment
  <2>2. CASE UNCHANGED <<main, ready>>  BY <2>2 DEF IInv, Environment
  <2> QED BY <2>1, <2>2 DEF Next, Step, FindCache, ReadRef, OpenSnapshot, Look, Keep, Arrive, vars, disk
<1>3. Environment'
  BY <1>1, <1>2 DEF IInv, Environment, ArrivalsStay
<1>4. WholeStays'
  BY <1>1, <1>2, WholeStaysWhole, ExpectedStays DEF IInv, WholeStays, ArrivalsStay, Shadowed
<1> QED BY <1>3, <1>4

\* The entries that are kept still say what is there, "found" is still so.
LEMMA KeptStaysThere ==
  ASSUME IInv, [Next]_vars, UNCHANGED <<best, cacheFound>>
  PROVE  BestIsThere' /\ FoundIsThere'
<1>1. ArrivalsStay  BY StepsKeepArrivals DEF IInv
<1>2. BestIsThere'
  BY <1>1, OnStays DEF IInv, BestIsThere, Agrees
<1>3. \A r \in Root : main[r] # None => main'[r] # None
  <2>1. CASE MoveMain  BY <2>1, CacheAssumption, NoneAssumption DEF MoveMain, IInv, Environment
  <2>2. CASE UNCHANGED main  BY <2>2
  <2> QED BY <2>1, <2>2 DEF Next, Step, FindCache, ReadRef, OpenSnapshot, Look, Keep, Arrive, vars, disk
<1>4. FoundIsThere'
  BY <1>1, <1>3, DirectoryStays DEF IInv, FoundIsThere
<1> QED BY <1>2, <1>4

-----------------------------------------------------------------------------
\* A file arrives or refs/main moves.
LEMMA EnvironmentStep ==
  ASSUME IInv, phase # "done", Arrive \/ MoveMain
  PROVE  IInv'
<1>1. ArrivalsStay  BY StepsKeepArrivals DEF IInv, Next
<1>2. UNCHANGED <<at, phase, revision, seen, best, cacheFound, ready, options>>
  BY DEF Arrive, MoveMain, probe
<1>3. \A r, v, f : On(r, v, f) # "absent" => On(r, v, f)' = On(r, v, f)
  BY <1>1, OnStays
<1>4. Environment' /\ WholeStays' /\ BestIsThere' /\ FoundIsThere'
  BY <1>2, EnvironmentKept, KeptStaysThere DEF Next
<1>5. Walk'  BY <1>2 DEF IInv, Walk
<1>6. SeenIsThere'
  BY <1>2, <1>3 DEF IInv, SeenIsThere, Agrees
<1>7. WholeIsSeen'
  <2>1. \A f, r, v : Safe(f, r, v) => Safe(f, r, v)' /\ On(r, v, f)' = On(r, v, f)
    BY <1>2, <1>3 DEF Safe, Accepted
  <2>2. SUFFICES ASSUME NEW kind \in Kind, phase = "files",
                        <<Roots[at], revision, kind>> \in ready
                 PROVE  WholeIsSeenOf(kind)'
    BY <1>2 DEF WholeIsSeen, WholeIsSeenOf
  <2>3. WholeIsSeenOf(kind)  BY DEF IInv, WholeIsSeen
  <2> QED BY <1>2, <2>1, <2>2, <2>3 DEF WholeIsSeenOf
<1>8. WholeIsKept'
  BY <1>2 DEF IInv, WholeIsKept, Complete, Present, HashesMatch, ObservedHash
<1> QED BY <1>4, <1>5, <1>6, <1>7, <1>8 DEF IInv

\* _is_directory(model_cache).
LEMMA FindCacheStep ==
  ASSUME IInv, FindCache
  PROVE  IInv'
<1>1. Environment' /\ WholeStays'  BY EnvironmentKept DEF Next, Step, FindCache
<1>2. Walk'  BY DEF IInv, Walk, FindCache, disk
<1>3. SeenIsThere' /\ WholeIsSeen'  BY DEF FindCache, SeenIsThere, WholeIsSeen, WholeIsSeenOf
<1>4. BestIsThere'  BY DEF IInv, BestIsThere, Agrees, FindCache, disk, On
<1>5. FoundIsThere'
  <2>1. Roots[at] \in Root
    BY RootAssumption DEF IInv, Walk, FindCache, Root
  <2> QED BY <2>1 DEF IInv, FoundIsThere, FindCache, disk, IsDirectory, On
<1>6. WholeIsKept'
  BY DEF IInv, WholeIsKept, FindCache, disk, Complete, Present, HashesMatch, ObservedHash
<1> QED BY <1>1, <1>2, <1>3, <1>4, <1>5, <1>6 DEF IInv

\* What going on to the next root does to the walk.
LEMMA NextRootWalks ==
  ASSUME IInv, phase # "done", NextRoot, UNCHANGED <<options, cacheFound>>,
         best' \in [Revision -> Entry \cup {None}]
  PROVE  Walk'
<1>1. at \in 1 .. Len(Roots) /\ Len(Roots) \in Nat  BY RootAssumption DEF IInv, Walk
<1>2. seen' \in Entry  BY EmptyEntry DEF NextRoot
<1>3. phase' \in {"root", "done"} /\ (phase' = "done" <=> at' > Len(Roots))
      /\ at' \in 1 .. Len(Roots) + 1
  BY <1>1 DEF NextRoot
<1> QED BY <1>2, <1>3 DEF IInv, Walk, NextRoot

\* A root that is passed without an entry held no whole snapshot of the
\* revision asked for.
LEMMA PassedWithoutEntry ==
  ASSUME IInv, phase # "done", NextRoot, UNCHANGED <<disk, best>>,
         \A kind \in Kind : <<Roots[at], options.revision, kind>> \notin ready
  PROVE  WholeIsKept'
<1>1. at \in Nat  BY DEF IInv, Walk
<1>2. at' = at + 1 /\ ready' = ready /\ options' = options  BY DEF NextRoot, disk
<1>3. \A i \in 1 .. at' - 1 : i \in 1 .. at - 1 \/ i = at  BY <1>1, <1>2
<1>4. \A s : Complete(s)' <=> Complete(s)
  BY <1>2 DEF Complete, HashesMatch
<1>5. WholeIsKept' <=> \A i \in 1 .. at' - 1, kind \in Kind :
                         <<Roots[i], options.revision, kind>> \in ready =>
                         best[options.revision] # None /\ Complete(best[options.revision])
  BY <1>2, <1>4 DEF WholeIsKept
<1> QED BY <1>3, <1>5 DEF IInv, WholeIsKept

\* The candidate revision, or on to the next root.
LEMMA ReadRefStep ==
  ASSUME IInv, ReadRef
  PROVE  IInv'
<1>1. Environment' /\ WholeStays'  BY EnvironmentKept DEF Next, Step, ReadRef
<1>2. BestIsThere' /\ FoundIsThere'
  BY KeptStaysThere DEF Next, Step, ReadRef
<1>3. phase # "done" /\ phase' # "files" /\ UNCHANGED <<disk, best, cacheFound, options>>
  BY DEF ReadRef, NextRoot, disk
<1>4. SeenIsThere' /\ WholeIsSeen'  BY <1>3 DEF SeenIsThere, WholeIsSeen, WholeIsSeenOf
<1>5. Roots[at] \in Root  BY RootAssumption DEF ReadRef, IInv, Walk, Root
<1>6. CASE Candidate = None
  <2>1. NextRoot  BY <1>6 DEF ReadRef
  <2>2. Walk'  BY <1>3, <2>1, NextRootWalks DEF IInv, Walk
  <2>3. options.revision = None  BY <1>6 DEF Candidate
  <2>4. \A kind \in Kind : <<Roots[at], options.revision, kind>> \notin ready
    BY <2>3, NoneAssumption DEF IInv, WholeStays
  <2>5. WholeIsKept'  BY <1>3, <2>1, <2>4, PassedWithoutEntry
  <2> QED BY <1>1, <1>2, <1>4, <2>2, <2>5 DEF IInv
<1>7. CASE Candidate # None
  <2>1. revision' = Candidate /\ phase' = "snapshot" /\ UNCHANGED <<at, seen>>
    BY <1>7 DEF ReadRef
  <2>2. Candidate \in Revision /\ (options.revision # None => Candidate = options.revision)
    BY <1>5, <1>7, OptionAssumption DEF Candidate, IInv, Environment
  <2>3. Walk'  BY <1>3, <2>1, <2>2 DEF IInv, Walk, ReadRef
  <2>4. WholeIsKept'
    BY <1>3, <2>1 DEF IInv, WholeIsKept, disk, Complete, HashesMatch
  <2> QED BY <1>1, <1>2, <1>4, <2>3, <2>4 DEF IInv
<1> QED BY <1>6, <1>7

\* The snapshot's directory, or on to the next root: one that is not there
\* was not whole.
LEMMA OpenSnapshotStep ==
  ASSUME IInv, OpenSnapshot
  PROVE  IInv'
<1>1. Environment' /\ WholeStays'  BY EnvironmentKept DEF Next, Step, OpenSnapshot
<1>2. BestIsThere' /\ FoundIsThere'
  BY KeptStaysThere DEF Next, Step, OpenSnapshot
<1>3. phase # "done" /\ seen = <<>> /\ UNCHANGED <<disk, best, cacheFound, options>>
  BY DEF OpenSnapshot, disk, IInv, Walk
<1>4. revision \in Revision /\ (options.revision # None => revision = options.revision)
  BY DEF OpenSnapshot, IInv, Walk
<1>5. CASE IsDirectory(Roots[at], revision)
  <2>1. phase' = "files" /\ UNCHANGED <<at, revision, seen>>  BY <1>5 DEF OpenSnapshot
  <2>2. Walk'  BY <1>3, <2>1 DEF IInv, Walk, OpenSnapshot
  <2>3. DOMAIN seen = {}  BY <1>3
  <2>4. SeenIsThere'  BY <2>1, <2>3 DEF SeenIsThere, Agrees
  <2>5. WholeIsSeen'
    <3>1. \A r, v, f : On(r, v, f)' = On(r, v, f)  BY <1>3 DEF On, disk
    <3>2. \A f : On(Roots[at], revision, f) \in Accepted(f) => Safe(f, Roots[at], revision)'
      BY <2>1, <2>3, <3>1 DEF Safe, Accepted
    <3>3. SUFFICES ASSUME NEW kind \in Kind, <<Roots[at], revision, kind>> \in ready
                   PROVE  WholeIsSeenOf(kind)'
      BY <1>3, <2>1 DEF WholeIsSeen, WholeIsSeenOf, disk
    <3>4. Whole(Roots[at], revision, kind)  BY <3>3 DEF IInv, WholeStays
    <3> QED BY <2>1, <2>3, <3>1, <3>2, <3>4 DEF WholeIsSeenOf, Whole
  <2>6. WholeIsKept'
    BY <1>3, <2>1 DEF IInv, WholeIsKept, disk, Complete, HashesMatch
  <2> QED BY <1>1, <1>2, <2>2, <2>4, <2>5, <2>6 DEF IInv
<1>6. CASE ~IsDirectory(Roots[at], revision)
  <2>1. NextRoot  BY <1>6 DEF OpenSnapshot
  <2>2. Walk'  BY <1>3, <2>1, NextRootWalks DEF IInv, Walk
  <2>3. SeenIsThere' /\ WholeIsSeen'  BY <2>1 DEF NextRoot, SeenIsThere, WholeIsSeen, WholeIsSeenOf
  <2>4. \A kind \in Kind : <<Roots[at], options.revision, kind>> \notin ready
    <3> SUFFICES ASSUME NEW kind \in Kind, <<Roots[at], options.revision, kind>> \in ready
                 PROVE  FALSE
      OBVIOUS
    <3>1. options.revision \in Revision /\ Whole(Roots[at], options.revision, kind)
      BY DEF IInv, WholeStays
    <3>2. revision = options.revision  BY <1>4, <3>1, NoneAssumption
    <3> QED BY <1>6, <3>1, <3>2, OrderFacts DEF Whole, Accepted, IsDirectory
  <2>5. WholeIsKept'  BY <1>3, <2>1, <2>4, PassedWithoutEntry
  <2> QED BY <1>1, <1>2, <2>2, <2>3, <2>5 DEF IInv
<1> QED BY <1>5, <1>6

\* One look at one file.
LEMMA LookStep ==
  ASSUME IInv, Look
  PROVE  IInv'
<1>1. Environment' /\ WholeStays'  BY EnvironmentKept DEF Next, Step, Look
<1>2. BestIsThere' /\ FoundIsThere'
  BY KeptStaysThere DEF Next, Step, Look
<1>3. UNCHANGED <<disk, at, phase, revision, best, cacheFound, options, ready>> /\ phase = "files"
  BY DEF Look, disk
<1> DEFINE file == Order[Min(Remaining(seen))]
           looked == On(Roots[at], revision, file)
<1>4. file \in File
  <2>1. Remaining(seen) \subseteq DOMAIN Order  BY DEF Remaining
  <2>2. Min(Remaining(seen)) \in Remaining(seen)
    BY <2>1, OrderFacts, LeastPosition DEF Look
  <2> QED BY <2>1, <2>2, OrderFacts
<1>5. /\ DOMAIN seen' = DOMAIN seen \cup {file}
      /\ \A g \in DOMAIN seen' : seen'[g] = IF g = file THEN looked ELSE seen[g]
      /\ seen' = [g \in DOMAIN seen \cup {file} |-> IF g = file THEN looked ELSE seen[g]]
  BY DEF Look
<1>6. \A r, v, f : On(r, v, f)' = On(r, v, f)  BY <1>3 DEF On, disk
<1>7. Roots[at] \in Root /\ revision \in Revision
  BY <1>3, RootAssumption DEF IInv, Walk, Root
<1> HIDE DEF file
<1>8. seen' \in Entry
  <2>1. PICK D \in SUBSET File : seen \in [D -> Content \cup {"absent"}]
    BY DEF IInv, Walk, Entry
  <2>2. looked \in Content \cup {"absent"}  BY <1>4, <1>7, OnFacts DEF IInv
  <2>3. seen' \in [D \cup {file} -> Content \cup {"absent"}]
    BY <1>5, <2>1, <2>2
  <2>4. D \cup {file} \in SUBSET File  BY <1>4
  <2> QED BY <2>3, <2>4 DEF Entry
<1>9. Walk'  BY <1>3, <1>8 DEF IInv, Walk
<1>10. SeenIsThere'  BY <1>3, <1>5, <1>6 DEF IInv, SeenIsThere, Agrees
<1>11. WholeIsSeen'
  <2>1. \A f : Safe(f, Roots[at], revision) => Safe(f, Roots[at], revision)'
    BY <1>3, <1>5, <1>6 DEF Safe, Accepted
  <2>2. SUFFICES ASSUME NEW kind \in Kind, <<Roots[at], revision, kind>> \in ready
                 PROVE  WholeIsSeenOf(kind)'
    BY <1>3 DEF WholeIsSeen, WholeIsSeenOf
  <2>3. \A e \in options.expected :
          On(Roots[at], revision, NamedFile(e, kind)) = "exact"
    <3>1. \A e \in options.expected : Expected(e, Roots[at], revision, kind)
      BY <2>2 DEF IInv, WholeStays
    <3> QED BY <3>1 DEF Expected, NamedFile
  <2>4. WholeIsSeenOf(kind)  BY DEF IInv, WholeIsSeen
  <2>5. \A e \in options.expected : LET f == NamedFile(e, kind) IN
          f \in DOMAIN seen' => seen'[f] = "exact"
    BY <1>3, <1>5, <2>2, <2>3, <2>4 DEF WholeIsSeenOf
  <2>6. kind = "pytorch_bin" /\ Index["safetensors"] \in DOMAIN seen' =>
          seen'[Index["safetensors"]] = "absent"
    <3>1. kind = "pytorch_bin" => On(Roots[at], revision, Index["safetensors"]) = "absent"
      BY <2>2 DEF IInv, WholeStays, Shadowed, On
    <3> QED BY <1>3, <1>5, <2>2, <2>4, <3>1 DEF WholeIsSeenOf
  <2> QED BY <1>3, <1>6, <2>1, <2>2, <2>4, <2>5, <2>6 DEF WholeIsSeenOf
<1>12. WholeIsKept'
  BY <1>3 DEF IInv, WholeIsKept, Complete, HashesMatch
<1> QED BY <1>1, <1>2, <1>9, <1>10, <1>11, <1>12 DEF IInv

\* The rank comparison: a complete entry only gives way to a complete one.
LEMMA KeepStep ==
  ASSUME IInv, Keep
  PROVE  IInv'
<1>1. Environment' /\ WholeStays'  BY EnvironmentKept DEF Next, Step, Keep
<1>2. phase = "files" /\ NextRoot /\ UNCHANGED <<disk, cacheFound, options, ready, main, arrived>>
  BY DEF Keep, disk
<1>3. Roots[at] \in Root /\ revision \in Revision /\ at \in Nat
  BY <1>2, RootAssumption DEF IInv, Walk, Root
<1>4. best' = best \/ best' = [best EXCEPT ![revision] = seen]
  BY DEF Keep
<1>5. best' \in [Revision -> Entry \cup {None}]  BY <1>4 DEF IInv, Walk
<1>6. Walk'  BY <1>2, <1>5, NextRootWalks
<1>7. SeenIsThere' /\ WholeIsSeen'  BY <1>2 DEF NextRoot, SeenIsThere, WholeIsSeen, WholeIsSeenOf
<1>8. \A r, v, f : On(r, v, f)' = On(r, v, f)  BY <1>2 DEF On, disk
<1>9. BestIsThere'
  <2>1. Agrees(seen, Roots[at], revision)  BY <1>2 DEF IInv, SeenIsThere
  <2>2. \A v \in Revision : best'[v] = best[v] \/ (v = revision /\ best'[v] = seen)
    BY <1>3, <1>4 DEF IInv, Walk
  <2> QED BY <1>3, <1>8, <2>1, <2>2 DEF IInv, BestIsThere, Agrees
<1>10. FoundIsThere'
  BY <1>2, <1>8 DEF IInv, FoundIsThere, IsDirectory
<1>11. WholeIsKept'
  <2>1. \A s : Complete(s)' <=> Complete(s)  BY <1>2 DEF Complete, HashesMatch
  <2>2. \A v \in Revision : best[v] # None /\ Complete(best[v]) =>
                            best'[v] # None /\ Complete(best'[v])
    BY <1>3, SeenIsNotNone DEF Keep, IInv, Walk, RanksAbove
  <2>3. \A kind \in Kind : <<Roots[at], revision, kind>> \in ready =>
                            best'[revision] # None /\ Complete(best'[revision])
    <3> SUFFICES ASSUME NEW kind \in Kind, <<Roots[at], revision, kind>> \in ready
                 PROVE  best'[revision] # None /\ Complete(best'[revision])
      OBVIOUS
    <3>1. Complete(seen)  BY <1>2, WholeLooksComplete DEF IInv, Keep
    <3> QED BY <1>3, <3>1, SeenIsNotNone DEF Keep, IInv, Walk, RanksAbove
  <2>4. SUFFICES ASSUME NEW i \in 1 .. at' - 1, NEW kind \in Kind,
                        <<Roots[i], options.revision, kind>> \in ready
                 PROVE  best'[options.revision] # None /\ Complete(best'[options.revision])
    BY <1>2, <2>1 DEF WholeIsKept
  <2>5. options.revision \in Revision  BY <2>4 DEF IInv, WholeStays
  <2>6. revision = options.revision  BY <1>2, <2>5, NoneAssumption DEF IInv, Walk
  <2>7. i \in 1 .. at - 1 \/ i = at  BY <1>2, <1>3, <2>4 DEF NextRoot
  <2> QED BY <2>2, <2>3, <2>4, <2>5, <2>6, <2>7 DEF IInv, WholeIsKept
<1> QED BY <1>1, <1>6, <1>7, <1>9, <1>10, <1>11 DEF IInv

\* The invariant is one: every look, however late, leaves it.
THEOREM IInvariant == Spec => []IInv
<1>1. Init => IInv  BY InitInvariant
<1>2. IInv /\ [Next]_vars => IInv'
  <2> SUFFICES ASSUME IInv, [Next]_vars PROVE IInv'  OBVIOUS
  <2>1. CASE FindCache  BY <2>1, FindCacheStep
  <2>2. CASE ReadRef  BY <2>2, ReadRefStep
  <2>3. CASE OpenSnapshot  BY <2>3, OpenSnapshotStep
  <2>4. CASE Look  BY <2>4, LookStep
  <2>5. CASE Keep  BY <2>5, KeepStep
  <2>6. CASE phase # "done" /\ (Arrive \/ MoveMain)  BY <2>6, EnvironmentStep
  <2>7. CASE UNCHANGED vars
    <3>1. (Environment /\ Walk /\ FoundIsThere)'
      BY <2>7 DEF vars, disk, probe, IInv, Environment, Walk, FoundIsThere, IsDirectory, On
    <3>2. (SeenIsThere /\ BestIsThere)'
      BY <2>7 DEF vars, disk, probe, IInv, SeenIsThere, BestIsThere, Agrees, On
    <3>3. WholeStays'  BY EnvironmentKept
    <3>4. WholeIsKept'
      BY <2>7 DEF vars, disk, probe, IInv, WholeIsKept, Complete, HashesMatch
    <3>5. WholeIsSeen'
      BY <2>7 DEF vars, disk, probe, IInv, WholeIsSeen, WholeIsSeenOf, Safe, On
    <3> QED BY <3>1, <3>2, <3>3, <3>4, <3>5 DEF IInv
  <2> QED BY <2>1, <2>2, <2>3, <2>4, <2>5, <2>6, <2>7 DEF Next, Step
<1> QED BY <1>1, <1>2, PTL DEF Spec

-----------------------------------------------------------------------------
\* The walk of probe: where it is, and that a snapshot is only opened for a
\* revision.
THEOREM TypeCorrect == Spec => []TypeOK
<1>1. IInv => TypeOK
  <2> SUFFICES ASSUME IInv PROVE TypeOK  OBVIOUS
  <2>1. DOMAIN seen \subseteq File /\ \A f \in DOMAIN seen : seen[f] \in Content \cup {"absent"}
    BY DEF IInv, Walk, Entry
  <2> QED BY <2>1 DEF IInv, Environment, Walk, TypeOK
<1> QED BY <1>1, IInvariant, PTL

\* An entry of best_by_revision describes the files of one root.
THEOREM EntriesAreSnapshots == Spec => []EntryIsOneSnapshot
<1>1. IInv => EntryIsOneSnapshot
  BY DEF IInv, BestIsThere, Agrees, EntryIsOneSnapshot
<1> QED BY <1>1, IInvariant, PTL

\* What the finished report of probe affirms is so on disk: files that can be
\* read where they were opened, regular files where they were stat'ed.
THEOREM ReportHolds == Spec => []ReportIsTrue
<1>1. IInv => ReportIsTrue
  <2> SUFFICES ASSUME IInv PROVE ReportIsTrue  OBVIOUS
  <2>1. ASSUME NEW v \in Revision, best[v] # None
        PROVE  \E r \in Root : Agrees(best[v], r, v) /\ best[v] \in Entry
    BY <2>1 DEF IInv, Walk, BestIsThere
  <2>2. ASSUME NEW v \in Revision, Reported(v), Complete(best[v])
        PROVE  \E r \in Root, kind \in Kind : Whole(r, v, kind)
    BY <2>1, <2>2, CompleteIsWhole DEF Reported, IInv
  <2>3. ASSUME NEW v \in Revision, Reported(v), Present(best[v]) # {}
        PROVE  \E r \in Root, s \in Shard : On(r, v, s) \in Accepted(s)
    <3>1. PICK f \in Named(best[v]) : Regular(best[v], f)  BY <2>3 DEF Present
    <3>2. f \in Shard
      <4>1. IndexKind(best[v]) \in Kind  BY DEF IndexKind, Kind
      <4>2. IndexSeen(best[v]) \in {"exact", "other"}
        BY <3>1, <4>1, IndexAccepted DEF Named, Parsed, IndexSeen, Regular
      <4> QED BY <3>1, <4>1, <4>2, ListedAssumption DEF Named
    <3> QED BY <2>1, <2>3, <3>1, <3>2 DEF Reported, Regular, Saw, Agrees, Accepted
  <2> QED BY <2>2, <2>3 DEF ReportIsTrue, IInv, FoundIsThere
<1> QED BY <1>1, IInvariant, PTL

\* A complete entry has every expected hash on disk, and the two flags that
\* the evidence validator requires agree.
THEOREM CompleteHasHashes == Spec => []CompleteIsAuthentic
<1>1. IInv => CompleteIsAuthentic
  <2> SUFFICES ASSUME IInv, NEW v \in Revision, Reported(v), Complete(best[v])
               PROVE  /\ \E r \in Root, kind \in Kind :
                           \A e \in options.expected : Expected(e, r, v, kind)
                      /\ "index" \in options.expected => ExactShards(best[v])
    BY DEF CompleteIsAuthentic
  <2>1. PICK r \in Root : Agrees(best[v], r, v) /\ best[v] \in Entry
    BY DEF IInv, Walk, BestIsThere, Reported
  <2>2. \A e \in options.expected : Expected(e, r, v, IndexKind(best[v]))
        /\ IndexKind(best[v]) \in Kind
    BY <2>1, CompleteIsWhole DEF IInv
  <2>3. "index" \in options.expected => IndexSeen(best[v]) = "exact"
    BY DEF Complete, HashesMatch, ObservedHash, IndexSeen
  <2>4. IndexKind(best[v]) \in Kind  BY DEF IndexKind, Kind
  <2> QED BY <2>2, <2>3, <2>4 DEF ExactShards, Complete
<1> QED BY <1>1, IInvariant, PTL

\* A snapshot of either kind that was whole when probe began is reported complete,
\* unless it is a PyTorch one beside which a safetensors index is or arrives.
THEOREM WholeIsReported == Spec => []CompleteIsFound
<1>1. IInv => CompleteIsFound
  <2> SUFFICES ASSUME IInv, NEW w \in ready, phase = "done", w[2] = options.revision
               PROVE  best[w[2]] # None /\ Complete(best[w[2]])
    BY DEF CompleteIsFound
  <2>1. Len(Roots) \in Nat /\ at = Len(Roots) + 1  BY RootAssumption DEF IInv, Walk
  <2>2. w \in Root \X Revision \X Kind  BY DEF IInv, WholeStays
  <2>3. PICK i \in 1 .. Len(Roots) : w[1] = Roots[i]  BY <2>2, RootAssumption DEF Root
  <2>4. w = <<Roots[i], options.revision, w[3]>> /\ w[3] \in Kind  BY <2>2, <2>3
  <2> QED BY <2>1, <2>3, <2>4 DEF IInv, WholeIsKept
<1> QED BY <1>1, IInvariant, PTL

=============================================================================
