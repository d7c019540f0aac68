-------------------------- MODULE SourceResolution --------------------------
(***************************************************************************)
(* build_lock of tools/resolve_sources.py with the calls it makes:         *)
(* validate_candidate, resolve_git_revision, resolve_hf_revision,          *)
(* audit_git_source, resolve_mlx_transitive_sources and audit_qwen_source. *)
(* One request to the hosts is one step, so that refs and tags may move    *)
(* between any two of them.                                                *)
(*                                                                         *)
(* An item is a source of the candidate or a transitive pin; items are     *)
(* resolved in the order of Agenda, the pins right after the source that   *)
(* declares them.  What a host serves for an exact revision never changes: *)
(* world says what a resolver would find there.  A payload is the revision *)
(* it was served for.                                                      *)
(***************************************************************************)
EXTENDS Sequences, Naturals

CONSTANTS GitSource, HfSource,  \* sources of the candidate, by kind
          Pin,                  \* MLX_TRANSITIVE_SOURCES
          Declaring,            \* the source whose CMake files declare the pins
          Agenda,               \* all items in the order they are resolved
          Revision,             \* full lowercase SHAs
          NotSha,               \* any other reply or entry
          None,                 \* null
          Artifacts,            \* number of files audited in a source
          World,                \* what the hosts may hold, see WorldAssumption
          MaxMoves              \* bound on the moves of refs

Source == GitSource \cup HfSource
Item == Source \cup Pin

\* known: commits that exist; audited: revisions whose files carry the license
\* and contract markers (and, in a model repository, the configuration of the
\* local snapshot); declares: revisions of Declaring that declare a pin by its
\* tag; covers: <<i, m>> such that every shard named by the weight index of
\* revision i is a sibling in the exact metadata of revision m.
ASSUME WorldAssumption ==
  World \subseteq [known    : [Item -> SUBSET Revision],
                   audited  : [Source -> SUBSET Revision],
                   declares : SUBSET (Revision \X Pin),
                   covers   : SUBSET (Revision \X Revision)]
ASSUME ItemAssumption == /\ Declaring \in GitSource
                         /\ Pin \cap Source = {} /\ GitSource \cap HfSource = {}
                         /\ Agenda \in Seq(Item)
ASSUME ValueAssumption == /\ {NotSha, None} \cap Revision = {}
                          /\ NotSha # None
                          /\ Artifacts \in Nat \ {0} /\ MaxMoves \in Nat

VARIABLES world,      \* what the hosts hold
          candidate,  \* revision and ref_to_resolve of each source
          head,       \* where each ref or tag points
          moves,      \* how often one moved
          seen,       \* where it pointed since the run began (history)
          status,     \* "validate", "running", "locked" or "refused"
          at,         \* the item in progress is Agenda[at]
          phase,      \* next request for it
          revision,   \* revision that is being resolved
          metadata,   \* revision of the exact metadata document
          payloads,   \* files fetched for the source in progress
          cmake,      \* the payloads of Declaring, kept for its pins
          lock        \* what build_lock has collected, item by item

hosts == <<world, candidate, head, moves, seen>>
run == <<status, at, phase, revision, metadata, payloads, cmake, lock>>
vars == <<hosts, run>>

\* The ref an item names, and the default branch of a model repository.
Ref == (Item \X {"named"}) \cup (HfSource \X {"default"})

\* "default" is a ref that is the default branch of the repository.
SafeRef == {"named", "default"}
Entry == [revision : Revision \cup {NotSha, None}, ref : SafeRef \cup {"unsafe", None}]
Locked == [revision : Revision, metadata : Revision, payloads : Seq(Revision)]

Init == /\ world \in World
        /\ candidate \in [Source -> Entry]
        /\ head \in [Ref -> Revision]
        /\ \A r \in Ref : head[r] \in world.known[r[1]]
        /\ moves = 0
        /\ seen = [r \in Ref |-> {head[r]}]
        /\ status = "validate"
        /\ at = 1 /\ phase = "discover"
        /\ revision = None /\ metadata = None
        /\ payloads = <<>> /\ cmake = <<>>
        /\ lock = <<>>

Current == Agenda[at]
Running(p) == status = "running" /\ phase = p

\* Every exception leaves build_lock, and no lock is returned.
Refuse == /\ status' = "refused"
          /\ UNCHANGED <<hosts, at, phase, revision, metadata, payloads, cmake, lock>>

\* A candidate's ref of a model repository may be its default branch; which ref
\* of a git repository is the default one makes no difference to the code.
RefOf(i) == <<i, IF i \in HfSource /\ candidate[i].ref = "default" THEN "default" ELSE "named">>

\* The ref whose commit is asked for: of a model repository it is the default
\* branch, whatever the candidate names.
AskedFor(i) == <<i, IF i \in HfSource THEN "default" ELSE "named">>

(* A branch or tag is moved to another commit of its repository. *)
MoveHead(r) ==
  /\ moves < MaxMoves
  /\ \E to \in world.known[r[1]] \ {head[r]} :
       /\ head' = [head EXCEPT ![r] = to]
       /\ seen' = [seen EXCEPT ![r] = @ \cup {to}]
  /\ moves' = moves + 1
  /\ UNCHANGED <<world, candidate, run>>

AllFetched == Len(payloads) = Artifacts

\* require_markers of the source, and for a model repository its shard list.
PassesAudit ==
  /\ \A k \in DOMAIN payloads : payloads[k] \in world.audited[Current]
  /\ Current \in HfSource =>
       \A k \in DOMAIN payloads : <<payloads[k], metadata>> \in world.covers

----------------------------------------------------------------------------
(* Defects the properties below must catch.  None of them is part of Next. *)

\* A revision beside a ref is accepted.
AcceptsBoth(e) == e.revision \in Revision \/ e.ref \in SafeRef

\* Files are requested at the ref instead of the revision.
FetchAtRef == head[RefOf(Current)]

\* Declarations are read where the ref points by now.
DeclaredAtHead(pin) == <<head[RefOf(Declaring)], pin>> \in world.declares

\* A source that fails its audit is resolved anew.
AuditRestarts ==
  /\ Running("fetch") /\ AllFetched /\ ~PassesAudit
  /\ phase' = "discover"
  /\ payloads' = <<>>
  /\ UNCHANGED <<hosts, status, at, revision, metadata, cmake, lock>>

----------------------------------------------------------------------------
(* validate_candidate: exactly one of a full SHA and a safe ref. *)
WellFormed(e) == /\ e.revision \in Revision \cup {None}
                 /\ e.ref \in SafeRef \cup {None}
                 /\ (e.revision = None) # (e.ref = None)

Validate ==
  /\ status = "validate"
  /\ status' = IF \A s \in Source : WellFormed(candidate[s]) THEN "running" ELSE "refused"
  /\ UNCHANGED <<hosts, at, phase, revision, metadata, payloads, cmake, lock>>

Pinned(i) == i \in Source /\ candidate[i].revision # None

\* The marker that binds a pin to its tag is looked for in the payloads of
\* Declaring before the pin is resolved.
Declared(pin) ==
  \E k \in DOMAIN cmake : <<cmake[k], pin>> \in world.declares

(* The revision a candidate pins, or the one that is discovered now.       *)
Discover ==
  /\ Running("discover")
  /\ Current \in Pin => Declared(Current)
  /\ revision' = IF Pinned(Current) THEN candidate[Current].revision
                                   ELSE head[AskedFor(Current)]
  /\ phase' = "exact"
  /\ UNCHANGED <<hosts, status, at, metadata, payloads, cmake, lock>>

\* require_markers of resolve_mlx_transitive_sources raises.
NotDeclared == /\ Running("discover")
               /\ Current \in Pin /\ ~Declared(Current)
               /\ Refuse

\* exact.get("sha") != revision raises.
RoundTrips(reply) == reply = revision

(* The exact revision must exist under its own name. *)
Exact ==
  /\ Running("exact")
  /\ \E reply \in Revision :
       /\ reply = revision => revision \in world.known[Current]
       /\ RoundTrips(reply)
       /\ metadata' = reply
  /\ IF Current \in Pin
     THEN /\ lock' = Append(lock, [revision |-> revision, metadata |-> metadata',
                                   payloads |-> <<>>])
          /\ at' = at + 1
          /\ phase' = "discover"
     ELSE /\ phase' = "fetch"
          /\ UNCHANGED <<at, lock>>
  /\ payloads' = <<>>
  /\ UNCHANGED <<hosts, status, revision, cmake>>

\* The reply names another commit, or none.
ExactDiffers ==
  /\ Running("exact")
  /\ \E reply \in Revision \cup {NotSha} : ~RoundTrips(reply)
  /\ Refuse

\* The URL of every audited file names the revision.
Requested == revision

Fetch ==
  /\ Running("fetch") /\ ~AllFetched
  /\ payloads' = Append(payloads, Requested)
  /\ UNCHANGED <<hosts, status, at, phase, revision, metadata, cmake, lock>>

Audit ==
  /\ Running("fetch") /\ AllFetched /\ PassesAudit
  /\ lock' = Append(lock, [revision |-> revision, metadata |-> metadata,
                           payloads |-> payloads])
  /\ cmake' = IF Current = Declaring THEN payloads ELSE cmake
  /\ at' = at + 1
  /\ phase' = "discover"
  /\ UNCHANGED <<hosts, status, revision, metadata, payloads>>

AuditFails == Running("fetch") /\ AllFetched /\ ~PassesAudit /\ Refuse

\* A request times out, exceeds its limit or returns no SHA or no document.
RequestFails ==
  /\ \/ Running("discover") /\ ~Pinned(Current)
     \/ Running("exact")
     \/ Running("fetch") /\ ~AllFetched
  /\ Refuse

\* The lock is returned, for atomic_write_new to publish.
Finish ==
  /\ status = "running" /\ at = Len(Agenda) + 1
  /\ status' = "locked"
  /\ UNCHANGED <<hosts, at, phase, revision, metadata, payloads, cmake, lock>>

Work == at <= Len(Agenda) /\ (\/ Discover \/ NotDeclared \/ Exact \/ ExactDiffers
                              \/ Fetch \/ Audit \/ AuditFails \/ RequestFails)
Step == Validate \/ Work \/ Finish

Next == Step \/ \E r \in Ref : MoveHead(r)

Spec == Init /\ [][Next]_vars /\ WF_vars(Step)
----------------------------------------------------------------------------
(* Type correctness. *)
TypeOK == /\ world \in World /\ candidate \in [Source -> Entry]
          /\ head \in [Ref -> Revision] /\ seen \in [Ref -> SUBSET Revision]
          /\ moves \in 0..MaxMoves
          /\ status \in {"validate", "running", "locked", "refused"}
          /\ at \in 1..(Len(Agenda) + 1)
          /\ phase \in {"discover", "exact", "fetch"}
          /\ revision \in Revision \cup {None} /\ metadata \in Revision \cup {None}
          /\ payloads \in Seq(Revision) /\ Len(payloads) <= Artifacts
          /\ cmake \in Seq(Revision)
          /\ lock \in Seq(Locked)

(* A lock is about one existing, audited revision of every source: all its *)
(* artifacts, its metadata and its shard list are of the revision it names,*)
(* although refs moved between the requests; and nothing that failed is in *)
(* it.                                                                     *)
LockCoherent ==
  status = "locked" =>
    /\ Len(lock) = Len(Agenda)
    /\ \A k \in DOMAIN lock :
         LET i == Agenda[k]
             r == lock[k].revision
         IN  /\ r \in world.known[i] /\ lock[k].metadata = r
             /\ i \in Source => /\ lock[k].payloads = [n \in 1..Artifacts |-> r]
                               /\ r \in world.audited[i]
             /\ i \in HfSource => <<r, r>> \in world.covers

(* The revision locked is the one the candidate pins.  For a transitive    *)
(* pin, a git source that names a ref and a model repository whose ref is  *)
(* its default branch, it is one the ref pointed to during the run.  Of a  *)
(* model repository with any other ref nothing is said: the code locks a   *)
(* revision of the default branch instead.                                 *)
RevisionWasRequested ==
  status = "locked" =>
    \A k \in DOMAIN lock :
      LET i == Agenda[k]
      IN  IF i \in Pin \/ candidate[i].ref # None
          THEN RefOf(i) = AskedFor(i) => lock[k].revision \in seen[RefOf(i)]
          ELSE lock[k].revision = candidate[i].revision

(* Every transitive pin of a lock is declared, by its tag, in the CMake    *)
(* files of the very revision of Declaring that the lock names.            *)
PinsDeclared ==
  status = "locked" =>
    \A k \in DOMAIN lock :
      Agenda[k] \in Pin =>
        \E m \in DOMAIN lock : /\ Agenda[m] = Declaring
                              /\ <<lock[m].revision, Agenda[k]>> \in world.declares

(* A run ends, with a lock or without: however often refs move, no request *)
(* is repeated.                                                            *)
Terminates == <>(status \in {"locked", "refused"})
=============================================================================
