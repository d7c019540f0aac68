--------------------------- MODULE UpstreamFetch ---------------------------
(***************************************************************************)
(* tools/fetch_upstream.py: runs that materialise the reviewed MLX source  *)
(* in one destination, a git call at a time.  Runs race for the directory, *)
(* are killed, and have git calls that fail or never answer; meanwhile     *)
(* people edit the lock file and remove trees that no run works in.        *)
(*                                                                         *)
(* A tree goes through the stages of Order; one that a failed or killed    *)
(* call left in between is "partial".  git itself guarantees that the      *)
(* object it fetched for a revision is that revision.                      *)
(***************************************************************************)
EXTENDS Naturals, Sequences

CONSTANTS Fetcher,     \* runs of fetch_upstream.py
          Revision,    \* full commit ids
          NotSha,      \* a revision that is none, such as a branch name
          Locks,       \* contents the --lock file may have
          None,        \* no revision, or nobody's tree
          MaxEdits,    \* bound on the edits of the lock file
          MaxRemovals  \* bound on the removals of the destination

LockFile == [review_state : {"resolved_unreviewed", "approved"},
             review_evidence : BOOLEAN,   \* there is one and it is not empty
             ours : BOOLEAN,              \* the repository is ml-explore/mlx
             revision : Revision \cup {NotSha}]

ASSUME LockAssumption == Locks \subseteq LockFile
ASSUME NameAssumption == NotSha \notin Revision /\ None \notin Revision \cup Fetcher
ASSUME BoundAssumption == MaxEdits \in Nat /\ MaxRemovals \in Nat

VARIABLES pc,        \* next call of each run, or how it ended
          sha,       \* the revision each run has read
          hung,      \* runs whose git call will never answer
          lock,      \* the lock file
          tree,      \* the destination
          reviewed,  \* revisions the lock file has ever approved
          edits, removals

vars == <<pc, sha, hung, lock, tree, reviewed, edits, removals>>
external == <<lock, reviewed, edits, removals>>

Call  == {"init", "remote", "fetch", "checkout", "rev_parse"}
Ended == {"done", "refused", "failed", "killed"}
Label == {"idle", "exists", "mkdir"} \cup Call \cup Ended

\* What a tree is once a call has succeeded, and the call after it.
Stage == [mkdir |-> "empty", init |-> "repository", remote |-> "remote",
          fetch |-> "fetched", checkout |-> "source", rev_parse |-> "source"]
After == [mkdir |-> "init", init |-> "remote", remote |-> "fetch",
          fetch |-> "checkout", checkout |-> "rev_parse", rev_parse |-> "done"]

NoTree == [maker |-> None, stage |-> "absent", head |-> None]

Approves(l) == /\ l.review_state = "approved"
               /\ l.review_evidence
               /\ l.ours
               /\ l.revision \in Revision

Init == /\ pc = [f \in Fetcher |-> "idle"]
        /\ sha = [f \in Fetcher |-> None]
        /\ hung = {}
        /\ lock \in Locks
        /\ tree \in {NoTree, [NoTree EXCEPT !.stage = "partial"]}
        /\ reviewed = {l.revision : l \in {m \in {lock} : Approves(m)}}
        /\ edits = 0
        /\ removals = 0

Goto(f, label) == pc' = [pc EXCEPT ![f] = label]

\* A run that has made the directory and not ended.
Working(f) == pc[f] \in Call

----------------------------------------------------------------------------
(* Defects the properties below must catch.  None of them is part of Next. *)

\* dest.mkdir(parents=True, exist_ok=True)
MkdirExistOk(f) ==
  /\ pc[f] = "mkdir"
  /\ tree' = IF tree.stage = "absent" THEN [NoTree EXCEPT !.maker = f, !.stage = "empty"] ELSE tree
  /\ Goto(f, "init")
  /\ UNCHANGED <<sha, hung, external>>

\* The lock is read again for the revision, after it was checked.
ExistsReadsAgain(f) ==
  /\ pc[f] = "exists"
  /\ sha' = [sha EXCEPT ![f] = lock.revision]
  /\ Goto(f, IF tree.stage = "absent" THEN "mkdir" ELSE "refused")
  /\ UNCHANGED <<hung, tree, external>>

\* subprocess.run without a timeout.
NoTimeout(f) == FALSE

----------------------------------------------------------------------------
ReadLock(f) ==
  /\ pc[f] = "idle"
  /\ sha' = [sha EXCEPT ![f] = lock.revision]
  /\ Goto(f, IF Approves(lock) THEN "exists" ELSE "refused")
  /\ UNCHANGED <<hung, tree, external>>

Exists(f) ==
  /\ pc[f] = "exists"
  /\ Goto(f, IF tree.stage = "absent" THEN "mkdir" ELSE "refused")
  /\ UNCHANGED <<sha, hung, tree, external>>

Mkdir(f) ==
  /\ pc[f] = "mkdir"
  /\ \/ /\ tree.stage = "absent"
        /\ tree' = [NoTree EXCEPT !.maker = f, !.stage = Stage.mkdir]
        /\ Goto(f, After.mkdir)
     \/ /\ Goto(f, "failed")
        /\ UNCHANGED tree
  /\ UNCHANGED <<sha, hung, external>>

\* git init accepts a repository; a second remote named origin, and work in a
\* tree that is not at the stage before, fail.
Possible(f) == \/ pc[f] = "init" /\ tree.stage # "absent"
               \/ \E c \in Call : After[c] = pc[f] /\ Stage[c] = tree.stage

Advanced(f) ==
  [tree EXCEPT !.stage = Stage[pc[f]],
               !.head = IF pc[f] = "checkout" THEN sha[f] ELSE @]

\* A git call answers; the last one is compared with the revision asked for.
Git(f) ==
  /\ Working(f)
  /\ f \notin hung
  /\ Possible(f)
  /\ pc[f] = "rev_parse" => tree.head = sha[f]
  /\ tree' = Advanced(f)
  /\ Goto(f, After[pc[f]])
  /\ UNCHANGED <<sha, hung, external>>

\* What an unfinished call leaves of the tree; rev-parse only reads.
Leaves(f) == IF pc[f] = "rev_parse" \/ tree.stage = "absent" THEN {tree}
             ELSE {tree, [tree EXCEPT !.stage = "partial"]}

\* A git call ends with an error, or the revision differs.
GitFails(f) ==
  /\ Working(f)
  /\ f \notin hung
  /\ tree' \in Leaves(f)
  /\ Goto(f, "failed")
  /\ UNCHANGED <<sha, hung, external>>

\* After 300 seconds subprocess.run kills git and raises.
Timeout(f) ==
  /\ Working(f)
  /\ tree' \in Leaves(f)
  /\ hung' = hung \ {f}
  /\ Goto(f, "failed")
  /\ UNCHANGED <<sha, external>>

\* The run is killed; git may still finish the call it was asked for.
Kill(f) ==
  /\ pc[f] \notin {"idle"} \cup Ended
  /\ tree' \in IF Working(f)
               THEN Leaves(f) \cup {Advanced(g) : g \in {h \in {f} : Possible(h)}}
               ELSE {tree}
  /\ hung' = hung \ {f}
  /\ Goto(f, "killed")
  /\ UNCHANGED <<sha, external>>

\* The connection of a git call stalls.
Hang(f) ==
  /\ pc[f] = "fetch"
  /\ hung' = hung \cup {f}
  /\ UNCHANGED <<pc, sha, tree, external>>

EditLock ==
  /\ edits < MaxEdits
  /\ edits' = edits + 1
  /\ lock' \in Locks
  /\ reviewed' = reviewed \cup {l.revision : l \in {m \in {lock'} : Approves(m)}}
  /\ UNCHANGED <<pc, sha, hung, tree, removals>>

\* Somebody removes a tree in which no run works.
Remove ==
  /\ removals < MaxRemovals
  /\ \A f \in Fetcher : ~Working(f)
  /\ tree.stage # "absent"
  /\ tree' = NoTree
  /\ removals' = removals + 1
  /\ UNCHANGED <<pc, sha, hung, lock, reviewed, edits>>

Step(f) == \/ Exists(f)
           \/ Mkdir(f)
           \/ Git(f)
           \/ GitFails(f)
           \/ Timeout(f)

Next == \/ \E f \in Fetcher : \/ ReadLock(f)
                              \/ Step(f)
                              \/ Kill(f)
                              \/ Hang(f)
        \/ EditLock
        \/ Remove

Spec == Init /\ [][Next]_vars

\* A run that has started goes on; whether git answers is up to the network,
\* and the clock of subprocess.run runs.
FairSpec == Spec /\ \A f \in Fetcher : WF_vars(Step(f))

----------------------------------------------------------------------------
TypeOK ==
  /\ pc \in [Fetcher -> Label]
  /\ sha \in [Fetcher -> Revision \cup {None, NotSha}]
  /\ hung \subseteq Fetcher
  /\ lock \in Locks
  /\ tree \in [maker : Fetcher \cup {None}, head : Revision \cup {None, NotSha},
               stage : {"absent", "partial", "empty", "repository", "remote",
                        "fetched", "source"}]
  /\ reviewed \subseteq Revision
  /\ edits \in 0..MaxEdits
  /\ removals \in 0..MaxRemovals

\* Between the question whether the destination exists and the mkdir another
\* run may make it: git only ever works in a tree its own run has made, and at
\* the stage its own calls have brought it to.
OwnTree == \A f \in Fetcher : Working(f) =>
  /\ tree.maker = f
  /\ \E c \in DOMAIN After : After[c] = pc[f] /\ tree.stage = Stage[c]

\* A tree whose run reported success is whole, at the revision the run read,
\* and that revision stood in an approved lock with review evidence, whatever
\* became of the lock file in the meantime.
SourceIsReviewed == \A f \in Fetcher : (pc[f] = "done" /\ tree.maker = f) =>
  /\ tree.stage = "source"
  /\ tree.head = sha[f]
  /\ sha[f] \in reviewed

\* A run that has read its lock ends, even when git never answers.
RunsEnd == \A f \in Fetcher : pc[f] # "idle" ~> pc[f] \in Ended
=============================================================================
