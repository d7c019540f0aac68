------------------------- MODULE UpstreamFetchProofs -------------------------
(***************************************************************************)
(* Proofs about UpstreamFetch, for any number of runs, revisions, edits of *)
(* the lock and removals of the tree.  A run between mkdir and its end is  *)
(* the maker of the tree, and only one run can be that.                    *)
(***************************************************************************)
EXTENDS UpstreamFetch, TLAPS

\* What a run has read before it goes on: a revision that was approved.
ReadReviewed == \A f \in Fetcher :
  pc[f] \in {"exists", "mkdir", "done"} \cup Call => sha[f] \in reviewed /\ sha[f] \in Revision

\* The last call finds the tree at the revision that was checked out.
HeadIsSha == \A f \in Fetcher :
  (pc[f] \in {"rev_parse", "done"} /\ tree.maker = f) => tree.stage = "source" /\ tree.head = sha[f]

LockReviewed == Approves(lock) => lock.revision \in reviewed

IInv == TypeOK /\ OwnTree /\ ReadReviewed /\ HeadIsSha /\ LockReviewed

Tree == [maker : Fetcher \cup {None}, head : Revision \cup {None, NotSha},
         stage : {"absent", "partial", "empty", "repository", "remote",
                  "fetched", "source"}]

----------------------------------------------------------------------------
\* A call that succeeds leaves a stage and leads to a label.
LEMMA CallTypes ==
  ASSUME NEW c \in Call
  PROVE  /\ Stage[c] \in {"repository", "remote", "fetched", "source"}
         /\ After[c] \in {"done"} \cup Call
<1>1. CASE c \in {"init", "remote"}
  BY <1>1 DEF Stage, After, Call
<1>2. CASE c \in {"fetch", "checkout", "rev_parse"}
  BY <1>2 DEF Stage, After, Call
<1> QED
  BY <1>1, <1>2 DEF Call

\* A call keeps the maker of the tree and its type.
LEMMA AdvancedTypes ==
  ASSUME TypeOK, NEW f \in Fetcher, Working(f), sha[f] \in Revision
  PROVE  /\ Advanced(f) \in Tree /\ Advanced(f).maker = tree.maker
         /\ \A t \in Leaves(f) : t \in Tree /\ t.maker = tree.maker
<1>1. tree \in Tree
  BY DEF TypeOK, Tree
<1>2. Stage[pc[f]] \in {"repository", "remote", "fetched", "source"}
  BY CallTypes DEF Working
<1>3. Advanced(f) \in Tree /\ Advanced(f).maker = tree.maker
  BY <1>1, <1>2 DEF Advanced, Tree
<1>4. \A t \in Leaves(f) : t \in Tree /\ t.maker = tree.maker
  BY <1>1 DEF Leaves, Tree
<1> QED
  BY <1>3, <1>4

\* Two runs never work at once: each would be the maker.
LEMMA OneWorker ==
  ASSUME IInv, NEW f \in Fetcher, NEW g \in Fetcher, Working(f), Working(g)
  PROVE  f = g
  BY DEF IInv, OwnTree

\* At first nothing was read and the lock may already be approved.
LEMMA InitIInv == ASSUME Init PROVE IInv
<1>1. lock \in LockFile /\ lock \in Locks
  BY LockAssumption DEF Init
<1>2. reviewed = IF Approves(lock) THEN {lock.revision} ELSE {}
  BY DEF Init
<1>3. TypeOK
  BY <1>1, <1>2, BoundAssumption DEF Init, TypeOK, NoTree, Label, LockFile, Approves
<1>4. OwnTree /\ ReadReviewed /\ HeadIsSha
  BY DEF Init, OwnTree, ReadReviewed, HeadIsSha, Working, Call
<1> QED
  BY <1>2, <1>3, <1>4 DEF IInv, LockReviewed

\* A run reads the lock and keeps an approved revision, or stops.
LEMMA ReadLockInv == ASSUME IInv, NEW f \in Fetcher, ReadLock(f) PROVE IInv'
<1>1. lock \in LockFile
  BY LockAssumption DEF IInv, TypeOK
<1>2. TypeOK'
  BY <1>1 DEF IInv, TypeOK, ReadLock, Goto, external, LockFile, Label, Call, Ended
<1>3. OwnTree' /\ HeadIsSha'
  BY DEF IInv, TypeOK, OwnTree, HeadIsSha, ReadLock, Goto, external, Working, Call
<1>4. ReadReviewed' /\ LockReviewed'
  BY DEF IInv, TypeOK, ReadReviewed, LockReviewed, ReadLock, Goto, external, Approves, Call
<1> QED
  BY <1>2, <1>3, <1>4 DEF IInv

\* The question whether the destination exists changes nothing.
LEMMA ExistsInv == ASSUME IInv, NEW f \in Fetcher, Exists(f) PROVE IInv'
<1>1. TypeOK'
  BY DEF IInv, TypeOK, Exists, Goto, external, Label, Ended
<1>2. OwnTree' /\ HeadIsSha' /\ ReadReviewed' /\ LockReviewed'
  BY DEF IInv, TypeOK, OwnTree, HeadIsSha, ReadReviewed, LockReviewed, Exists, Goto, external, Working, Call, Approves
<1> QED
  BY <1>1, <1>2 DEF IInv

\* mkdir succeeds only where nothing is, so nobody works in what it makes.
LEMMA MkdirInv == ASSUME IInv, NEW f \in Fetcher, Mkdir(f) PROVE IInv'
<1>1. TypeOK'
  <2>1. Stage.mkdir = "empty" /\ After.mkdir = "init"
    BY DEF Stage, After
  <2>2. tree' \in Tree
    BY <2>1 DEF Mkdir, IInv, TypeOK, NoTree, Tree
  <2>3. pc' \in [Fetcher -> Label]
    BY <2>1 DEF Mkdir, IInv, TypeOK, Goto, Label, Call, Ended
  <2> QED
    BY <2>2, <2>3 DEF IInv, TypeOK, Mkdir, external, Tree
<1>2. ReadReviewed' /\ LockReviewed'
  BY DEF IInv, TypeOK, ReadReviewed, LockReviewed, Mkdir, Goto, external, Approves, Call, After
<1>3. CASE tree.stage = "absent" /\ tree' = [NoTree EXCEPT !.maker = f, !.stage = Stage.mkdir] /\ Goto(f, After.mkdir)
  <2>1. \A g \in Fetcher : ~Working(g)
    BY <1>3 DEF IInv, OwnTree, Stage, After
  <2>2. tree'.maker = f /\ tree'.stage = "empty" /\ pc' = [pc EXCEPT ![f] = "init"]
    BY <1>3 DEF NoTree, Stage, After, Goto
  <2>3. OwnTree'
    BY <2>1, <2>2 DEF IInv, TypeOK, OwnTree, Working, Call, After, Stage
  <2>4. HeadIsSha'
    BY <2>2 DEF IInv, TypeOK, HeadIsSha
  <2> QED
    BY <1>1, <1>2, <2>3, <2>4 DEF IInv
<1>4. CASE Goto(f, "failed") /\ UNCHANGED tree
  <2>1. OwnTree' /\ HeadIsSha'
    BY <1>4 DEF IInv, TypeOK, OwnTree, HeadIsSha, Mkdir, Goto, Working, Call
  <2> QED
    BY <1>1, <1>2, <2>1 DEF IInv
<1> QED
  BY <1>3, <1>4 DEF Mkdir

\* A call that answers takes the tree of its own run to the next stage.
LEMMA GitInv == ASSUME IInv, NEW f \in Fetcher, Git(f) PROVE IInv'
<1>0. /\ tree.maker = f /\ Working(f)
      /\ \A g \in Fetcher \ {f} : ~Working(g)
      /\ sha[f] \in Revision /\ sha[f] \in reviewed
  BY OneWorker DEF Git, IInv, OwnTree, ReadReviewed, Working
<1>1. tree' = [tree EXCEPT !.stage = Stage[pc[f]], !.head = IF pc[f] = "checkout" THEN sha[f] ELSE @]
  BY DEF Git, Advanced
<1>2. TypeOK'
  <2>1. tree' \in Tree
    BY <1>0, AdvancedTypes DEF Git, IInv
  <2>2. After[pc[f]] \in Label
    BY <1>0, CallTypes DEF Working, Label, Ended
  <2> QED
    BY <2>1, <2>2 DEF IInv, TypeOK, Git, Goto, external, Tree
<1>3. tree'.maker = f /\ tree'.stage = Stage[pc[f]] /\ pc' = [pc EXCEPT ![f] = After[pc[f]]]
  BY <1>0, <1>1 DEF IInv, TypeOK, Git, Goto
<1>4. OwnTree'
  <2> SUFFICES ASSUME NEW g \in Fetcher, Working(g)'
               PROVE  tree'.maker = g /\ \E c \in DOMAIN After : After[c] = pc'[g] /\ tree'.stage = Stage[c]
    BY DEF OwnTree
  <2>1. g = f
    BY <1>0, <1>3 DEF IInv, TypeOK, Working
  <2> QED
    BY <1>0, <1>3, <2>1 DEF IInv, TypeOK, Working, Call, After
<1>5. HeadIsSha'
  <2>1. tree'.head = IF pc[f] = "checkout" THEN sha[f] ELSE tree.head
    BY <1>1 DEF IInv, TypeOK
  <2> QED
    BY <1>0, <1>3, <2>1 DEF IInv, TypeOK, HeadIsSha, Git, external, Working, Call, Stage, After
<1>6. ReadReviewed' /\ LockReviewed'
  BY <1>0, <1>3 DEF IInv, TypeOK, ReadReviewed, LockReviewed, Git, external, Approves, Working, Call, After
<1> QED
  BY <1>2, <1>4, <1>5, <1>6 DEF IInv

\* A run that ends without success works no longer, whatever it leaves.
LEMMA StopInv ==
  ASSUME IInv, NEW f \in Fetcher, NEW e \in {"failed", "killed"}, Goto(f, e),
         UNCHANGED <<sha, external>>, hung' \subseteq Fetcher,
         \/ UNCHANGED tree
         \/ Working(f) /\ tree' \in Leaves(f) \cup {Advanced(g) : g \in {h \in {f} : Possible(h)}}
  PROVE  IInv'
<1>1. /\ tree'.maker = tree.maker
      /\ tree' \in Tree
      /\ UNCHANGED tree \/ Working(f)
  <2>1. CASE UNCHANGED tree
    BY <2>1 DEF IInv, TypeOK, Tree
  <2>2. CASE /\ Working(f)
             /\ tree' \in Leaves(f) \cup {Advanced(g) : g \in {h \in {f} : Possible(h)}}
    <3>1. sha[f] \in Revision
      BY <2>2 DEF IInv, ReadReviewed, Working
    <3> QED
      BY <2>2, <3>1, AdvancedTypes DEF IInv
  <2> QED
    BY <2>1, <2>2
<1>2. TypeOK'
  BY <1>1 DEF IInv, TypeOK, Goto, external, Label, Ended, Tree
<1>3. pc' = [pc EXCEPT ![f] = e] /\ pc \in [Fetcher -> Label]
  BY DEF Goto, IInv, TypeOK
<1>4. OwnTree'
  <2>1. ASSUME NEW g \in Fetcher, Working(g)' PROVE g # f /\ Working(g) /\ UNCHANGED tree
    BY <1>1, <1>3, <2>1, OneWorker DEF Working, Call
  <2> QED
    BY <1>3, <2>1 DEF IInv, OwnTree
<1>5. HeadIsSha'
  <2> SUFFICES ASSUME NEW g \in Fetcher, pc'[g] \in {"rev_parse", "done"}, tree'.maker = g
               PROVE  tree'.stage = "source" /\ tree'.head = sha'[g]
    BY DEF HeadIsSha
  <2>1. g # f /\ pc'[g] = pc[g] /\ tree.maker = g
    BY <1>1, <1>3
  <2>2. UNCHANGED tree
    BY <1>1, <2>1 DEF IInv, OwnTree
  <2> QED
    BY <2>1, <2>2 DEF IInv, HeadIsSha
<1>6. ReadReviewed' /\ LockReviewed'
  BY <1>3 DEF IInv, ReadReviewed, LockReviewed, external, Approves, Call
<1> QED
  BY <1>2, <1>4, <1>5, <1>6 DEF IInv

\* Every step keeps the invariant.
LEMMA NextIInv == ASSUME IInv, [Next]_vars PROVE IInv'
<1>0. hung \subseteq Fetcher
  BY DEF IInv, TypeOK
<1>1. ASSUME NEW f \in Fetcher, ReadLock(f) \/ Exists(f) \/ Mkdir(f) \/ Git(f) PROVE IInv'
  BY <1>1, ReadLockInv, ExistsInv, MkdirInv, GitInv
<1>2. ASSUME NEW f \in Fetcher, GitFails(f) PROVE IInv'
  BY <1>0, <1>2, StopInv DEF GitFails
<1>3. ASSUME NEW f \in Fetcher, Timeout(f) PROVE IInv'
  BY <1>0, <1>3, StopInv DEF Timeout
<1>4. ASSUME NEW f \in Fetcher, Kill(f) PROVE IInv'
  BY <1>0, <1>4, StopInv DEF Kill
<1>5. ASSUME NEW f \in Fetcher, Hang(f) PROVE IInv'
  BY <1>5 DEF Hang, IInv, TypeOK, OwnTree, ReadReviewed, HeadIsSha, LockReviewed, external, Working, Approves
<1>6. CASE EditLock
  <2>1. lock' \in LockFile /\ lock' \in Locks
    BY <1>6, LockAssumption DEF EditLock
  <2>2. reviewed' = reviewed \cup IF Approves(lock)' THEN {lock'.revision} ELSE {}
    BY <1>6 DEF EditLock, Approves
  <2>3. TypeOK'
    BY <1>6, <2>1, <2>2, BoundAssumption DEF EditLock, IInv, TypeOK, Approves
  <2>4. OwnTree' /\ ReadReviewed' /\ HeadIsSha' /\ LockReviewed'
    BY <1>6, <2>2 DEF EditLock, IInv, OwnTree, ReadReviewed, HeadIsSha, LockReviewed, Working
  <2> QED
    BY <2>3, <2>4 DEF IInv
<1>7. CASE Remove
  <2>1. tree'.maker = None /\ tree' = NoTree
    BY <1>7 DEF Remove, NoTree
  <2>2. TypeOK'
    BY <1>7, BoundAssumption DEF Remove, IInv, TypeOK, NoTree
  <2>3. OwnTree' /\ HeadIsSha'
    BY <1>7, <2>1, NameAssumption DEF Remove, OwnTree, HeadIsSha, Working
  <2>4. ReadReviewed' /\ LockReviewed'
    BY <1>7 DEF Remove, IInv, ReadReviewed, LockReviewed, Approves
  <2> QED
    BY <2>2, <2>3, <2>4 DEF IInv
<1>8. CASE UNCHANGED vars
  BY <1>8 DEF vars, IInv, TypeOK, OwnTree, ReadReviewed, HeadIsSha, LockReviewed, Working, Approves
<1> QED
  BY <1>1, <1>2, <1>3, <1>4, <1>5, <1>6, <1>7, <1>8 DEF Next, Step

----------------------------------------------------------------------------
\* The invariant holds in every behaviour of the runs, people and the network.
THEOREM IInvariant == Spec => []IInv
<1>1. Init => IInv
  BY InitIInv
<1>2. IInv /\ [Next]_vars => IInv'
  BY NextIInv
<1> QED
  BY <1>1, <1>2, PTL DEF Spec

\* git works only in the tree that its own run has made.
THEOREM WorksInOwnTree == Spec => []OwnTree
<1>1. IInv => OwnTree
  BY DEF IInv
<1> QED
  BY <1>1, IInvariant, PTL

\* The tree of a run that reported success is the whole source at a revision
\* that an approved lock with evidence has named.
THEOREM MaterializedWasReviewed == Spec => []SourceIsReviewed
<1>1. IInv => SourceIsReviewed
  BY DEF IInv, HeadIsSha, ReadReviewed, SourceIsReviewed
<1> QED
  BY <1>1, IInvariant, PTL
=============================================================================
