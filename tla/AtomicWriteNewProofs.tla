------------------------ MODULE AtomicWriteNewProofs ------------------------
(***************************************************************************)
(* What AtomicWriteNew states, proved for any number of runs, temporary    *)
(* names and power losses.                                                 *)
(***************************************************************************)
EXTENDS AtomicWriteNew, TLAPS

\* Between NamedTemporaryFile and the end of finally a run has a temporary.
Holding == {"write", "flush", "fsync", "link", "unlink"}

\* The temporary name of a run links to its own file for as long as it holds it.
OwnsTemp == \A p \in Process :
              pc[p] \in Holding => temp[p] \in TempName /\ dir[temp[p]] = p

\* fsync came first.
LinksSynced == \A p \in Process : pc[p] = "link" => file[p] = "synced"

\* A linked file is on the disk, and its writer is past every write.
PublishedSynced(d) ==
  \A p \in Process : d[Output] = p => /\ file[p] = "synced"
                                      /\ pc[p] \in {"unlink"} \cup Ended

\* Success is only ever recorded by the run whose link is the output.
OutcomeTrue ==
  losses = 0 => \A p \in Process :
                  pc[p] = "done" \/ (pc[p] = "unlink" /\ outcome[p] = "done")
                    => dir[Output] = p

\* A temporary file belongs to a run that will unlink it, or whose unlink raised,
\* or that was killed.
TempsHeld ==
  losses = 0 => \A p \in Process, n \in TempName :
                  dir[n] = p => \/ pc[p] \in {"uncleaned", "killed"}
                                \/ pc[p] \in Holding /\ temp[p] = n

(* The inductive invariant.  OutputWhole alone is not inductive: that the  *)
(* linked file is whole rests on the order write, flush, fsync, link, and  *)
(* that it stays whole on no run writing after its link.                   *)
IInv == /\ TypeOK
        /\ OwnsTemp
        /\ LinksSynced
        /\ PublishedSynced(dir)
        /\ PublishedSynced(disk)
        /\ OutcomeTrue
        /\ TempsHeld

USE NameAssumption, BoundAssumption

LEMMA InitIInv == Init => IInv
BY DEF Init, IInv, TypeOK, OwnsTemp, LinksSynced, PublishedSynced, OutcomeTrue,
       TempsHeld, Holding, Label, Content, Name, Inode, Ended

(* Every step keeps the seven variables in their types. *)
LEMMA TypeStep == TypeOK /\ OwnsTemp /\ [Next]_vars => TypeOK'
<1> SUFFICES ASSUME TypeOK, OwnsTemp, [Next]_vars PROVE TypeOK'
  OBVIOUS
<1> USE DEF TypeOK, Label, Content, Name, Inode, Ended, Goto
<1>1. ASSUME NEW p \in Process, output_exists(p) PROVE TypeOK'
  BY <1>1 DEF output_exists
<1>2. ASSUME NEW p \in Process, Resolve(p) PROVE TypeOK'
  BY <1>2 DEF Resolve
<1>3. ASSUME NEW p \in Process, CreateTemp(p) PROVE TypeOK'
  BY <1>3 DEF CreateTemp
<1>4. ASSUME NEW p \in Process, CreateTempFails(p) PROVE TypeOK'
  BY <1>4 DEF CreateTempFails
<1>5. ASSUME NEW p \in Process, Write(p) \/ Flush(p) \/ Fsync(p) PROVE TypeOK'
  BY <1>5 DEF Write, Flush, Fsync, Store
<1>6. ASSUME NEW p \in Process, Link(p) PROVE TypeOK'
  BY <1>6 DEF Link
<1>7. ASSUME NEW p \in Process, IoError(p) PROVE TypeOK'
  BY <1>7 DEF IoError
<1>8. ASSUME NEW p \in Process, Unlink(p) PROVE TypeOK'
  BY <1>8 DEF Unlink, OwnsTemp, Holding
<1>14. ASSUME NEW p \in Process, UnlinkFails(p) PROVE TypeOK'
  BY <1>14 DEF UnlinkFails
<1>9. ASSUME NEW p \in Process, Kill(p) PROVE TypeOK'
  BY <1>9 DEF Kill, KeepsAfterKill
<1>10. CASE WriteBack
  BY <1>10 DEF WriteBack
<1>11. CASE PowerLoss
  <2>1. /\ dir' \in [Name -> Inode] /\ disk' = dir'
        /\ losses' \in Nat /\ outcome' = outcome /\ temp' = temp
    BY <1>11 DEF PowerLoss
  <2>2. pc' \in [Process -> Label]
    BY <1>11 DEF PowerLoss
  <2>3. file' \in [Process -> Content]
    BY <1>11 DEF PowerLoss, KeepsAfterLoss
  <2> QED
    BY <2>1, <2>2, <2>3
<1>12. CASE ForeignCreate
  BY <1>12 DEF ForeignCreate
<1>13. CASE UNCHANGED vars
  BY <1>13 DEF vars
<1> QED
  BY <1>1, <1>2, <1>3, <1>4, <1>5, <1>6, <1>7, <1>8, <1>9, <1>10, <1>11,
     <1>12, <1>13, <1>14 DEF Next, Proceed

(* The other conjuncts of the inductive invariant, action by action. *)
LEMMA StepIInv == IInv /\ [Next]_vars => IInv'
<1> SUFFICES ASSUME IInv, [Next]_vars PROVE IInv'
  OBVIOUS
<1>0. TypeOK'
  BY TypeStep DEF IInv
<1> USE <1>0 DEF IInv, TypeOK, Goto, Holding, Ended, Name,
        OwnsTemp, LinksSynced, PublishedSynced, OutcomeTrue, TempsHeld
<1>1. ASSUME NEW p \in Process, output_exists(p) PROVE IInv'
  BY <1>1 DEF output_exists
<1>2. ASSUME NEW p \in Process, Resolve(p) PROVE IInv'
  BY <1>2 DEF Resolve
<1>3. ASSUME NEW p \in Process, CreateTemp(p) PROVE IInv'
  <2>1. OwnsTemp' /\ TempsHeld'
    BY <1>3 DEF CreateTemp
  <2>2. PublishedSynced(dir)' /\ PublishedSynced(disk)'
    BY <1>3 DEF CreateTemp
  <2> QED
    BY <1>3, <2>1, <2>2 DEF CreateTemp
<1>4. ASSUME NEW p \in Process, CreateTempFails(p) PROVE IInv'
  BY <1>4 DEF CreateTempFails
<1>5. ASSUME NEW p \in Process, Write(p) PROVE IInv'
  BY <1>5 DEF Write, Store
<1>6. ASSUME NEW p \in Process, Flush(p) PROVE IInv'
  BY <1>6 DEF Flush, Store
<1>7. ASSUME NEW p \in Process, Fsync(p) PROVE IInv'
  BY <1>7 DEF Fsync, Store
<1>8. ASSUME NEW p \in Process, Link(p) PROVE IInv'
  <2>1. PublishedSynced(dir)'
    BY <1>8 DEF Link
  <2>2. OutcomeTrue'
    BY <1>8 DEF Link
  <2>3. OwnsTemp' /\ TempsHeld'
    BY <1>8 DEF Link
  <2> QED
    BY <1>8, <2>1, <2>2, <2>3 DEF Link
<1>9. ASSUME NEW p \in Process, IoError(p) PROVE IInv'
  BY <1>9 DEF IoError
<1>10. ASSUME NEW p \in Process, Unlink(p) PROVE IInv'
  <2>1. dir'[Output] = dir[Output]
    BY <1>10 DEF Unlink
  <2>2. OwnsTemp'
    BY <1>10 DEF Unlink
  <2>3. TempsHeld'
    BY <1>10 DEF Unlink
  <2> QED
    BY <1>10, <2>1, <2>2, <2>3 DEF Unlink
<1>16. ASSUME NEW p \in Process, UnlinkFails(p) PROVE IInv'
  BY <1>16 DEF UnlinkFails
<1>11. ASSUME NEW p \in Process, Kill(p) PROVE IInv'
  BY <1>11 DEF Kill, KeepsAfterKill, Running
<1>12. CASE WriteBack
  BY <1>12 DEF WriteBack
<1>13. CASE PowerLoss
  <2>1. \A p \in Process : pc'[p] \notin Holding
    BY <1>13 DEF PowerLoss, KeepsAfterLoss, Running, Label
  <2>2. PublishedSynced(dir)' /\ PublishedSynced(disk)'
    BY <1>13 DEF PowerLoss, KeepsAfterLoss, Running, Label
  <2>3. losses' # 0
    BY <1>13 DEF PowerLoss, KeepsAfterLoss, Running, Label
  <2> QED
    BY <1>13, <2>1, <2>2, <2>3 DEF PowerLoss, KeepsAfterLoss, Running, Label
<1>14. CASE ForeignCreate
  BY <1>14 DEF ForeignCreate
<1>15. CASE UNCHANGED vars
  BY <1>15 DEF vars
<1> QED
  BY <1>1, <1>2, <1>3, <1>4, <1>5, <1>6, <1>7, <1>8, <1>9, <1>10, <1>11,
     <1>12, <1>13, <1>14, <1>15, <1>16 DEF Next, Proceed

THEOREM IInvariant == Spec => []IInv
BY InitIInv, StepIInv, PTL DEF Spec

(* Every variable keeps its type. *)
THEOREM TypeCorrect == Spec => []TypeOK
BY IInvariant, PTL DEF IInv

----------------------------------------------------------------------------
(* An output that exists is whole: what the directory links to is synced.  *)
LEMMA LinkedIsWhole ==
  IInv => Read(dir, Output) = dir[Output] /\ Read(disk, Output) = disk[Output]
BY DEF IInv, PublishedSynced, Read, Whole

(* Nobody ever opens a partly written lock at the output path, and a power *)
(* loss cannot uncover one.                                                *)
THEOREM OutputIsWhole == Spec => []OutputWhole
<1>1. IInv => OutputWhole
  BY DEF IInv, PublishedSynced, OutputWhole, Read, Whole, TypeOK, Inode, Name
<1> QED
  BY <1>1, IInvariant, PTL

(* A run that exits with status 0 has its own lock at the output, so of    *)
(* any number of racing runs at most one does.                             *)
THEOREM SuccessMeansPublished == Spec => []SuccessIsPublished
<1>1. IInv => SuccessIsPublished
  BY DEF IInv, OutcomeTrue, SuccessIsPublished
<1> QED
  BY <1>1, IInvariant, PTL

(* Whichever call fails, the clean-up's included: a temporary file that    *)
(* outlives its run is left by a kill or by a failing unlink, and then the *)
(* run has ended with an error.                                            *)
THEOREM LeavesNoLitter == Spec => []NoLitter
<1>1. IInv => NoLitter
  BY DEF IInv, TempsHeld, NoLitter, Holding, Ended
<1> QED
  BY <1>1, IInvariant, PTL

(* No run replaces or removes an output that exists.                       *)
THEOREM OutputNeverReplaced == Spec => NeverReplaced
<1>1. ASSUME IInv, [Next]_vars, dir[Output] # NoFile, losses' = losses
      PROVE  dir'[Output] = dir[Output]
  <2> USE <1>1 DEF IInv, TypeOK, Name, OwnsTemp, Holding, Goto
  <2>1. ASSUME NEW p \in Process, CreateTemp(p) PROVE dir'[Output] = dir[Output]
    BY <2>1 DEF CreateTemp
  <2>2. ASSUME NEW p \in Process, Link(p) PROVE dir'[Output] = dir[Output]
    BY <2>2 DEF Link
  <2>3. ASSUME NEW p \in Process, Unlink(p) PROVE dir'[Output] = dir[Output]
    BY <2>3 DEF Unlink
  <2>4. CASE PowerLoss
    BY <2>4 DEF PowerLoss
  <2> QED
    BY <2>1, <2>2, <2>3, <2>4
    DEF Next, Proceed, output_exists, Resolve, CreateTempFails, Write, Flush,
        Fsync, Store, IoError, UnlinkFails, Kill, WriteBack, ForeignCreate, vars
<1>2. IInv /\ [Next]_vars
        => [dir[Output] # NoFile /\ losses' = losses
              => dir'[Output] = dir[Output]]_vars
  BY <1>1
<1> QED
  BY <1>2, IInvariant, PTL DEF Spec, NeverReplaced

(* A temporary file disappears only by a step of the run that created it.  *)
THEOREM OnlyOwnUnlinked == Spec => UnlinksOnlyItsOwn
<1> DEFINE OwnOnly ==
      \A q \in Process, n \in TempName :
        dir[n] = q /\ dir'[n] # q /\ losses' = losses => pc[q] # pc'[q]
<1>1. ASSUME IInv, [Next]_vars PROVE OwnOnly
  <2> SUFFICES ASSUME NEW q \in Process, NEW n \in TempName,
                      dir[n] = q, dir'[n] # q, losses' = losses
               PROVE  pc[q] # pc'[q]
    OBVIOUS
  <2> USE <1>1 DEF IInv, TypeOK, Name, OwnsTemp, Holding, Goto
  <2>1. ASSUME NEW p \in Process, CreateTemp(p) PROVE FALSE
    BY <2>1 DEF CreateTemp
  <2>2. ASSUME NEW p \in Process, Link(p) PROVE FALSE
    BY <2>2 DEF Link
  <2>3. ASSUME NEW p \in Process, Unlink(p) PROVE pc[q] # pc'[q]
    <3>1. p = q
      BY <2>3 DEF Unlink
    <3> QED
      BY <2>3, <3>1 DEF Unlink
  <2>4. CASE PowerLoss
    BY <2>4 DEF PowerLoss
  <2> QED
    BY <2>1, <2>2, <2>3, <2>4
    DEF Next, Proceed, output_exists, Resolve, CreateTempFails, Write, Flush,
        Fsync, Store, IoError, UnlinkFails, Kill, WriteBack, ForeignCreate, vars
<1>2. IInv /\ [Next]_vars => [OwnOnly]_vars
  BY <1>1
<1> QED
  BY <1>2, IInvariant, PTL DEF Spec, UnlinksOnlyItsOwn

----------------------------------------------------------------------------
(* The system calls of atomic_write_new implement the abstract one-shot    *)
(* publication: os.link is the step Publish, writing the directory back is *)
(* Settle, and every other call is invisible to a reader of the output.    *)
THEOREM Refinement == Spec => PublishesOnce
<1>1. Init => Abstract!Init
  BY DEF Init, Abstract!Init, Abstract!Value, Read, Whole, Name
<1>2. ASSUME IInv, IInv', [Next]_vars PROVE [Abstract!Next]_(Abstract!vars)
  <2>1. /\ Read(dir, Output) = dir[Output] /\ Read(dir, Output)' = dir'[Output]
        /\ Read(disk, Output) = disk[Output] /\ Read(disk, Output)' = disk'[Output]
    BY <1>2 DEF IInv, PublishedSynced, Read, Whole
  <2> USE <1>2, <2>1 DEF IInv, TypeOK, Name, OwnsTemp, Holding, Goto, Abstract!vars
  <2>2. ASSUME NEW p \in Process, CreateTemp(p) PROVE UNCHANGED Abstract!vars
    BY <2>2 DEF CreateTemp
  <2>3. ASSUME NEW p \in Process, Link(p) PROVE [Abstract!Publish(p)]_(Abstract!vars)
    BY <2>3 DEF Link, Abstract!Publish
  <2>4. ASSUME NEW p \in Process, Unlink(p) PROVE UNCHANGED Abstract!vars
    BY <2>4 DEF Unlink
  <2>5. CASE WriteBack
    BY <2>5 DEF WriteBack, Abstract!Settle, Abstract!Next
  <2>6. CASE PowerLoss
    BY <2>6 DEF PowerLoss, Abstract!PowerLoss, Abstract!Next
  <2>7. CASE ForeignCreate
    <3>1. Abstract!Publish(Foreign)
      BY <2>7 DEF ForeignCreate, Abstract!Publish
    <3> QED
      BY <3>1 DEF Abstract!Next
  <2>8. ASSUME NEW p \in Process, Abstract!Publish(p) PROVE Abstract!Next
    BY <2>8 DEF Abstract!Next
  <2> QED
    BY <2>2, <2>3, <2>4, <2>5, <2>6, <2>7, <2>8
    DEF Next, Proceed, output_exists, Resolve, CreateTempFails, Write, Flush,
        Fsync, Store, IoError, UnlinkFails, Kill, vars
<1> QED
  BY <1>1, <1>2, IInvariant, PTL DEF Spec, PublishesOnce, Abstract!Spec
=============================================================================
