--------------------- MODULE ReferenceCheckpointProofs ---------------------
(***************************************************************************)
(* What ReferenceCheckpoint states, proved for any number of trainers,     *)
(* names, saves and power losses, from the assumption that mkstemp never   *)
(* draws a name again.  Without it DeletesOnlyItsOwn fails, as the run     *)
(* checkpoint_name_reuse shows.                                            *)
(***************************************************************************)
EXTENDS ReferenceCheckpoint, TLAPS

\* A save in progress has a number and a name.
HasTemp == \A s \in Trainer : pc[s] \in Saving => saves[s] > 0 /\ temp[s] \in drawn

\* Between mkstemp and os.replace the temporary name of a trainer links to the
\* inode of its save; after os.replace, which is noted by ok, it is free.
OwnsTemp ==
  \A s \in Trainer :
    /\ pc[s] \in Saving => dir[temp[s]] = IF ok[s] THEN NoFile ELSE Current(s)
    /\ ok[s] => pc[s] = "exists"

\* Two saves in progress have two names.
TempsDiffer ==
  \A s, t \in Trainer :
    s # t /\ pc[s] \in Saving /\ pc[t] \in Saving => temp[s] # temp[t]

\* A name that was never drawn is free, and after a power loss it still is.
FreshNamesFree ==
  \A n \in TempName : n \notin drawn => dir[n] = NoFile /\ disk[n] = NoFile

\* json.dump wrote the step the trainer is at; fsync came before os.replace.
SavesCurrentStep ==
  \A s \in Trainer :
    /\ pc[s] \in {"flush", "fsync", "replace"} => stored[Current(s)] = step[s]
    /\ pc[s] = "replace" => file[Current(s)] = "synced"

\* A checkpoint is on the disk, and its writer is past os.replace.
PublishedSynced(d) ==
  /\ d[Path] \in Inode \cup {Foreign, NoFile}
  /\ d[Path] \in Inode => /\ file[d[Path]] = "synced"
                          /\ d[Path][2] <= saves[d[Path][1]]
                          /\ \A s \in Trainer : d[Path] = Current(s) /\ pc[s] \in Saving => ok[s]

\* What os.replace published stays until a later save is published.
AckedTrue ==
  /\ \A s \in Trainer : acked[s] <= saves[s]
  /\ losses = 0 => \A s \in Trainer :
                     ok[s] => /\ dir[Path] \in Inode
                              /\ dir[Path][1] = s => dir[Path][2] >= saves[s]

\* A temporary file belongs to a save in progress, or to one that was killed or
\* whose clean-up failed.
TempsHeld ==
  losses = 0 =>
    \A s \in Trainer, k \in 1..MaxSave, n \in TempName :
      dir[n] = <<s, k>> /\ <<s, k>> \notin left
        => k = saves[s] /\ temp[s] = n /\ pc[s] \in Saving

\* The save of a temporary file has not returned; of the save in progress there is
\* no other temporary file than the one it will delete.
TempsUnreturned ==
  /\ \A s \in Trainer : pc[s] \in Saving => acked[s] < saves[s]
  /\ losses = 0 =>
       \A s \in Trainer, k \in 1..MaxSave, n \in TempName :
         dir[n] = <<s, k>> => /\ k <= saves[s]
                              /\ acked[s] # k
                              /\ k = saves[s] /\ pc[s] \in Saving => temp[s] = n

(* The inductive invariant.  CheckpointWhole alone is not inductive: that  *)
(* os.replace publishes a whole file rests on OwnsTemp (the name still     *)
(* links to the save's own inode), which rests on TempsDiffer and          *)
(* FreshNamesFree; that it stays whole rests on no trainer writing to a    *)
(* published inode.                                                        *)
IInv == /\ TypeOK
        /\ HasTemp
        /\ OwnsTemp
        /\ TempsDiffer
        /\ FreshNamesFree
        /\ SavesCurrentStep
        /\ PublishedSynced(dir)
        /\ PublishedSynced(disk)
        /\ AckedTrue
        /\ AckedSaveStays
        /\ TempsHeld
        /\ TempsUnreturned

USE NameAssumption, InodeAssumption, BoundAssumption

LEMMA InodeIsNoMarker ==
  \A s \in Trainer, k \in 1..MaxSave : <<s, k>> \in Inode /\ <<s, k>> \notin {Foreign, NoFile}
BY DEF Inode

LEMMA InitIInv == Init => IInv
<1> SUFFICES ASSUME Init PROVE IInv
  OBVIOUS
<1> USE DEF Init, Name, Saving, Current
<1>1. TypeOK
  BY DEF TypeOK, Content
<1>2. PublishedSynced(dir) /\ PublishedSynced(disk)
  BY DEF PublishedSynced, Inode
<1>3. AckedSaveStays /\ AckedTrue
  BY DEF AckedSaveStays, AckedTrue
<1>4. TempsHeld
  <2>1. \A n \in TempName : dir[n] = NoFile
    OBVIOUS
  <2> QED
    BY <2>1, InodeIsNoMarker DEF TempsHeld
<1>5. TempsUnreturned
  <2>1. \A n \in TempName : dir[n] = NoFile
    OBVIOUS
  <2> QED
    BY <2>1, InodeIsNoMarker DEF TempsUnreturned
<1> QED
  BY <1>1, <1>2, <1>3, <1>4, <1>5 DEF IInv, HasTemp, OwnsTemp, TempsDiffer, FreshNamesFree, SavesCurrentStep

(* An inode is a save of a trainer, and the current one of a saving trainer*)
(* is one.                                                                 *)
LEMMA CurrentIsInode ==
  ASSUME TypeOK, HasTemp, NEW s \in Trainer, pc[s] \in Saving
  PROVE  Current(s) \in Inode /\ temp[s] \in TempName
BY DEF TypeOK, HasTemp, Current, Inode

LEMMA NextInode ==
  ASSUME TypeOK, NEW s \in Trainer, saves[s] < MaxSave
  PROVE  saves[s] + 1 \in 1..MaxSave
BY DEF TypeOK

LEMMA TypeStep == TypeOK /\ HasTemp /\ [Next]_vars => TypeOK'
<1> SUFFICES ASSUME TypeOK, HasTemp, [Next]_vars PROVE TypeOK'
  OBVIOUS
<1> USE DEF TypeOK, Content, Name, Goto, Saving, trainers, storage
<1>1. ASSUME NEW s \in Trainer, StartAnew(s) PROVE TypeOK'
  BY <1>1 DEF StartAnew
<1>2. ASSUME NEW s \in Trainer, load_reference(s) PROVE TypeOK'
  <2>1. Meaning(dir[Path]) \in 0..MaxStep
    BY <1>2 DEF load_reference, Meaning
  <2> QED
    BY <1>2, <2>1 DEF load_reference
<1>3. ASSUME NEW s \in Trainer, Train(s) PROVE TypeOK'
  BY <1>3 DEF Train
<1>4. ASSUME NEW s \in Trainer, Mkstemp(s) PROVE TypeOK'
  <2>1. Current(s)' \in Inode
    BY <1>4, NextInode DEF Mkstemp, Current, Inode
  <2> QED
    BY <1>4, <2>1, NextInode DEF Mkstemp
<1>5. ASSUME NEW s \in Trainer, Write(s) PROVE TypeOK'
  BY <1>5, CurrentIsInode DEF Write
<1>6. ASSUME NEW s \in Trainer, Flush(s) \/ Fsync(s) PROVE TypeOK'
  BY <1>6, CurrentIsInode DEF Flush, Fsync, Store
<1>7. ASSUME NEW s \in Trainer, Replace(s) PROVE TypeOK'
  BY <1>7, CurrentIsInode DEF Replace
<1>8. ASSUME NEW s \in Trainer, IoError(s) PROVE TypeOK'
  BY <1>8 DEF IoError
<1>9. ASSUME NEW s \in Trainer, Exists(s) PROVE TypeOK'
  <2>1. CASE dir[temp[s]] # NoFile
    BY <1>9, <2>1 DEF Exists
  <2>2. CASE dir[temp[s]] = NoFile
    <3>1. acked' \in [Trainer -> 0..MaxSave] /\ step' \in [Trainer -> 0..MaxStep]
      BY <1>9, <2>2 DEF Exists, Leave
    <3>2. pc' \in [Trainer -> {"down", "train"} \cup Saving]
      BY <1>9, <2>2 DEF Exists, Leave
    <3> QED
      BY <1>9, <2>2, <3>1, <3>2 DEF Exists, Leave
  <2> QED
    BY <2>1, <2>2
<1>10. ASSUME NEW s \in Trainer, Unlink(s) PROVE TypeOK'
  BY <1>10, CurrentIsInode DEF Unlink, Leave
<1>15. ASSUME NEW s \in Trainer, ExistsFails(s) PROVE TypeOK'
  BY <1>15, CurrentIsInode DEF ExistsFails, Leave
<1>16. ASSUME NEW s \in Trainer, UnlinkFails(s) PROVE TypeOK'
  BY <1>16, CurrentIsInode DEF UnlinkFails, Leave
<1>11. ASSUME NEW s \in Trainer, Kill(s) PROVE TypeOK'
  BY <1>11, CurrentIsInode DEF Kill, KeepsAfterKill
<1>12. CASE WriteBack
  BY <1>12 DEF WriteBack
<1>13. CASE PowerLoss
  <2>1. dir' \in [Name -> Inode \cup {Foreign, NoFile}]
    BY <1>13 DEF PowerLoss
  <2>2. file' \in [Inode -> Content]
    BY <1>13 DEF PowerLoss, KeepsAfterLoss
  <2> QED
    BY <1>13, <2>1, <2>2 DEF PowerLoss
<1>14. CASE UNCHANGED vars
  BY <1>14 DEF vars
<1> QED
  BY <1>1, <1>2, <1>3, <1>4, <1>5, <1>6, <1>7, <1>8, <1>9, <1>10, <1>11,
     <1>12, <1>13, <1>14, <1>15, <1>16 DEF Next

LEMMA HasTempStep == TypeOK /\ HasTemp /\ [Next]_vars => HasTemp'
BY DEF TypeOK, HasTemp, Saving, Goto, trainers, storage, Next, StartAnew,
       load_reference, Train, Mkstemp, Write, Flush, Fsync, Store, Replace,
       IoError, Exists, ExistsFails, Unlink, UnlinkFails, Leave, Kill,
       WriteBack, PowerLoss, vars

----------------------------------------------------------------------------
(* A step that draws no name and returns from no save.                     *)
LEMMA UnreturnedKept ==
  ASSUME TempsUnreturned, UNCHANGED <<saves, acked, losses>>,
         \A t \in Trainer : pc'[t] \in Saving => pc[t] \in Saving /\ temp'[t] = temp[t],
         \A m \in TempName : dir'[m] \in {dir[m], NoFile}
  PROVE  TempsUnreturned'
<1>1. \A t \in Trainer : pc'[t] \in Saving => acked'[t] < saves'[t]
  BY DEF TempsUnreturned
<1>2. ASSUME losses = 0, NEW t \in Trainer, NEW k \in 1..MaxSave, NEW m \in TempName,
             dir'[m] = <<t, k>>
      PROVE  /\ k <= saves[t] /\ acked[t] # k
             /\ k = saves[t] /\ pc'[t] \in Saving => temp'[t] = m
  <2>1. dir[m] = <<t, k>>
    BY <1>2, InodeIsNoMarker
  <2> QED
    BY <1>2, <2>1 DEF TempsUnreturned
<1> QED
  BY <1>1, <1>2 DEF TempsUnreturned

(* A step that changes no directory, no file and no bookkeeping of the     *)
(* saves keeps the whole invariant.                                        *)
LEMMA StepIInv == ~NamesRepeat /\ IInv /\ [Next]_vars => IInv'
<1> SUFFICES ASSUME ~NamesRepeat, IInv, [Next]_vars PROVE IInv'
  OBVIOUS
<1>0. TypeOK' /\ HasTemp'
  BY TypeStep, HasTempStep DEF IInv
<1> USE <1>0 DEF IInv, TypeOK, HasTemp, Name, Goto, Saving, trainers, storage
<1>1. ASSUME NEW s \in Trainer, StartAnew(s) PROVE IInv'
  BY <1>1 DEF StartAnew, OwnsTemp, TempsDiffer, FreshNamesFree, SavesCurrentStep,
              PublishedSynced, AckedTrue, AckedSaveStays, TempsHeld, TempsUnreturned,
              Current
<1>2. ASSUME NEW s \in Trainer, load_reference(s) PROVE IInv'
  BY <1>2 DEF load_reference, OwnsTemp, TempsDiffer, FreshNamesFree, SavesCurrentStep,
              PublishedSynced, AckedTrue, AckedSaveStays, TempsHeld, TempsUnreturned,
              Current
<1>3. ASSUME NEW s \in Trainer, Train(s) PROVE IInv'
  BY <1>3 DEF Train, OwnsTemp, TempsDiffer, FreshNamesFree, SavesCurrentStep,
              PublishedSynced, AckedTrue, AckedSaveStays, TempsHeld, TempsUnreturned,
              Current
<1>4. ASSUME NEW s \in Trainer, Mkstemp(s) PROVE IInv'
  <2>1. PICK n \in TempName : /\ n \notin drawn
                              /\ dir[n] = NoFile
                              /\ dir' = [dir EXCEPT ![n] = Current(s)']
                              /\ temp' = [temp EXCEPT ![s] = n]
                              /\ drawn' = drawn \cup {n}
    BY <1>4 DEF Mkstemp
  <2>2. Current(s)' = <<s, saves[s] + 1>> /\ Current(s)' \in Inode
    BY <1>4, NextInode DEF Mkstemp, Current, Inode
  <2>3. \A t \in Trainer : t # s => Current(t)' = Current(t)
    BY <1>4 DEF Mkstemp, Current
  <2>4. OwnsTemp' /\ TempsDiffer' /\ FreshNamesFree'
    BY <1>4, <2>1, <2>2, <2>3 DEF Mkstemp, OwnsTemp, TempsDiffer, FreshNamesFree
  <2>5. SavesCurrentStep'
    BY <1>4, <2>1, <2>2, <2>3 DEF Mkstemp, SavesCurrentStep, Current
  <2>6. PublishedSynced(dir)' /\ PublishedSynced(disk)'
    BY <1>4, <2>1, <2>2, <2>3 DEF Mkstemp, PublishedSynced, Current, Inode
  <2>7. AckedTrue' /\ AckedSaveStays'
    BY <1>4, <2>1, <2>2, <2>3 DEF Mkstemp, AckedTrue, AckedSaveStays, Current, Inode
  <2>8. TempsHeld'
    <3> SUFFICES ASSUME losses = 0, NEW t \in Trainer, NEW k \in 1..MaxSave, NEW m \in TempName,
                        dir'[m] = <<t, k>>, <<t, k>> \notin left
                 PROVE  k = saves'[t] /\ temp'[t] = m /\ pc'[t] \in Saving
      BY <1>4 DEF Mkstemp, TempsHeld
    <3>1. CASE m = n
      BY <1>4, <2>1, <2>2, <3>1 DEF Mkstemp
    <3>2. CASE m # n
      BY <1>4, <2>1, <3>2 DEF Mkstemp, TempsHeld
    <3> QED
      BY <3>1, <3>2
  <2>9. TempsUnreturned'
    <3>1. \A t \in Trainer : pc'[t] \in Saving => acked'[t] < saves'[t]
      BY <1>4 DEF Mkstemp, TempsUnreturned, AckedTrue
    <3> SUFFICES ASSUME losses = 0, NEW t \in Trainer, NEW k \in 1..MaxSave, NEW m \in TempName,
                        dir'[m] = <<t, k>>
                 PROVE  /\ k <= saves'[t] /\ acked'[t] # k
                        /\ k = saves'[t] /\ pc'[t] \in Saving => temp'[t] = m
      BY <1>4, <3>1 DEF Mkstemp, TempsUnreturned
    <3>2. CASE m = n
      BY <1>4, <2>1, <2>2, <3>2 DEF Mkstemp, AckedTrue
    <3>3. CASE m # n
      BY <1>4, <2>1, <3>3 DEF Mkstemp, TempsUnreturned
    <3> QED
      BY <3>2, <3>3
  <2> QED
    BY <2>4, <2>5, <2>6, <2>7, <2>8, <2>9
<1>5. ASSUME NEW s \in Trainer, Write(s) PROVE IInv'
  <2>1. Current(s) \in Inode /\ \A t \in Trainer : Current(t)' = Current(t)
    BY <1>5, CurrentIsInode DEF Write, Current
  <2>2. OwnsTemp' /\ TempsDiffer' /\ FreshNamesFree'
    <3>1. OwnsTemp'
      BY <1>5, <2>1 DEF Write, OwnsTemp
    <3> QED
      BY <1>5, <3>1 DEF Write, TempsDiffer, FreshNamesFree
  <2>3. SavesCurrentStep'
    <3>1. pc'[s] = "flush" /\ stored'[Current(s)] = step[s]
      BY <1>5, <2>1 DEF Write
    <3>2. ASSUME NEW t \in Trainer, t # s, pc[t] \in {"flush", "fsync", "replace"}
          PROVE  stored'[Current(t)] = stored[Current(t)] /\ file'[Current(t)] = file[Current(t)]
      BY <1>5, <3>2, CurrentIsInode DEF Write, Current
    <3>3. \A t \in Trainer : t # s => pc'[t] = pc[t]
      BY <1>5 DEF Write
    <3> QED
      BY <1>5, <2>1, <3>1, <3>2, <3>3 DEF Write, SavesCurrentStep
  <2>4. PublishedSynced(dir)' /\ PublishedSynced(disk)'
    BY <1>5, <2>1 DEF Write, PublishedSynced, OwnsTemp
  <2>5. AckedTrue' /\ AckedSaveStays'
    BY <1>5, <2>1 DEF Write, AckedTrue, AckedSaveStays
  <2>6. TempsHeld'
    BY <1>5, <2>1, InodeIsNoMarker DEF Write, TempsHeld
  <2>7. TempsUnreturned'
    BY <1>5 DEF Write, TempsUnreturned
  <2> QED
    BY <2>2, <2>3, <2>4, <2>5, <2>6, <2>7
<1>6. ASSUME NEW s \in Trainer, Flush(s) PROVE IInv'
  <2>1. Current(s) \in Inode /\ \A t \in Trainer : Current(t)' = Current(t)
    BY <1>6, CurrentIsInode DEF Flush, Store, Current
  <2>2. OwnsTemp' /\ TempsDiffer' /\ FreshNamesFree'
    BY <1>6, <2>1 DEF Flush, Store, OwnsTemp, TempsDiffer, FreshNamesFree
  <2>3. SavesCurrentStep'
    BY <1>6, <2>1 DEF Flush, Store, SavesCurrentStep, Current
  <2>4. PublishedSynced(dir)' /\ PublishedSynced(disk)'
    BY <1>6, <2>1 DEF Flush, Store, PublishedSynced, OwnsTemp
  <2>5. AckedTrue' /\ AckedSaveStays'
    BY <1>6, <2>1 DEF Flush, Store, AckedTrue, AckedSaveStays
  <2>6. TempsHeld'
    BY <1>6, <2>1, InodeIsNoMarker DEF Flush, Store, TempsHeld
  <2>7. TempsUnreturned'
    BY <1>6 DEF Flush, Store, TempsUnreturned
  <2> QED
    BY <2>2, <2>3, <2>4, <2>5, <2>6, <2>7
<1>7. ASSUME NEW s \in Trainer, Fsync(s) PROVE IInv'
  <2>1. Current(s) \in Inode /\ \A t \in Trainer : Current(t)' = Current(t)
    BY <1>7, CurrentIsInode DEF Fsync, Store, Current
  <2>2. OwnsTemp' /\ TempsDiffer' /\ FreshNamesFree'
    BY <1>7, <2>1 DEF Fsync, Store, OwnsTemp, TempsDiffer, FreshNamesFree
  <2>3. SavesCurrentStep'
    BY <1>7, <2>1 DEF Fsync, Store, SavesCurrentStep, Current
  <2>4. PublishedSynced(dir)' /\ PublishedSynced(disk)'
    BY <1>7, <2>1 DEF Fsync, Store, PublishedSynced, OwnsTemp
  <2>5. AckedTrue' /\ AckedSaveStays'
    BY <1>7, <2>1 DEF Fsync, Store, AckedTrue, AckedSaveStays
  <2>6. TempsHeld'
    BY <1>7, <2>1, InodeIsNoMarker DEF Fsync, Store, TempsHeld
  <2>7. TempsUnreturned'
    BY <1>7 DEF Fsync, Store, TempsUnreturned
  <2> QED
    BY <2>2, <2>3, <2>4, <2>5, <2>6, <2>7
<1>8. ASSUME NEW s \in Trainer, Replace(s) PROVE IInv'
  <2>1. /\ Current(s) \in Inode /\ temp[s] \in TempName /\ ~ok[s]
        /\ dir[temp[s]] = Current(s)
        /\ \A t \in Trainer : Current(t)' = Current(t)
    BY <1>8, CurrentIsInode DEF Replace, OwnsTemp, Current
  <2>2. OwnsTemp' /\ TempsDiffer' /\ FreshNamesFree'
    BY <1>8, <2>1 DEF Replace, OwnsTemp, TempsDiffer, FreshNamesFree
  <2>3. SavesCurrentStep'
    BY <1>8, <2>1 DEF Replace, SavesCurrentStep, Current
  <2>4. PublishedSynced(dir)'
    BY <1>8, <2>1 DEF Replace, PublishedSynced, SavesCurrentStep, Current
  <2>5. PublishedSynced(disk)'
    BY <1>8, <2>1 DEF Replace, PublishedSynced
  <2>6. AckedTrue' /\ AckedSaveStays'
    BY <1>8, <2>1 DEF Replace, AckedTrue, AckedSaveStays, Current
  <2>7. TempsHeld'
    <3> SUFFICES ASSUME losses = 0, NEW t \in Trainer, NEW k \in 1..MaxSave, NEW m \in TempName,
                        dir'[m] = <<t, k>>, <<t, k>> \notin left
                 PROVE  k = saves'[t] /\ temp'[t] = m /\ pc'[t] \in Saving
      BY <1>8, <2>1 DEF Replace, TempsHeld
    <3>1. dir'[m] = dir[m] /\ m # temp[s]
      BY <1>8, <2>1, InodeIsNoMarker DEF Replace
    <3>2. k = saves[t] /\ temp[t] = m /\ pc[t] \in Saving
      BY <3>1 DEF TempsHeld
    <3> QED
      BY <1>8, <2>1, <3>1, <3>2 DEF Replace
  <2>8. TempsUnreturned'
    <3>1. \A m \in TempName : dir'[m] \in {dir[m], NoFile}
      BY <1>8, <2>1 DEF Replace
    <3>2. \A t \in Trainer : pc'[t] \in Saving => pc[t] \in Saving /\ temp'[t] = temp[t]
      BY <1>8 DEF Replace
    <3> QED
      BY <1>8, <3>1, <3>2, UnreturnedKept DEF Replace
  <2> QED
    BY <2>2, <2>3, <2>4, <2>5, <2>6, <2>7, <2>8
<1>9. ASSUME NEW s \in Trainer, IoError(s) PROVE IInv'
  <2>1. OwnsTemp' /\ TempsDiffer' /\ FreshNamesFree' /\ SavesCurrentStep'
    BY <1>9 DEF IoError, OwnsTemp, TempsDiffer, FreshNamesFree, SavesCurrentStep, Current
  <2>2. PublishedSynced(dir)' /\ PublishedSynced(disk)'
    BY <1>9 DEF IoError, PublishedSynced, Current
  <2>3. AckedTrue' /\ AckedSaveStays' /\ TempsHeld' /\ TempsUnreturned'
    BY <1>9 DEF IoError, AckedTrue, AckedSaveStays, TempsHeld, TempsUnreturned
  <2> QED
    BY <2>1, <2>2, <2>3
<1>10. ASSUME NEW s \in Trainer, Exists(s) PROVE IInv'
  <2>1. CASE dir[temp[s]] # NoFile
    <3>1. OwnsTemp' /\ TempsDiffer' /\ FreshNamesFree' /\ SavesCurrentStep'
      BY <1>10, <2>1 DEF Exists, OwnsTemp, TempsDiffer, FreshNamesFree, SavesCurrentStep, Current
    <3>2. PublishedSynced(dir)' /\ PublishedSynced(disk)'
      BY <1>10, <2>1 DEF Exists, PublishedSynced, Current
    <3>3. AckedTrue' /\ AckedSaveStays' /\ TempsHeld' /\ TempsUnreturned'
      BY <1>10, <2>1 DEF Exists, AckedTrue, AckedSaveStays, TempsHeld, TempsUnreturned
    <3> QED
      BY <3>1, <3>2, <3>3
  <2>2. CASE dir[temp[s]] = NoFile
    <3>1. ok[s] /\ Current(s) \in Inode /\ \A t \in Trainer : Current(t)' = Current(t)
      BY <1>10, <2>2, CurrentIsInode DEF Exists, OwnsTemp, Current, Inode
    <3>2. OwnsTemp' /\ TempsDiffer' /\ FreshNamesFree'
      BY <1>10, <2>2, <3>1 DEF Exists, Leave, OwnsTemp, TempsDiffer, FreshNamesFree
    <3>3. SavesCurrentStep'
      BY <1>10, <2>2, <3>1 DEF Exists, Leave, SavesCurrentStep, Current
    <3>4. PublishedSynced(dir)' /\ PublishedSynced(disk)'
      BY <1>10, <2>2, <3>1 DEF Exists, Leave, PublishedSynced
    <3>5. AckedTrue' /\ AckedSaveStays'
      BY <1>10, <2>2, <3>1 DEF Exists, Leave, AckedTrue, AckedSaveStays
    <3>6. TempsHeld'
      BY <1>10, <2>2, <3>1, InodeIsNoMarker DEF Exists, Leave, TempsHeld, Current
    <3>7. TempsUnreturned'
      <4>1. \A m \in TempName : losses = 0 => dir[m] # Current(s)
        <5> SUFFICES ASSUME NEW m \in TempName, losses = 0, dir[m] = Current(s) PROVE FALSE
          OBVIOUS
        <5>1. pc[s] \in Saving /\ saves[s] \in 1..MaxSave
          BY <1>10 DEF Exists
        <5>2. temp[s] = m
          BY <5>1 DEF TempsUnreturned, Current
        <5> QED
          BY <2>2, <5>1, <5>2, InodeIsNoMarker DEF Current
      <4> QED
        BY <1>10, <2>2, <4>1 DEF Exists, Leave, TempsUnreturned, Current
    <3> QED
      BY <3>2, <3>3, <3>4, <3>5, <3>6, <3>7
  <2> QED
    BY <2>1, <2>2
<1>11. ASSUME NEW s \in Trainer, Unlink(s) PROVE IInv'
  <2>1. /\ Current(s) \in Inode /\ temp[s] \in TempName /\ ~ok[s]
        /\ dir[temp[s]] = Current(s)
        /\ \A t \in Trainer : Current(t)' = Current(t)
    BY <1>11, CurrentIsInode DEF Unlink, OwnsTemp, Current
  <2>2. OwnsTemp' /\ TempsDiffer' /\ FreshNamesFree'
    BY <1>11, <2>1 DEF Unlink, Leave, OwnsTemp, TempsDiffer, FreshNamesFree
  <2>3. SavesCurrentStep'
    BY <1>11, <2>1 DEF Unlink, Leave, SavesCurrentStep, Current
  <2>4. PublishedSynced(dir)' /\ PublishedSynced(disk)'
    BY <1>11, <2>1 DEF Unlink, Leave, PublishedSynced
  <2>5. AckedTrue' /\ AckedSaveStays'
    BY <1>11, <2>1 DEF Unlink, Leave, AckedTrue, AckedSaveStays
  <2>6. TempsHeld'
    <3> SUFFICES ASSUME losses = 0, NEW t \in Trainer, NEW k \in 1..MaxSave, NEW m \in TempName,
                        dir'[m] = <<t, k>>, <<t, k>> \notin left
                 PROVE  k = saves'[t] /\ temp'[t] = m /\ pc'[t] \in Saving
      BY <1>11, <2>1 DEF Unlink, Leave, TempsHeld
    <3>1. dir'[m] = dir[m] /\ m # temp[s]
      BY <1>11, <2>1, InodeIsNoMarker DEF Unlink, Leave
    <3>2. k = saves[t] /\ temp[t] = m /\ pc[t] \in Saving
      BY <3>1 DEF TempsHeld
    <3> QED
      BY <1>11, <2>1, <3>1, <3>2 DEF Unlink, Leave
  <2>7. TempsUnreturned'
    <3>1. \A m \in TempName : dir'[m] \in {dir[m], NoFile}
      BY <1>11, <2>1 DEF Unlink
    <3>2. \A t \in Trainer : pc'[t] \in Saving => pc[t] \in Saving /\ temp'[t] = temp[t]
      BY <1>11, <2>1 DEF Unlink, Leave
    <3>3. UNCHANGED <<saves, acked, losses>>
      BY <1>11, <2>1 DEF Unlink, Leave
    <3> QED
      BY <3>1, <3>2, <3>3, UnreturnedKept
  <2> QED
    BY <2>2, <2>3, <2>4, <2>5, <2>6, <2>7
<1>16. ASSUME NEW s \in Trainer, ExistsFails(s) \/ UnlinkFails(s) PROVE IInv'
  <2>1. /\ pc[s] \in Saving /\ ~ok[s] /\ dir[temp[s]] = Current(s)
        /\ \A t \in Trainer : Current(t)' = Current(t)
    BY <1>16 DEF ExistsFails, UnlinkFails, OwnsTemp, Current
  <2>2. /\ pc' = [pc EXCEPT ![s] = "down"] /\ step' = [step EXCEPT ![s] = 0]
        /\ temp' = [temp EXCEPT ![s] = NoName] /\ ok' = [ok EXCEPT ![s] = FALSE]
        /\ left' = left \cup {Current(s)} /\ acked' = acked
        /\ UNCHANGED <<saves, file, stored, dir, disk, drawn, losses>>
    BY <1>16, <2>1 DEF ExistsFails, UnlinkFails, Leave
  <2>3. OwnsTemp' /\ TempsDiffer' /\ FreshNamesFree'
    BY <2>1, <2>2 DEF OwnsTemp, TempsDiffer, FreshNamesFree
  <2>4. SavesCurrentStep'
    BY <2>1, <2>2 DEF SavesCurrentStep, Current
  <2>5. PublishedSynced(dir)' /\ PublishedSynced(disk)'
    BY <2>1, <2>2 DEF PublishedSynced
  <2>6. AckedTrue' /\ AckedSaveStays'
    BY <2>1, <2>2 DEF AckedTrue, AckedSaveStays
  <2>7. TempsHeld'
    <3> SUFFICES ASSUME losses = 0, NEW t \in Trainer, NEW k \in 1..MaxSave, NEW m \in TempName,
                        dir[m] = <<t, k>>, <<t, k>> \notin left'
                 PROVE  k = saves[t] /\ temp'[t] = m /\ pc'[t] \in Saving
      BY <2>2 DEF TempsHeld
    <3>1. k = saves[t] /\ temp[t] = m /\ pc[t] \in Saving
      BY <2>2 DEF TempsHeld
    <3>2. t # s
      BY <2>2, <3>1 DEF Current
    <3> QED
      BY <2>2, <3>1, <3>2
  <2>8. TempsUnreturned'
    BY <2>1, <2>2 DEF TempsUnreturned
  <2> QED
    BY <2>3, <2>4, <2>5, <2>6, <2>7, <2>8
<1>12. ASSUME NEW s \in Trainer, Kill(s) PROVE IInv'
  <2>1. \A t \in Trainer : Current(t)' = Current(t)
    BY <1>12 DEF Kill, Current
  <2>2. OwnsTemp' /\ TempsDiffer' /\ FreshNamesFree'
    BY <1>12, <2>1 DEF Kill, OwnsTemp, TempsDiffer, FreshNamesFree
  <2>3. \A i \in Inode : file[i] = "synced" => file'[i] = "synced"
    BY <1>12, CurrentIsInode DEF Kill, KeepsAfterKill
  <2>4. SavesCurrentStep'
    BY <1>12, <2>1, <2>3, CurrentIsInode DEF Kill, SavesCurrentStep, Current
  <2>5. PublishedSynced(dir)' /\ PublishedSynced(disk)'
    BY <1>12, <2>1, <2>3 DEF Kill, PublishedSynced
  <2>6. AckedTrue' /\ AckedSaveStays'
    BY <1>12, <2>1 DEF Kill, AckedTrue, AckedSaveStays
  <2>7. TempsHeld'
    <3> SUFFICES ASSUME losses = 0, NEW t \in Trainer, NEW k \in 1..MaxSave, NEW m \in TempName,
                        dir[m] = <<t, k>>, <<t, k>> \notin left'
                 PROVE  k = saves[t] /\ temp'[t] = m /\ pc'[t] \in Saving
      BY <1>12 DEF Kill, TempsHeld
    <3>1. k = saves[t] /\ temp[t] = m /\ pc[t] \in Saving
      BY <1>12 DEF Kill, TempsHeld
    <3>2. t # s
      BY <1>12, <3>1 DEF Kill, Current
    <3> QED
      BY <1>12, <3>1, <3>2 DEF Kill
  <2>8. TempsUnreturned'
    BY <1>12 DEF Kill, TempsUnreturned
  <2> QED
    BY <2>2, <2>4, <2>5, <2>6, <2>7, <2>8
<1>13. CASE WriteBack
  BY <1>13 DEF WriteBack, OwnsTemp, TempsDiffer, FreshNamesFree, SavesCurrentStep,
              PublishedSynced, AckedTrue, AckedSaveStays, TempsHeld, TempsUnreturned,
              Current
<1>14. CASE PowerLoss
  <2>1. /\ \A t \in Trainer : pc'[t] = "down" /\ ~ok'[t]
        /\ losses' # 0 /\ disk' = dir'
        /\ \A n \in Name : dir'[n] \in {dir[n], disk[n]}
    BY <1>14 DEF PowerLoss
  <2>2. \A i \in Inode : file[i] = "synced" => file'[i] = "synced"
    BY <1>14 DEF PowerLoss, KeepsAfterLoss
  <2>3. PublishedSynced(dir)' /\ PublishedSynced(disk)'
    BY <1>14, <2>1, <2>2 DEF PowerLoss, PublishedSynced
  <2>4. FreshNamesFree'
    BY <1>14, <2>1 DEF PowerLoss, FreshNamesFree
  <2>5. AckedTrue' /\ AckedSaveStays' /\ TempsHeld'
    BY <1>14, <2>1, InodeIsNoMarker DEF PowerLoss, AckedTrue, AckedSaveStays, TempsHeld
  <2>6. TempsUnreturned'
    BY <1>14, <2>1 DEF PowerLoss, TempsUnreturned
  <2> QED
    BY <2>1, <2>3, <2>4, <2>5, <2>6 DEF OwnsTemp, TempsDiffer, SavesCurrentStep
<1>15. CASE UNCHANGED vars
  BY <1>15 DEF vars, OwnsTemp, TempsDiffer, FreshNamesFree, SavesCurrentStep,
              PublishedSynced, AckedTrue, AckedSaveStays, TempsHeld, TempsUnreturned,
              Current
<1> QED
  BY <1>1, <1>2, <1>3, <1>4, <1>5, <1>6, <1>7, <1>8, <1>9, <1>10, <1>11,
     <1>12, <1>13, <1>14, <1>15, <1>16 DEF Next

(* The inductive invariant holds of every behaviour in which mkstemp draws *)
(* no name again.                                                          *)
THEOREM IInvariant == ~NamesRepeat => (Spec => []IInv)
<1> SUFFICES ASSUME ~NamesRepeat PROVE Spec => []IInv
  OBVIOUS
<1>1. IInv /\ [Next]_vars => IInv'
  BY StepIInv
<1> QED
  BY InitIInv, <1>1, PTL DEF Spec

(* Every variable keeps its type, whatever names mkstemp draws.            *)
THEOREM TypeCorrect == Spec => []TypeOK
<1>1. Init => TypeOK /\ HasTemp
  BY InitIInv DEF IInv
<1> QED
  BY <1>1, TypeStep, HasTempStep, PTL DEF Spec

----------------------------------------------------------------------------
(* What the path holds is no torn file: its writer synced it before it was *)
(* published, and a synced file means the same after a kill or a loss.     *)
LEMMA PublishedMeans ==
  ASSUME NEW d, PublishedSynced(d)
  PROVE  Meaning(d[Path]) = IF d[Path] \in Inode THEN stored[d[Path]] ELSE d[Path]
BY DEF PublishedSynced, Meaning, Whole

(* A trainer that loads the path never meets a partly written checkpoint,  *)
(* not even after a power loss.                                            *)
THEOREM CheckpointIsWhole == ~NamesRepeat => (Spec => []CheckpointWhole)
<1>1. IInv => CheckpointWhole
  <2> SUFFICES ASSUME IInv PROVE CheckpointWhole
    OBVIOUS
  <2>1. \A i \in Inode : stored[i] \in Nat
    BY DEF IInv, TypeOK
  <2>2. Meaning(dir[Path]) # Torn
    BY <2>1, PublishedMeans DEF IInv, PublishedSynced
  <2>3. Meaning(disk[Path]) # Torn
    BY <2>1, PublishedMeans DEF IInv, PublishedSynced
  <2> QED
    BY <2>2, <2>3 DEF CheckpointWhole
<1> QED
  BY <1>1, IInvariant, PTL

(* A save that returned stays until a later save replaces it.              *)
THEOREM AckedSaveIsKept == ~NamesRepeat => (Spec => []AckedSaveStays)
<1>1. IInv => AckedSaveStays
  BY DEF IInv
<1> QED
  BY <1>1, IInvariant, PTL

(* Whichever call fails, the clean-up's included: a temporary file that is *)
(* not of a save in progress was left by a kill or by a failing clean-up,  *)
(* and its save did not return.                                            *)
THEOREM LeavesNoLitter == ~NamesRepeat => (Spec => []NoLitter)
<1>1. IInv => NoLitter
  <2> SUFFICES ASSUME IInv, losses = 0, NEW n \in TempName, dir[n] \in Inode
               PROVE  /\ acked[dir[n][1]] # dir[n][2]
                      /\ \/ dir[n] \in left
                         \/ /\ dir[n] = Current(dir[n][1])
                            /\ temp[dir[n][1]] = n /\ pc[dir[n][1]] \in Saving
    BY DEF NoLitter
  <2>1. PICK s \in Trainer, k \in 1..MaxSave : dir[n] = <<s, k>>
    BY DEF Inode
  <2>2. acked[s] # k
    BY <2>1 DEF IInv, TempsUnreturned
  <2>3. <<s, k>> \in left \/ (k = saves[s] /\ temp[s] = n /\ pc[s] \in Saving)
    BY <2>1 DEF IInv, TempsHeld
  <2> QED
    BY <2>1, <2>2, <2>3 DEF Current
<1> QED
  BY <1>1, IInvariant, PTL

(* A temporary file goes only by a step of the trainer that is writing it, *)
(* which is what "delete only your own incomplete files" asks for.         *)
THEOREM OnlyOwnDeleted == ~NamesRepeat => (Spec => DeletesOnlyItsOwn)
<1> DEFINE OwnOnly ==
      \A i \in Inode, n \in TempName :
        dir[n] = i /\ dir'[n] # i /\ losses' = losses
          => pc[i[1]] \in Saving /\ pc'[i[1]] # pc[i[1]]
<1>1. ASSUME IInv, [Next]_vars PROVE OwnOnly
  <2> SUFFICES ASSUME NEW t \in Trainer, NEW k \in 1..MaxSave, NEW n \in TempName,
                      dir[n] = <<t, k>>, dir'[n] # <<t, k>>, losses' = losses
               PROVE  pc[t] \in Saving /\ pc'[t] # pc[t]
    BY DEF Inode
  <2> USE <1>1 DEF IInv, TypeOK, Name, Goto, Saving, trainers, storage
  <2>1. ASSUME NEW s \in Trainer, Mkstemp(s) PROVE FALSE
    BY <2>1, InodeIsNoMarker DEF Mkstemp
  <2>2. ASSUME NEW s \in Trainer, Replace(s) PROVE pc[t] \in Saving /\ pc'[t] # pc[t]
    <3>1. temp[s] \in TempName /\ dir[temp[s]] = Current(s)
      BY <2>2, CurrentIsInode DEF Replace, OwnsTemp
    <3>2. n = temp[s]
      BY <2>2, <3>1 DEF Replace
    <3>3. s = t
      BY <3>1, <3>2 DEF Current
    <3> QED
      BY <2>2, <3>3 DEF Replace
  <2>3. ASSUME NEW s \in Trainer, Unlink(s) PROVE pc[t] \in Saving /\ pc'[t] # pc[t]
    <3>1. temp[s] \in TempName /\ dir[temp[s]] = Current(s)
      BY <2>3, CurrentIsInode DEF Unlink, OwnsTemp
    <3>2. n = temp[s]
      BY <2>3, <3>1 DEF Unlink
    <3>3. s = t
      BY <3>1, <3>2 DEF Current
    <3> QED
      BY <2>3, <3>3 DEF Unlink, Leave
  <2>4. CASE PowerLoss
    BY <2>4 DEF PowerLoss
  <2> QED
    BY <2>1, <2>2, <2>3, <2>4
    DEF Next, StartAnew, load_reference, Train, Write, Flush, Fsync, Store,
        IoError, Exists, ExistsFails, UnlinkFails, Leave, Kill, WriteBack, vars
<1>2. IInv /\ [Next]_vars => [OwnOnly]_vars
  BY <1>1
<1> QED
  BY <1>2, IInvariant, PTL DEF Spec, DeletesOnlyItsOwn

----------------------------------------------------------------------------
(* A published inode is not written again: neither what the path holds nor *)
(* what the disk has changes its meaning by a step that leaves the entry.  *)
LEMMA PublishedStays ==
  ASSUME IInv, [Next]_vars, NEW i,
         i \in {dir[Path], disk[Path]}
  PROVE  Meaning(i)' = Meaning(i)
<1> USE DEF IInv, TypeOK, HasTemp, Name, Goto, Saving, trainers, storage
<1>1. CASE i \notin Inode
  BY <1>1 DEF Meaning
<1>2. CASE i \in Inode
  <2>1. PICK t \in Trainer, k \in 1..MaxSave : i = <<t, k>>
    BY <1>2 DEF Inode
  <2>2. /\ file[i] = "synced" /\ k <= saves[t]
        /\ \A s \in Trainer : i = Current(s) /\ pc[s] \in Saving => ok[s]
    BY <1>2, <2>1 DEF PublishedSynced
  <2> SUFFICES file'[i] = "synced" /\ stored'[i] = stored[i]
    BY <1>2, <2>2 DEF Meaning, Whole
  <2>3. ASSUME NEW s \in Trainer, Mkstemp(s) PROVE file'[i] = file[i] /\ stored' = stored
    <3>1. Current(s)' = <<s, saves[s] + 1>> /\ i # Current(s)'
      BY <2>1, <2>2, <2>3 DEF Mkstemp, Current
    <3> QED
      BY <1>2, <2>3, <3>1 DEF Mkstemp
  <2>4. ASSUME NEW s \in Trainer, Write(s) \/ Flush(s) \/ Fsync(s)
        PROVE  file'[i] = file[i] /\ stored'[i] = stored[i]
    <3>1. i # Current(s)
      BY <2>2, <2>4 DEF Write, Flush, Fsync, Store, OwnsTemp
    <3> QED
      BY <1>2, <2>4, <3>1 DEF Write, Flush, Fsync, Store
  <2>5. ASSUME NEW s \in Trainer, Kill(s) PROVE file'[i] = "synced" /\ stored' = stored
    BY <1>2, <2>2, <2>5 DEF Kill, KeepsAfterKill
  <2>6. CASE PowerLoss
    BY <1>2, <2>2, <2>6 DEF PowerLoss, KeepsAfterLoss
  <2> QED
    BY <1>2, <2>2, <2>3, <2>4, <2>5, <2>6
    DEF Next, StartAnew, load_reference, Train, Replace, IoError, Exists,
        ExistsFails, Unlink, UnlinkFails, Leave, WriteBack, vars
<1> QED
  BY <1>1, <1>2

(* The system calls of save_reference and load_reference implement the     *)
(* atomic store of training steps: os.replace is Save, the read of the     *)
(* open file is Resume, a process that ends is Crash, and no other call    *)
(* can be seen in what the path holds.                                     *)
THEOREM Refinement == ~NamesRepeat => (Spec => BehavesAsStore)
<1> SUFFICES ASSUME ~NamesRepeat PROVE Spec => BehavesAsStore
  OBVIOUS
<1>1. Init => Abstract!Init
  BY DEF Init, Abstract!Init, Meaning, Inode, Name
<1>2. ASSUME IInv, [Next]_vars PROVE [Abstract!Next]_(Abstract!vars)
  <2> USE <1>2 DEF IInv, TypeOK, HasTemp, Name, Goto, Saving, trainers, storage, Abstract!vars
  <2>1. dir'[Path] = dir[Path] => UNCHANGED Meaning(dir[Path])
    BY PublishedStays DEF Meaning, Whole
  <2>2. disk'[Path] = disk[Path] => UNCHANGED Meaning(disk[Path])
    BY PublishedStays DEF Meaning, Whole
  <2>3. ASSUME NEW s \in Trainer, Train(s) PROVE Abstract!Train(s)
    BY <2>1, <2>2, <2>3 DEF Train, Abstract!Train
  <2>4. ASSUME NEW s \in Trainer, load_reference(s) PROVE Abstract!Resume(s)
    BY <2>1, <2>2, <2>4 DEF load_reference, Abstract!Resume
  <2>5. ASSUME NEW s \in Trainer, Replace(s) PROVE Abstract!Save(s)
    <3>1. /\ dir'[Path] = Current(s) /\ Current(s) \in Inode
          /\ file[Current(s)] = "synced" /\ stored[Current(s)] = step[s]
      BY <2>5, CurrentIsInode DEF Replace, OwnsTemp, SavesCurrentStep
    <3>2. Meaning(dir[Path])' = step[s]
      BY <2>5, <3>1 DEF Replace, Meaning, Whole
    <3> QED
      BY <2>2, <2>5, <3>2 DEF Replace, Abstract!Save
  <2>6. ASSUME NEW s \in Trainer, \/ Exists(s) \/ Unlink(s) \/ Kill(s)
                                  \/ ExistsFails(s) \/ UnlinkFails(s)
        PROVE  Abstract!Crash(s) \/ UNCHANGED Abstract!vars
    <3>1. dir'[Path] = dir[Path] /\ disk'[Path] = disk[Path]
      <4>1. CASE Unlink(s)
        BY <4>1, CurrentIsInode DEF Unlink
      <4> QED
        BY <2>6, <4>1 DEF Exists, ExistsFails, UnlinkFails, Kill
    <3>2. step' = [step EXCEPT ![s] = 0] \/ step' = step
      BY <2>6 DEF Exists, ExistsFails, Unlink, UnlinkFails, Kill, Leave
    <3> QED
      BY <2>1, <2>2, <3>1, <3>2 DEF Abstract!Crash
  <2>7. CASE WriteBack
    <3>1. UNCHANGED Meaning(dir[Path]) /\ Meaning(disk[Path])' = Meaning(dir[Path])'
      BY <2>1, <2>7 DEF WriteBack, Meaning, Whole
    <3> QED
      BY <2>7, <3>1 DEF WriteBack, Abstract!Settle, Abstract!Next
  <2>8. CASE PowerLoss
    <3>1. dir'[Path] \in {dir[Path], disk[Path]} /\ disk' = dir'
      BY <2>8 DEF PowerLoss
    <3>2. Meaning(dir[Path])' \in {Meaning(dir[Path]), Meaning(disk[Path])}
      BY <3>1, PublishedStays DEF Meaning, Whole
    <3>3. Meaning(disk[Path])' = Meaning(dir[Path])'
      BY <3>1 DEF Meaning, Whole
    <3> QED
      BY <2>8, <3>2, <3>3 DEF PowerLoss, Abstract!PowerLoss, Abstract!Next
  <2>9. ASSUME NEW s \in Trainer, Mkstemp(s) PROVE UNCHANGED Abstract!vars
    BY <2>1, <2>2, <2>9 DEF Mkstemp
  <2>10. ASSUME NEW s \in Trainer,
                StartAnew(s) \/ Write(s) \/ Flush(s) \/ Fsync(s) \/ IoError(s)
         PROVE  UNCHANGED Abstract!vars
    BY <2>1, <2>2, <2>10 DEF StartAnew, Write, Flush, Fsync, Store, IoError
  <2>11. CASE UNCHANGED vars
    BY <2>1, <2>2, <2>11 DEF vars
  <2> QED
    BY <2>3, <2>4, <2>5, <2>6, <2>7, <2>8, <2>9, <2>10, <2>11 DEF Next, Abstract!Next
<1> QED
  BY <1>1, <1>2, IInvariant, PTL DEF Spec, BehavesAsStore, Abstract!Spec
=============================================================================
