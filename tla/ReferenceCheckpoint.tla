------------------------ MODULE ReferenceCheckpoint ------------------------
(***************************************************************************)
(* save_reference and load_reference of src/mlx_spark/reference/training.py*)
(* as the system calls they issue, in the loop that the repository's test  *)
(* of them runs, by several trainers that share a checkpoint path while    *)
(* processes are killed, calls fail and the machine loses power.           *)
(*                                                                         *)
(* An inode <<s, k>> is the temporary file of the k-th save of trainer s.  *)
(* Its contents are "none", "empty", "buffered" (partly in Python's        *)
(* buffer), "cached" (in the page cache), "synced" (on the disk) or        *)
(* "torn" (part of it is lost).                                            *)
(***************************************************************************)
EXTENDS Naturals

CONSTANTS Trainer,        \* processes that train the fixture
          TempName,       \* names mkstemp draws from
          Path,           \* the checkpoint
          Foreign,        \* a file that is no recognized checkpoint
          NoFile,         \* the name is free
          NoName,         \* no temporary file
          Torn,           \* what a reader makes of an incomplete file
          NamesRepeat,    \* may mkstemp draw a name that was used before?
          MaxStep, MaxSave, MaxPowerLosses   \* bounds on a behaviour

\* mkstemp only promises that the name is free when it creates the file.  That
\* its random names never repeat is the assumption NamesRepeat = FALSE.
ASSUME NameAssumption == /\ Path \notin TempName
                         /\ NoName \notin TempName \cup {Path}
ASSUME InodeAssumption == /\ Foreign # NoFile
                          /\ {Foreign, NoFile} \cap (Trainer \X Nat) = {}
                          /\ {Foreign, NoFile, Torn} \cap Nat = {}
                          /\ Torn \notin {Foreign, NoFile}
ASSUME BoundAssumption == /\ NamesRepeat \in BOOLEAN
                          /\ {MaxStep, MaxSave, MaxPowerLosses} \subseteq Nat

VARIABLES pc,       \* next call of each trainer
          step,     \* the step its weights are at
          saves,    \* how many times it called save_reference
          acked,    \* the last of these calls that returned
          temp,     \* tmp of the call in progress
          ok,       \* did os.replace return?
          file,     \* contents of every inode
          stored,   \* the step every inode records
          dir,      \* the inode each name of the directory links to
          disk,     \* the directory as the disk has it
          drawn,    \* names mkstemp has returned
          left,     \* inodes whose save was killed, or whose clean-up failed
          losses    \* power losses so far

trainers == <<pc, step, saves, acked, temp, ok>>
storage  == <<file, stored, dir, disk, drawn, left, losses>>
vars == <<trainers, storage>>

Name  == TempName \cup {Path}
Inode == Trainer \X (1..MaxSave)
Saving == {"write", "flush", "fsync", "replace", "exists", "unlink"}
Content == {"none", "empty", "buffered", "cached", "synced", "torn"}

Init == /\ pc = [s \in Trainer |-> "down"]
        /\ step = [s \in Trainer |-> 0]
        /\ saves = [s \in Trainer |-> 0]
        /\ acked = [s \in Trainer |-> 0]
        /\ temp = [s \in Trainer |-> NoName]
        /\ ok = [s \in Trainer |-> FALSE]
        /\ file = [i \in Inode |-> "none"]
        /\ stored = [i \in Inode |-> 0]
        /\ \E there \in {Foreign, NoFile} :
             dir = [n \in Name |-> IF n = Path THEN there ELSE NoFile]
        /\ disk = dir
        /\ drawn = {}
        /\ left = {}
        /\ losses = 0

Goto(s, l) == pc' = [pc EXCEPT ![s] = l]
Current(s) == <<s, saves[s]>>

\* What a reader of inode i makes of it: a recognized checkpoint is its step.
Whole(i) == file[i] \in {"cached", "synced"}
Meaning(i) == IF i \in Inode THEN IF Whole(i) THEN stored[i] ELSE Torn ELSE i

----------------------------------------------------------------------------
(* Defects the properties below must catch.  None of them is part of Next. *)

\* No os.fsync.
FsyncSkipped(s) ==
  /\ pc[s] = "fsync"
  /\ Goto(s, "replace")
  /\ UNCHANGED <<step, saves, acked, temp, ok, storage>>

\* The finally clause ends the call whatever was raised (finally: return).
IoErrorSwallowed(s) ==
  /\ pc[s] \in {"write", "flush", "fsync", "replace"}
  /\ ok' = [ok EXCEPT ![s] = TRUE]
  /\ Goto(s, "exists")
  /\ UNCHANGED <<step, saves, acked, temp, storage>>

\* The clean-up is skipped when a call failed.
IoErrorSkipsFinally(s) ==
  /\ pc[s] \in {"write", "flush", "fsync", "replace"}
  /\ Goto(s, "down")
  /\ UNCHANGED <<step, saves, acked, temp, ok, storage>>

\* The clean-up removes every temporary file of the directory.
UnlinkAll(s) ==
  /\ pc[s] = "exists"
  /\ dir' = [n \in Name |-> IF n = Path THEN dir[n] ELSE NoFile]
  /\ Goto(s, "unlink")
  /\ UNCHANGED <<step, saves, acked, temp, ok, file, stored, disk, drawn, left, losses>>

\* The weights are written after one more step of training.
WriteLate(s) ==
  /\ pc[s] = "write" /\ step[s] < MaxStep
  /\ file' = [file EXCEPT ![Current(s)] = "buffered"]
  /\ stored' = [stored EXCEPT ![Current(s)] = step[s] + 1]
  /\ Goto(s, "flush")
  /\ UNCHANGED <<step, saves, acked, temp, ok, dir, disk, drawn, left, losses>>

----------------------------------------------------------------------------
(* A new process begins with zero weights ...                              *)
StartAnew(s) ==
  /\ pc[s] = "down"
  /\ Goto(s, "train")
  /\ UNCHANGED <<step, saves, acked, temp, ok, storage>>

(* ... or with load_reference, which raises unless the path holds a        *)
(* recognized checkpoint.  One open file is read: a later rename over the  *)
(* name does not change what is read.                                      *)
load_reference(s) ==
  /\ pc[s] = "down"
  /\ Meaning(dir[Path]) \in Nat
  /\ step' = [step EXCEPT ![s] = Meaning(dir[Path])]
  /\ Goto(s, "train")
  /\ UNCHANGED <<saves, acked, temp, ok, storage>>

(* analytic_sgd *)
Train(s) ==
  /\ pc[s] = "train" /\ step[s] < MaxStep
  /\ step' = [step EXCEPT ![s] = @ + 1]
  /\ UNCHANGED <<pc, saves, acked, temp, ok, storage>>

(* save_reference: mkdir and mkstemp, which creates with O_EXCL.           *)
Mkstemp(s) ==
  /\ pc[s] = "train" /\ saves[s] < MaxSave
  /\ saves' = [saves EXCEPT ![s] = @ + 1]
  /\ \E n \in TempName :
       /\ dir[n] = NoFile
       /\ NamesRepeat \/ n \notin drawn
       /\ dir' = [dir EXCEPT ![n] = Current(s)']
       /\ temp' = [temp EXCEPT ![s] = n]
       /\ drawn' = drawn \cup {n}
  /\ ok' = [ok EXCEPT ![s] = FALSE]
  /\ file' = [file EXCEPT ![Current(s)'] = "empty"]
  /\ Goto(s, "write")
  /\ UNCHANGED <<step, acked, stored, disk, left, losses>>

\* json.dump into the buffered handle.
Write(s) ==
  /\ pc[s] = "write"
  /\ file' = [file EXCEPT ![Current(s)] = "buffered"]
  /\ stored' = [stored EXCEPT ![Current(s)] = step[s]]
  /\ Goto(s, "flush")
  /\ UNCHANGED <<step, saves, acked, temp, ok, dir, disk, drawn, left, losses>>

Store(s, at, content, next) ==
  /\ pc[s] = at
  /\ file' = [file EXCEPT ![Current(s)] = content]
  /\ Goto(s, next)
  /\ UNCHANGED <<step, saves, acked, temp, ok, stored, dir, disk, drawn, left, losses>>

Flush(s) == Store(s, "flush", "cached", "fsync")
Fsync(s) == Store(s, "fsync", "synced", "replace")

(* os.replace moves whatever the temporary name links to by now.           *)
Replace(s) ==
  /\ pc[s] = "replace"
  /\ dir[temp[s]] # NoFile
  /\ dir' = [dir EXCEPT ![Path] = dir[temp[s]], ![temp[s]] = NoFile]
  /\ ok' = [ok EXCEPT ![s] = TRUE]
  /\ Goto(s, "exists")
  /\ UNCHANGED <<step, saves, acked, temp, file, stored, disk, drawn, left, losses>>

\* A call raises, os.replace on a missing name among them; finally still runs.
IoError(s) ==
  /\ pc[s] \in {"write", "flush", "fsync", "replace"}
  /\ Goto(s, "exists")
  /\ UNCHANGED <<step, saves, acked, temp, ok, storage>>

\* The end of finally: the call returns, or the exception ends the process
\* and its memory goes.
Leave(s, fine) ==
  /\ Goto(s, IF fine THEN "train" ELSE "down")
  /\ acked' = [acked EXCEPT ![s] = IF fine THEN saves[s] ELSE @]
  /\ step' = [step EXCEPT ![s] = IF fine THEN @ ELSE 0]
  /\ temp' = [temp EXCEPT ![s] = NoName]
  /\ ok' = [ok EXCEPT ![s] = FALSE]

(* finally: os.path.exists(tmp), and os.unlink(tmp) as a second call.      *)
Exists(s) ==
  /\ pc[s] = "exists"
  /\ IF dir[temp[s]] # NoFile THEN Goto(s, "unlink") /\ UNCHANGED <<acked, step, temp, ok>>
                              ELSE Leave(s, ok[s])
  /\ UNCHANGED <<saves, storage>>

\* os.unlink raises if the name is gone by now.
Unlink(s) ==
  /\ pc[s] = "unlink"
  /\ dir' = [dir EXCEPT ![temp[s]] = NoFile]
  /\ Leave(s, ok[s] /\ dir[temp[s]] # NoFile)
  /\ UNCHANGED <<saves, file, stored, disk, drawn, left, losses>>

\* os.path.exists answers False when stat raises: nothing is unlinked, and the
\* call ends as it would have.
ExistsFails(s) ==
  /\ pc[s] = "exists"
  /\ dir[temp[s]] # NoFile
  /\ left' = left \cup {Current(s)}
  /\ Leave(s, ok[s])
  /\ UNCHANGED <<saves, file, stored, dir, disk, drawn, losses>>

\* os.unlink raises and the file is still there.
UnlinkFails(s) ==
  /\ pc[s] = "unlink"
  /\ left' = left \cup {Current(s)}
  /\ Leave(s, FALSE)
  /\ UNCHANGED <<saves, file, stored, dir, disk, drawn, losses>>

\* What a file keeps when the memory that backs it goes.
KeepsAfterKill(c) == IF c = "buffered" THEN "torn" ELSE c
KeepsAfterLoss(c) == IF c \in {"buffered", "cached"} THEN "torn" ELSE c

Kill(s) ==
  /\ pc[s] # "down"
  /\ Goto(s, "down")
  /\ IF pc[s] \in Saving
     THEN /\ file' = [file EXCEPT ![Current(s)] = KeepsAfterKill(@)]
          /\ left' = left \cup {Current(s)}
     ELSE UNCHANGED <<file, left>>
  /\ step' = [step EXCEPT ![s] = 0]
  /\ temp' = [temp EXCEPT ![s] = NoName]
  /\ ok' = [ok EXCEPT ![s] = FALSE]
  /\ UNCHANGED <<saves, acked, stored, dir, disk, drawn, losses>>

\* The kernel writes the directory back; no code here asks for it.  Bounded
\* like the power losses, without which the disk is not read.
WriteBack ==
  /\ losses < MaxPowerLosses
  /\ disk # dir
  /\ disk' = dir
  /\ UNCHANGED <<trainers, file, stored, dir, drawn, left, losses>>

\* Each name comes back as it was or as the disk had it.
PowerLoss ==
  /\ losses < MaxPowerLosses
  /\ losses' = losses + 1
  /\ \E kept \in SUBSET Name :
       dir' = [n \in Name |-> IF n \in kept THEN dir[n] ELSE disk[n]]
  /\ disk' = dir'
  /\ file' = [i \in Inode |-> KeepsAfterLoss(file[i])]
  /\ pc' = [s \in Trainer |-> "down"]
  /\ step' = [s \in Trainer |-> 0]
  /\ temp' = [s \in Trainer |-> NoName]
  /\ ok' = [s \in Trainer |-> FALSE]
  /\ UNCHANGED <<saves, acked, stored, drawn, left>>

Next == \/ \E s \in Trainer :
             \/ StartAnew(s) \/ load_reference(s) \/ Train(s) \/ Mkstemp(s)
             \/ Write(s) \/ Flush(s) \/ Fsync(s) \/ Replace(s) \/ IoError(s)
             \/ Exists(s) \/ ExistsFails(s) \/ Unlink(s) \/ UnlinkFails(s)
             \/ Kill(s)
        \/ WriteBack \/ PowerLoss

Spec == Init /\ [][Next]_vars

----------------------------------------------------------------------------
(* Type correctness. *)
TypeOK == /\ pc \in [Trainer -> {"down", "train"} \cup Saving]
          /\ step \in [Trainer -> 0..MaxStep]
          /\ saves \in [Trainer -> 0..MaxSave]
          /\ acked \in [Trainer -> 0..MaxSave]
          /\ temp \in [Trainer -> TempName \cup {NoName}]
          /\ ok \in [Trainer -> BOOLEAN]
          /\ file \in [Inode -> Content]
          /\ stored \in [Inode -> 0..MaxStep]
          /\ dir \in [Name -> Inode \cup {Foreign, NoFile}]
          /\ disk \in [Name -> Inode \cup {Foreign, NoFile}]
          /\ drawn \subseteq TempName
          /\ left \subseteq Inode
          /\ losses \in Nat

(* A trainer that loads the path, now or after a power loss, never meets a *)
(* partly written checkpoint (write, flush, fsync, replace in this order). *)
CheckpointWhole == Torn \notin {Meaning(dir[Path]), Meaning(disk[Path])}

(* A save that returned stays: the path holds a checkpoint, and if it is   *)
(* one of the same trainer, none that this trainer wrote before, whatever  *)
(* saves were killed in between.  (Another trainer may overwrite it, and a *)
(* power loss may undo it: the directory is never synced.)                 *)
AckedSaveStays ==
  losses = 0 =>
    \A s \in Trainer :
      acked[s] > 0 => /\ dir[Path] \in Inode
                      /\ dir[Path][1] = s => dir[Path][2] >= acked[s]

(* "Delete only your own incomplete files": a temporary file goes, short   *)
(* of a power loss, only by a step of the trainer that is writing it.      *)
DeletesOnlyItsOwn ==
  [][\A i \in Inode, n \in TempName :
        dir[n] = i /\ dir'[n] # i /\ losses' = losses
          => pc[i[1]] \in Saving /\ pc'[i[1]] # pc[i[1]]]_vars

(* A temporary file is that of the save in progress, whichever call of the *)
(* save failed, or it outlived a save that was killed or whose clean-up    *)
(* itself failed; and a save that left one behind did not return.          *)
NoLitter ==
  losses = 0 =>
    \A n \in TempName :
      dir[n] \in Inode =>
        LET s == dir[n][1]
        IN  /\ acked[s] # dir[n][2]
            /\ dir[n] \in left \/ (dir[n] = Current(s) /\ temp[s] = n /\ pc[s] \in Saving)

Abstract == INSTANCE CheckpointStore WITH value   <- Meaning(dir[Path]),
                                          settled <- Meaning(disk[Path])

(* The path behaves as a register: os.replace saves the step the trainer   *)
(* is at, in one step, and a resumed trainer is at the step that was saved.*)
BehavesAsStore == Abstract!Spec
=============================================================================
