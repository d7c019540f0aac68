--------------------------- MODULE AtomicWriteNew ---------------------------
(***************************************************************************)
(* Publication of a resolved source lock: run, output_exists and           *)
(* atomic_write_new of tools/resolve_sources.py, as the system calls they  *)
(* issue, executed by several resolver processes that name the same output *)
(* while processes are killed, calls fail and the machine loses power.     *)
(*                                                                         *)
(* A process creates one temporary file in a run, so the process names the *)
(* inode.  A file is                                                       *)
(*   "none"      not created yet          "cached"  all in the page cache  *)
(*   "empty"     created                  "synced"  all on the disk        *)
(*   "buffered"  partly still in Python   "torn"    part of it is lost     *)
(* What build_lock computes is the subject of SourceResolution.            *)
(***************************************************************************)
EXTENDS FiniteSets, Naturals

CONSTANTS Process,        \* runs of the resolver
          TempName,       \* names tempfile draws from
          Output,         \* the --output path
          Foreign,        \* a file nobody here wrote
          NoFile,         \* the name is free
          NoName,         \* the run has no temporary file
          MaxPowerLosses  \* bound on power losses in a behaviour

\* A run draws one name, and tempfile never runs out of them.
ASSUME NameAssumption ==
  /\ Output \notin TempName
  /\ NoName \notin TempName \cup {Output}
  /\ {Foreign, NoFile} \cap Process = {}
  /\ Foreign # NoFile
  /\ "torn" \notin Process \cup {Foreign, NoFile}
ASSUME BoundAssumption == MaxPowerLosses \in Nat

VARIABLES pc,       \* next call of each run, or how the run ended
          outcome,  \* how the run will end once its finally clause is done
          temp,     \* temporary_path of each run
          file,     \* contents of the temporary file of each run
          dir,      \* the output's directory: the inode each name links to
          disk,     \* the directory as the disk has it
          losses    \* power losses so far

vars == <<pc, outcome, temp, file, dir, disk, losses>>

Name  == TempName \cup {Output}
Inode == Process \cup {Foreign, NoFile}
\* "uncleaned": the clean-up itself raised, whatever the run had done until then.
Ended == {"done", "refused", "failed", "uncleaned", "killed"}
Label == {"idle", "resolve", "mktemp", "write", "flush", "fsync", "link",
          "unlink"} \cup Ended
Content == {"none", "empty", "buffered", "cached", "synced", "torn"}

Init == /\ pc = [p \in Process |-> "idle"]
        /\ outcome = [p \in Process |-> "failed"]
        /\ temp = [p \in Process |-> NoName]
        /\ file = [p \in Process |-> "none"]
        /\ dir \in {[n \in Name |-> NoFile],
                    [n \in Name |-> IF n = Output THEN Foreign ELSE NoFile]}
        /\ disk = dir
        /\ losses = 0

Goto(p, l) == pc' = [pc EXCEPT ![p] = l]

----------------------------------------------------------------------------
(* Defects the properties below must catch.  None of them is part of Next. *)

\* No os.fsync.
FsyncSkipped(p) ==
  /\ pc[p] = "fsync"
  /\ Goto(p, "link")
  /\ UNCHANGED <<outcome, temp, file, dir, disk, losses>>

\* os.replace instead of os.link; overwrite is its usual meaning.
Renaming(p, overwrite) ==
  /\ pc[p] = "link"
  /\ overwrite \/ dir[Output] = NoFile
  /\ dir' = [dir EXCEPT ![Output] = p, ![temp[p]] = NoFile]
  /\ outcome' = [outcome EXCEPT ![p] = "done"]
  /\ Goto(p, "unlink")
  /\ UNCHANGED <<temp, file, disk, losses>>
LinkByReplace(p) == Renaming(p, TRUE)
LinkByRename(p)  == Renaming(p, FALSE)

\* FileExistsError is swallowed, or answered by another attempt.
LinkOtherwise(p, result, next) ==
  /\ pc[p] = "link"
  /\ IF dir[Output] = NoFile
     THEN /\ dir' = [dir EXCEPT ![Output] = p]
          /\ outcome' = [outcome EXCEPT ![p] = "done"]
          /\ Goto(p, "unlink")
     ELSE /\ outcome' = [outcome EXCEPT ![p] = result]
          /\ Goto(p, next)
          /\ UNCHANGED dir
  /\ UNCHANGED <<temp, file, disk, losses>>
LinkErrorSwallowed(p) == LinkOtherwise(p, "done", "unlink")
LinkRetried(p)        == LinkOtherwise(p, "failed", "write")

\* The clean-up is skipped when a call failed.
IoErrorSkipsFinally(p) ==
  /\ pc[p] \in {"write", "flush", "fsync", "link"}
  /\ Goto(p, "failed")
  /\ UNCHANGED <<outcome, temp, file, dir, disk, losses>>

\* The clean-up of a failed run also removes the output path.
UnlinkRemovesOutput(p) ==
  /\ pc[p] = "unlink"
  /\ dir' = [dir EXCEPT ![temp[p]] = NoFile,
                        ![Output] = IF outcome[p] = "failed" THEN NoFile ELSE @]
  /\ temp' = [temp EXCEPT ![p] = NoName]
  /\ Goto(p, outcome[p])
  /\ UNCHANGED <<outcome, file, disk, losses>>

----------------------------------------------------------------------------
(* run: the early check, before any input is read. *)
output_exists(p) ==
  /\ pc[p] = "idle"
  /\ Goto(p, IF dir[Output] # NoFile THEN "refused" ELSE "resolve")
  /\ UNCHANGED <<outcome, temp, file, dir, disk, losses>>

(* run: read_bytes and build_lock give a document or raise. *)
Resolve(p) ==
  /\ pc[p] = "resolve"
  /\ \E l \in {"mktemp", "failed"} : Goto(p, l)
  /\ UNCHANGED <<outcome, temp, file, dir, disk, losses>>

(* mkdir and NamedTemporaryFile, which creates with O_EXCL. *)
CreateTemp(p) ==
  /\ pc[p] = "mktemp"
  /\ \E n \in TempName :
       /\ dir[n] = NoFile
       /\ dir' = [dir EXCEPT ![n] = p]
       /\ temp' = [temp EXCEPT ![p] = n]
  /\ file' = [file EXCEPT ![p] = "empty"]
  /\ Goto(p, "write")
  /\ UNCHANGED <<outcome, disk, losses>>

\* Nothing was created: temporary_path is None and finally does nothing.  A file
\* in the place of the directory raises FileExistsError too.
CreateTempFails(p) ==
  /\ pc[p] = "mktemp"
  /\ \E l \in {"refused", "failed"} : Goto(p, l)
  /\ UNCHANGED <<outcome, temp, file, dir, disk, losses>>

(* handle.write, handle.flush and os.fsync, in this order. *)
Store(p, at, content, next) ==
  /\ pc[p] = at
  /\ file' = [file EXCEPT ![p] = content]
  /\ Goto(p, next)
  /\ UNCHANGED <<outcome, temp, dir, disk, losses>>

Write(p) == Store(p, "write", "buffered", "flush")
Flush(p) == Store(p, "flush", "cached", "fsync")
Fsync(p) == Store(p, "fsync", "synced", "link")

(* os.link: creates the name or raises FileExistsError. *)
Link(p) ==
  /\ pc[p] = "link"
  /\ IF dir[Output] = NoFile
     THEN /\ dir' = [dir EXCEPT ![Output] = p]
          /\ outcome' = [outcome EXCEPT ![p] = "done"]
     ELSE /\ outcome' = [outcome EXCEPT ![p] = "refused"]
          /\ UNCHANGED dir
  /\ Goto(p, "unlink")
  /\ UNCHANGED <<temp, file, disk, losses>>

\* Any of these calls may raise another OSError; finally still runs, and its own
\* call may fail too: UnlinkFails.
IoError(p) ==
  /\ pc[p] \in {"write", "flush", "fsync", "link"}
  /\ outcome' = [outcome EXCEPT ![p] = "failed"]
  /\ Goto(p, "unlink")
  /\ UNCHANGED <<temp, file, dir, disk, losses>>

(* finally: temporary_path.unlink(), a missing file being no error. *)
Unlink(p) ==
  /\ pc[p] = "unlink"
  /\ dir' = [dir EXCEPT ![temp[p]] = NoFile]
  /\ temp' = [temp EXCEPT ![p] = NoName]
  /\ Goto(p, outcome[p])
  /\ UNCHANGED <<outcome, file, disk, losses>>

\* Only FileNotFoundError is passed over.  Any other OSError ends the run with an
\* error, also one that has published, and the temporary name stays.
UnlinkFails(p) ==
  /\ pc[p] = "unlink"
  /\ Goto(p, "uncleaned")
  /\ UNCHANGED <<outcome, temp, file, dir, disk, losses>>

\* What a file keeps when the memory that backs it goes.
KeepsAfterKill(c) == IF c = "buffered" THEN "torn" ELSE c
KeepsAfterLoss(c) == IF c \in {"buffered", "cached"} THEN "torn" ELSE c

Running(p) == pc[p] \notin Ended \cup {"idle"}

Kill(p) ==
  /\ Running(p)
  /\ Goto(p, "killed")
  /\ file' = [file EXCEPT ![p] = KeepsAfterKill(@)]
  /\ UNCHANGED <<outcome, temp, dir, disk, losses>>

\* The kernel writes the directory back; no code here asks for it.
WriteBack ==
  /\ disk # dir
  /\ disk' = dir
  /\ UNCHANGED <<pc, outcome, temp, file, dir, losses>>

\* Each name comes back as it was or as the disk had it, and unsynced bytes
\* are not counted on.
PowerLoss ==
  /\ losses < MaxPowerLosses
  /\ losses' = losses + 1
  /\ \E kept \in SUBSET Name :
       dir' = [n \in Name |-> IF n \in kept THEN dir[n] ELSE disk[n]]
  /\ disk' = dir'
  /\ file' = [p \in Process |-> KeepsAfterLoss(file[p])]
  /\ pc' = [p \in Process |-> IF Running(p) THEN "killed" ELSE pc[p]]
  /\ UNCHANGED <<outcome, temp>>

\* Somebody else creates the output between the early check and the link.
ForeignCreate ==
  /\ dir[Output] = NoFile
  /\ dir' = [dir EXCEPT ![Output] = Foreign]
  /\ UNCHANGED <<pc, outcome, temp, file, disk, losses>>

\* The steps a run takes by itself once it has started.
Proceed(p) == \/ Resolve(p) \/ CreateTemp(p) \/ CreateTempFails(p)
              \/ Write(p) \/ Flush(p) \/ Fsync(p) \/ Link(p)
              \/ IoError(p) \/ Unlink(p) \/ UnlinkFails(p)

Next == \/ \E p \in Process : output_exists(p) \/ Proceed(p) \/ Kill(p)
        \/ WriteBack \/ PowerLoss \/ ForeignCreate

Spec == Init /\ [][Next]_vars

\* The operating system schedules a run that has started until it ends.
FairSpec == Spec /\ \A p \in Process : WF_vars(Proceed(p))

----------------------------------------------------------------------------
(* Type correctness of the seven variables. *)
TypeOK == /\ pc \in [Process -> Label]
          /\ outcome \in [Process -> {"done", "refused", "failed"}]
          /\ temp \in [Process -> TempName \cup {NoName}]
          /\ file \in [Process -> Content]
          /\ dir \in [Name -> Inode]
          /\ disk \in [Name -> Inode]
          /\ losses \in Nat

\* A reader that opens the file of p sees the whole document.
Whole(p) == file[p] \in {"cached", "synced"}

\* What a reader finds under a name of directory d.
Read(d, n) == IF d[n] \in Process /\ ~Whole(d[n]) THEN "torn" ELSE d[n]

(* Atomic output: whoever opens the output path finds nothing, somebody    *)
(* else's file or one whole lock, at every moment and also after a power   *)
(* loss that kept the new name (this is what fsync before link is for).    *)
OutputWhole == Read(dir, Output) # "torn" /\ Read(disk, Output) # "torn"

(* "Refusing to overwrite existing output": short of a power loss, no step *)
(* of any run changes an output that exists, although every run checked    *)
(* for it long before it publishes.                                        *)
NeverReplaced ==
  [][dir[Output] # NoFile /\ losses' = losses => dir'[Output] = dir[Output]]_vars

(* Exit status: a run that ends well has its own lock at the output, so at *)
(* most one of the racing runs does.  A power loss may take it back: the   *)
(* directory is never synced.                                              *)
SuccessIsPublished ==
  losses = 0 => \A p \in Process : pc[p] = "done" => dir[Output] = p

(* The finally clause unlinks a name, not a file; yet the name is still    *)
(* that of the run's own file, although names are freed and drawn again by *)
(* other runs: a temporary file goes only by a step of its own run.        *)
UnlinksOnlyItsOwn ==
  [][\A q \in Process, n \in TempName :
        dir[n] = q /\ dir'[n] # q /\ losses' = losses => pc[q] # pc'[q]]_vars

(* No litter: whichever call of a run failed up to the clean-up, a         *)
(* temporary file outlives its run only if the run was killed or the       *)
(* clean-up's own unlink raised.  Such a run ends with that error: neither *)
(* a success nor "Refusing to overwrite" leaves a file behind.             *)
NoLitter ==
  losses = 0 => \A p \in Process, n \in TempName :
                  dir[n] = p /\ pc[p] \in Ended => pc[p] \in {"uncleaned", "killed"}

(* Every run that starts ends. *)
RunsEnd == \A p \in Process : Running(p) ~> pc[p] \in Ended

\* The directory entry is the document; its writer identifies it.
Abstract == INSTANCE PublishOnce WITH
              Document <- Process \cup {Foreign},
              output   <- Read(dir, Output),
              settled  <- Read(disk, Output)

(* The output path behaves as PublishOnce says: it is filled at most once, *)
(* with a whole document, and only a power loss takes a document away.     *)
PublishesOnce == Abstract!Spec
=============================================================================
