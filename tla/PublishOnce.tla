---------------------------- MODULE PublishOnce ----------------------------
(***************************************************************************)
(* What tools/resolve_sources.py promises of the file it publishes, seen   *)
(* by a reader that opens the output path: the path holds nothing or one   *)
(* whole document, and a document that is there is never replaced.         *)
(*                                                                         *)
(* The storage stack may lag behind: `settled' is what a power loss would  *)
(* bring back.  A loss may therefore undo a publication that has not       *)
(* settled, and nothing else can.                                          *)
(***************************************************************************)
CONSTANTS Document,   \* whole documents that may be published
          NoFile      \* the path does not exist

VARIABLES output,     \* what opening the path gives
          settled     \* what it gives after a power loss that keeps nothing new

vars == <<output, settled>>

Value == Document \cup {NoFile}

\* The path may hold a file from before.
Init == /\ output \in Value
        /\ settled = output

Publish(d) == /\ output = NoFile
              /\ output' = d
              /\ UNCHANGED settled

\* The directory reaches the disk.
Settle == /\ settled' = output
          /\ UNCHANGED output

PowerLoss == /\ output' \in {output, settled}
             /\ settled' = output'

Next == \/ \E d \in Document : Publish(d)
        \/ Settle
        \/ PowerLoss

Spec == Init /\ [][Next]_vars
=============================================================================
