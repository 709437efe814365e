------------------------------ MODULE PartLoop ------------------------------
(***************************************************************************)
(* What download_archive_parts (backup-server/backup.py) promises to the   *)
(* state machine that calls it: the parts of the archive arrive one after  *)
(* the other, each is what it is taken for, each has so many attempts, and *)
(* the loop comes to an end.  These are the steps that TakeoutMachine      *)
(* makes of a download; PartDownload implements them.                      *)
(***************************************************************************)
EXTENDS Naturals, Sequences

CONSTANTS NParts, DOWNLOAD_ATTEMPTS

VARIABLES
    moved,      \* the parts in the archive's directory
    attempt,    \* at the next one
    outcome     \* "running", "done", "quota" or "raised"

vars == <<moved, attempt, outcome>>

Running == outcome = "running"

Init ==
    /\ moved = <<>>
    /\ attempt = 1
    /\ outcome = IF NParts = 0 THEN "done" ELSE "running"

PartDownloaded ==
    /\ Running
    /\ moved' = Append(moved, Len(moved) + 1)
    /\ attempt' = 1
    /\ outcome' = IF Len(moved') = NParts THEN "done" ELSE "running"

PartTimeout ==
    /\ Running
    /\ attempt < DOWNLOAD_ATTEMPTS
    /\ attempt' = attempt + 1
    /\ UNCHANGED <<moved, outcome>>

\* The quota is used up, or an exception that is not handled.
GiveUp ==
    /\ Running
    /\ outcome' \in {"quota", "raised"}
    /\ UNCHANGED <<moved, attempt>>

Next == PartDownloaded \/ PartTimeout \/ GiveUp

Spec == Init /\ [][Next]_vars /\ WF_vars(Next)
=============================================================================
