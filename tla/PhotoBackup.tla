---------------------------- MODULE PhotoBackup ----------------------------
(***************************************************************************)
(* What the backup promises its owner, without saying how it is achieved:  *)
(* photos are added and never forgotten, and the marker photos/.timestamp  *)
(* moves only to a newer archive whose photos have all been stored.  The   *)
(* only other thing that may happen to the marker is that it is left       *)
(* unreadable by a write of such a newer value that did not finish.        *)
(* BackupRun implements this specification when its runs do not overlap.   *)
(***************************************************************************)
EXTENDS Naturals

CONSTANTS
    Archive,    \* the timestamps that takeout archives carry
    Content,    \* the contents of photos
    Needed,     \* Needed[a]: the contents that archive a holds
    NoStamp,    \* the marker file does not exist
    TornStamp   \* the marker file exists and cannot be parsed

VARIABLES
    stored,     \* the contents that the backup folder holds
    stamp       \* what the marker file says

pbVars == <<stored, stamp>>

-----------------------------------------------------------------------------
\* Archive a is newer than what the marker says.
IsNewer(a, marker) == IF marker = NoStamp THEN TRUE ELSE marker \in Archive /\ a > marker

PBInit == stored = {} /\ stamp = NoStamp

Store == /\ \E c \in Content : stored' = stored \cup {c}
         /\ UNCHANGED stamp

Advance == /\ \E a \in Archive : /\ IsNewer(a, stamp)
                                 /\ Needed[a] \subseteq stored
                                 /\ stamp' \in {a, TornStamp}
           /\ UNCHANGED stored

PBNext == Store \/ Advance

PBSpec == PBInit /\ [][PBNext]_pbVars
=============================================================================
