---------------------------- MODULE PartDownload ----------------------------
(***************************************************************************)
(* How backup-server/backup.py gets the parts of an archive out of the     *)
(* browser: download_archive_parts with download_with_reauth for each      *)
(* part, against a browser that downloads on its own and whose download    *)
(* directory the program sees only as a list of names.                     *)
(*                                                                         *)
(* A name that ends in .part is a download in progress.  Firefox also      *)
(* creates an empty file under the final name before it is complete, so a  *)
(* name without .part may belong to a file that is still empty; the file-  *)
(* stream plugin of the Grid answers 404 for such a file.                  *)
(***************************************************************************)
EXTENDS Naturals, Sequences

CONSTANTS
    NParts,             \* the parts 1..NParts that the archive's page lists
    DOWNLOAD_ATTEMPTS,  \* attempts at each part
    NoPart

ASSUME PartAssumption ==
    /\ NParts \in Nat
    /\ DOWNLOAD_ATTEMPTS \in Nat \ {0}
    /\ NoPart \notin 1..NParts

Part == 1..NParts

\* A click is known by the part and the attempt that it was made for, and so is
\* the file that it brings (the browser gives two files different names).
Clicks == Part \X (1..DOWNLOAD_ATTEMPTS)

VARIABLES
    \* the browser
    pending,    \* clicks that have not been answered
    transfer,   \* clicks whose file is being received
    grid,       \* the files in the download directory: <<click, kind>>
    page,       \* what the browser shows: "archive", "login" or "quota"
    \* the program
    pc,
    part,       \* the part that download_archive_parts is at
    attempt,
    seen,       \* the names that get_downloadable_files returned
    path,       \* the file that download_with_reauth got
    moved       \* the parts that were moved into the archive's directory, in this order

browser == <<pending, transfer, grid, page>>
program == <<pc, part, attempt, seen, path, moved>>
vars == <<browser, program>>

\* A file is complete, or empty under its final name, or a .part file.
Kind == {"full", "empty", "part"}

Stage == {"link", "assert", "click", "poll", "take", "clear", "verify", "move", "check", "timeout",
          "navigate"}
Outcome == {"done", "quota", "raised", "not_found"}

TypeOK ==
    /\ pending \subseteq Clicks
    /\ transfer \subseteq Clicks
    /\ grid \subseteq Clicks \X Kind
    /\ page \in {"archive", "login", "quota"}
    /\ pc \in Stage \cup Outcome
    /\ part \in 1..(NParts + 1)
    /\ attempt \in 1..DOWNLOAD_ATTEMPTS
    /\ seen \subseteq Clicks \X {"final", "part"}
    /\ path \in Clicks \cup {NoPart}
    /\ moved \in Seq(Part)

Init ==
    /\ pending = {}
    /\ transfer = {}
    /\ grid = {}
    /\ page = "archive"
    /\ pc = IF NParts = 0 THEN "done" ELSE "link"
    /\ part = 1
    /\ attempt = 1
    /\ seen = {}
    /\ path = NoPart
    /\ moved = <<>>

-----------------------------------------------------------------------------
(* The browser *)

\* The answer to a click: a login page, the quota dialog, or the file, of which
\* the empty final name or the .part name shows up first.
Redirect(c) ==
    /\ c \in pending
    /\ pending' = pending \ {c}
    /\ page' \in {"login", "quota"}
    /\ UNCHANGED <<transfer, grid, program>>

Begin(c) ==
    /\ c \in pending
    /\ pending' = pending \ {c}
    /\ transfer' = transfer \cup {c}
    /\ \E kind \in {"empty", "part"} : grid' = grid \cup {<<c, kind>>}
    /\ UNCHANGED <<page, program>>

\* The other one of the two names shows up.
Proceed(c) ==
    /\ c \in transfer
    /\ grid' = grid \cup {<<c, "empty">>, <<c, "part">>}
    /\ UNCHANGED <<pending, transfer, page, program>>

\* The .part file replaces the empty one.
Receive(c) ==
    /\ c \in transfer
    /\ {<<c, "empty">>, <<c, "part">>} \subseteq grid
    /\ transfer' = transfer \ {c}
    /\ grid' = (grid \ {<<c, "empty">>, <<c, "part">>}) \cup {<<c, "full">>}
    /\ UNCHANGED <<pending, page, program>>

\* Deleting the files also ends the transfers into them.
DeleteDownloads == grid' = {} /\ transfer' = {}

-----------------------------------------------------------------------------
(* download_with_reauth *)

Goto(stage) == pc' = stage

\* WebDriverWait finds the link to the part (it may also time out: Timeout).
FindLink ==
    /\ pc = "link"
    /\ page = "archive"
    /\ Goto("assert")
    /\ UNCHANGED <<browser, part, attempt, seen, path, moved>>

\* _assert_grid_downloads_empty raises if a file is left.
GridIsEmpty == grid = {}

AssertEmpty ==
    /\ pc = "assert"
    /\ Goto(IF GridIsEmpty THEN "click" ELSE "raised")
    /\ UNCHANGED <<browser, part, attempt, seen, path, moved>>

Click ==
    /\ pc = "click"
    /\ pending' = pending \cup {<<part, attempt>>}
    /\ Goto("poll")
    /\ UNCHANGED <<transfer, grid, page, part, attempt, seen, path, moved>>

\* The names in the directory.
Listing == {<<f[1], IF f[2] = "part" THEN "part" ELSE "final">> : f \in grid}
Finished == {name \in seen : name[2] = "final"}

\* A download is taken when there is a finished one and none in progress.
OnlyFinished(names) == names # {} /\ \A n \in names : n[2] = "final"

\* get_downloadable_files is called; if it raises, nothing is seen.
Poll ==
    /\ pc = "poll"
    /\ seen' \in {Listing, {}}
    /\ Goto(IF OnlyFinished(seen') THEN "take" ELSE "check")
    /\ UNCHANGED <<browser, part, attempt, path, moved>>

\* _take_completed_download streams what was seen.  An empty file, or one that
\* is gone, is answered with 404, which _stream_download raises as a
\* RuntimeError that is not retried; so is more than one file.  A file that was taken
\* is deleted in the browser next.  A file that disappears while it is streamed may come
\* out empty (FileStream): it is dropped, and the poll goes on without a path.
Take ==
    /\ pc = "take"
    /\ IF \A name \in Finished : <<name[1], "full">> \in grid
       THEN \/ \E name \in Finished :
                /\ path' = name[1]
                /\ Goto(IF Finished = {name} THEN "clear" ELSE "raised")
            \/ Goto("check") /\ UNCHANGED path
       ELSE Goto("not_found") /\ UNCHANGED path
    /\ seen' = {}
    /\ UNCHANGED <<browser, part, attempt, moved>>

\* _clear_grid_downloads deletes, and raises if a file is there afterwards.
ClearGrid ==
    /\ pc = "clear"
    /\ DeleteDownloads
    /\ Goto("verify")
    /\ UNCHANGED <<pending, page, part, attempt, seen, path, moved>>

VerifyEmpty ==
    /\ pc = "verify"
    /\ Goto(IF grid = {} THEN "move" ELSE "raised")
    /\ UNCHANGED <<browser, part, attempt, seen, path, moved>>

\* Nothing to take yet.  On the login page ensure_auth signs in, after which
\* the download that was clicked starts, or does not.  (It may also raise.)
SignIn ==
    /\ pc = "check"
    /\ page = "login"
    /\ page' = "archive"
    /\ pending' \in {pending, pending \cup {<<part, attempt>>}}
    /\ Goto("poll")
    /\ UNCHANGED <<transfer, grid, part, attempt, seen, path, moved>>

DismissQuota ==
    /\ pc = "check"
    /\ page = "quota"
    /\ page' = "archive"
    /\ Goto("quota")
    /\ UNCHANGED <<pending, transfer, grid, part, attempt, seen, path, moved>>

Sleep ==
    /\ pc = "check"
    /\ page = "archive"
    /\ Goto("poll")
    /\ UNCHANGED <<browser, part, attempt, seen, path, moved>>

-----------------------------------------------------------------------------
(* download_archive_parts *)

\* The part's file is moved, and the next part is begun.
Move ==
    /\ pc = "move"
    /\ moved' = Append(moved, path[1])
    /\ path' = NoPart
    /\ part' = part + 1
    /\ attempt' = 1
    /\ Goto(IF part = NParts THEN "done" ELSE "link")
    /\ UNCHANGED <<browser, seen>>

\* The wait for the link, for the download or for the login times out, or the Grid
\* answers a call of the driver with a timeout (TimeoutException), which counts the same.
Timeout ==
    /\ pc \in {"link", "assert", "click", "poll", "check", "clear", "verify"}
    /\ Goto("timeout")
    /\ UNCHANGED <<browser, part, attempt, seen, path, moved>>

\* (Mutants: one attempt too many; attempts are not counted.)
AttemptTooMany == attempt <= DOWNLOAD_ATTEMPTS
AttemptLeft == attempt < DOWNLOAD_ATTEMPTS
SameAttempt == attempt
NextAttempt == attempt + 1

\* The last attempt raises; before another one the directory is cleared, and it
\* does not matter if that fails.
ClearForRetry ==
    /\ pc = "timeout"
    /\ IF AttemptLeft
       THEN /\ DeleteDownloads \/ UNCHANGED <<grid, transfer>>
            /\ Goto("navigate")
       ELSE Goto("raised") /\ UNCHANGED <<grid, transfer>>
    /\ UNCHANGED <<pending, page, part, attempt, seen, path, moved>>

\* The archive's page is opened, which ends what was clicked and not answered.
\* (Mutant: the page is left as it is.)
StayOnPage == UNCHANGED pending /\ page' = "archive"
OpenPage == pending' = {} /\ page' = "archive"

Navigate ==
    /\ pc = "navigate"
    /\ OpenPage
    /\ attempt' = NextAttempt
    /\ seen' = {}
    /\ Goto("link")
    /\ UNCHANGED <<transfer, grid, part, path, moved>>

\* Any call may raise, and nothing but a timeout is handled.
Raise ==
    /\ pc \in Stage
    /\ Goto("raised")
    /\ UNCHANGED <<browser, part, attempt, seen, path, moved>>

-----------------------------------------------------------------------------
Browser == \E c \in Clicks : Redirect(c) \/ Begin(c) \/ Proceed(c) \/ Receive(c)

Program ==
    \/ FindLink \/ AssertEmpty \/ Click \/ Poll \/ Take \/ ClearGrid \/ VerifyEmpty
    \/ SignIn \/ DismissQuota \/ Sleep \/ Timeout
    \/ Move \/ ClearForRetry \/ Navigate \/ Raise

Next == Browser \/ Program

Spec == Init /\ [][Next]_vars

\* The program goes on, and does not poll beyond its deadline.
FairSpec == Spec /\ WF_vars(Program) /\ SF_vars(Timeout)

-----------------------------------------------------------------------------
(* Properties *)

\* Each part of the archive is moved once, in order, whatever was downloaded
\* late, twice, or under a new login: the program knows its downloads only as
\* "the one finished file", and that file is the part it asked for.
RightParts == \A i \in DOMAIN moved : moved[i] = i

\* What the state machine is promised: all parts in order, or a reason why not,
\* and an end of the loop even if no download ever completes.  The browser, the
\* login and the files' names are hidden, and so is the way a call has failed.
Loop == INSTANCE PartLoop WITH
    outcome <- CASE pc \in {"done", "quota"} -> pc
                 [] pc \in {"raised", "not_found"} -> "raised"
                 [] OTHER -> "running"
Promise == Loop!Spec

\* _take_completed_download drops an empty file and polls on (backup.py:304-308),
\* so an empty file does not end the run.
EmptyIsSkipped == pc # "not_found"
=============================================================================
