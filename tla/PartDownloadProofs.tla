------------------------- MODULE PartDownloadProofs -------------------------
(* Every part that download_archive_parts moves is the part it asked for, and
   PartDownload takes no step that PartLoop does not have. *)
EXTENDS PartDownload, TLAPS

(***************************************************************************)
(* The inductive invariant.  The program tells its downloads apart only by *)
(* what is in the directory when it looks, so the invariant says what the  *)
(* browser may still be up to at each stage.                               *)
(***************************************************************************)

Running == pc \in Stage

\* At these stages the browser has nothing left to answer.
Quiet == {"link", "assert", "click", "take", "clear", "verify", "move"}

\* The parts before this one have been moved, and there is this one to get.
Progress ==
    /\ Len(moved) = part - 1
    /\ part \in Part
    /\ pc = "navigate" => attempt < DOWNLOAD_ATTEMPTS

\* A file that is being received is in the directory.
TransferInGrid == \A c \in transfer : \E f \in grid : f[1] = c

\* The files are of this part (of this or of an earlier attempt at it).
GridOfPart == \A f \in grid : f[1][1] = part

\* Only the click of this attempt may be pending, and while it is, or is
\* answered by a page, there is no file.
OneAnswer ==
    /\ pending \subseteq {<<part, attempt>>}
    /\ pending # {} => page = "archive"
    /\ pending # {} \/ page # "archive" => grid = {}

QuietBrowser == pc \in Quiet => pending = {} /\ page = "archive"
EmptyGrid == pc \in {"click", "verify", "move"} => grid = {}
TakenPart == pc \in {"clear", "verify", "move"} => path \in Clicks /\ path[1] = part

IInv ==
    /\ TypeOK
    /\ RightParts
    /\ Running =>
        /\ Progress
        /\ TransferInGrid
        /\ GridOfPart
        /\ OneAnswer
        /\ QuietBrowser
        /\ EmptyGrid
        /\ TakenPart

-----------------------------------------------------------------------------
LEMMA InvInit == Init => IInv
<1> SUFFICES ASSUME Init PROVE IInv
    OBVIOUS
<1>1. NParts # 0 => 1 \in Part
    BY PartAssumption DEF Part
<1>2. 1 \in 1..(NParts + 1) /\ 1 \in 1..DOWNLOAD_ATTEMPTS
    BY PartAssumption
<1>3. TypeOK
    BY <1>2 DEF Init, TypeOK, Stage, Outcome
<1>4. RightParts
    BY DEF Init, RightParts
<1>5. Running => NParts # 0
    BY DEF Init, Running, Stage
<1> QED
    BY <1>1, <1>3, <1>4, <1>5 DEF Init, IInv, Progress, TransferInGrid, GridOfPart, OneAnswer,
        QuietBrowser, EmptyGrid, TakenPart

\* A step of the browser leaves the program where it is.
LEMMA InvBrowser == IInv /\ Browser => IInv'
<1> SUFFICES ASSUME IInv, NEW c \in Clicks,
                    Redirect(c) \/ Begin(c) \/ Proceed(c) \/ Receive(c)
             PROVE IInv'
    BY DEF Browser
<1>1. UNCHANGED program
    BY DEF Redirect, Begin, Proceed, Receive
<1>2. TypeOK'
  <2>1. \A kind \in Kind : <<c, kind>> \in Clicks \X Kind
      OBVIOUS
  <2>2. pending' \subseteq Clicks /\ transfer' \subseteq Clicks
      BY DEF IInv, TypeOK, Redirect, Begin, Proceed, Receive
  <2>3. grid' \subseteq Clicks \X Kind
      BY <2>1 DEF IInv, TypeOK, Kind, Redirect, Begin, Proceed, Receive
  <2>4. page' \in {"archive", "login", "quota"}
      BY DEF IInv, TypeOK, Redirect, Begin, Proceed, Receive
  <2> QED
      BY <1>1, <2>2, <2>3, <2>4 DEF IInv, TypeOK, program
<1>3. RightParts'
    BY <1>1 DEF IInv, RightParts, program
<1>4. ASSUME Running
      PROVE (Progress /\ TransferInGrid /\ GridOfPart /\ OneAnswer /\ QuietBrowser /\ EmptyGrid
             /\ TakenPart)'
  <2> USE <1>4
  <2>1. Progress' /\ TakenPart'
      BY <1>1 DEF IInv, Progress, TakenPart, program
  <2>2. CASE Redirect(c)
      BY <1>1, <2>1, <2>2 DEF IInv, Redirect, TransferInGrid, GridOfPart, OneAnswer, QuietBrowser,
          EmptyGrid, program
  <2>3. CASE Begin(c)
    <3>1. c = <<part, attempt>> /\ page = "archive" /\ pending' = {} /\ c[1] = part
        BY <2>3 DEF IInv, Begin, OneAnswer
    <3>2. PICK kind \in {"empty", "part"} : grid' = grid \cup {<<c, kind>>}
        BY <2>3 DEF Begin
    <3>3. pc \notin Quiet /\ pc \notin {"click", "verify", "move"}
        BY <2>3 DEF IInv, Begin, QuietBrowser, Quiet
    <3>4. TransferInGrid'
        BY <2>3, <3>2 DEF IInv, Begin, TransferInGrid
    <3>5. GridOfPart'
        BY <1>1, <3>1, <3>2 DEF IInv, GridOfPart, program
    <3> QED
        BY <1>1, <2>1, <2>3, <3>1, <3>3, <3>4, <3>5 DEF IInv, Begin, OneAnswer, QuietBrowser,
            EmptyGrid, program
  <2>4. CASE Proceed(c)
    <3>1. c[1] = part /\ grid # {}
        BY <2>4 DEF IInv, Proceed, TransferInGrid, GridOfPart
    <3>2. TransferInGrid'
        BY <2>4 DEF IInv, Proceed, TransferInGrid
    <3>3. GridOfPart'
        BY <1>1, <2>4, <3>1 DEF IInv, Proceed, GridOfPart, program
    <3> QED
        BY <1>1, <2>1, <2>4, <3>1, <3>2, <3>3 DEF IInv, Proceed, OneAnswer, QuietBrowser,
            EmptyGrid, program
  <2>5. CASE Receive(c)
    <3>1. c[1] = part /\ grid # {}
        BY <2>5 DEF IInv, Receive, TransferInGrid, GridOfPart
    <3>2. ASSUME NEW d \in transfer' PROVE \E f \in grid' : f[1] = d
      <4>1. d # c /\ d \in transfer
          BY <2>5 DEF Receive
      <4>2. PICK f \in grid : f[1] = d
          BY <4>1 DEF IInv, TransferInGrid
      <4>3. f \in grid'
          BY <2>5, <4>1, <4>2 DEF Receive
      <4> QED
          BY <4>2, <4>3
    <3>3. GridOfPart'
        BY <1>1, <2>5, <3>1 DEF IInv, Receive, GridOfPart, program
    <3> QED
        BY <1>1, <2>1, <2>5, <3>1, <3>2, <3>3 DEF IInv, Receive, TransferInGrid, OneAnswer,
            QuietBrowser, EmptyGrid, program
  <2> QED
      BY <2>2, <2>3, <2>4, <2>5
<1> QED
    BY <1>1, <1>2, <1>3, <1>4 DEF IInv, Running, program

\* Each step of the program, by the stage that it leaves.
LEMMA InvProgram == IInv /\ Program => IInv'
<1> SUFFICES ASSUME IInv, Program PROVE IInv'
    OBVIOUS
<1> USE DEF Goto
<1>1. Running
    BY DEF Running, Stage, Program, FindLink, AssertEmpty, Click, Poll, Take, ClearGrid,
        VerifyEmpty, SignIn, DismissQuota, Sleep, Timeout, Move, ClearForRetry, Navigate, Raise
<1>2. <<part, attempt>> \in Clicks
    BY <1>1 DEF IInv, TypeOK, Progress, Clicks
<1> DEFINE Kept == UNCHANGED <<pending, transfer, grid, page, part, attempt, moved>>
<1>3. ASSUME Kept, RightParts', Progress', QuietBrowser', EmptyGrid', TakenPart', TypeOK'
      PROVE IInv'
    BY <1>1, <1>3 DEF IInv, TransferInGrid, GridOfPart, OneAnswer
<1>4. CASE FindLink \/ AssertEmpty \/ VerifyEmpty \/ Sleep \/ Timeout \/ Raise
  <2>1. Kept /\ UNCHANGED <<seen, path>>
      BY <1>4 DEF FindLink, AssertEmpty, VerifyEmpty, Sleep, Timeout, Raise, browser
  <2>2. TypeOK'
      BY <1>4, <2>1 DEF IInv, TypeOK, Stage, Outcome, FindLink, AssertEmpty, VerifyEmpty, Sleep,
          Timeout, Raise
  <2>3. RightParts'
      BY <2>1 DEF IInv, RightParts
  <2>4. Progress'
      BY <1>1, <1>4, <2>1 DEF IInv, Progress, FindLink, AssertEmpty, VerifyEmpty, Sleep, Timeout,
          Raise
  <2>5. QuietBrowser'
      BY <1>1, <1>4, <2>1 DEF IInv, QuietBrowser, Quiet, OneAnswer, FindLink, AssertEmpty,
          VerifyEmpty, Sleep, Timeout, Raise
  <2>6. EmptyGrid'
      BY <1>1, <1>4, <2>1 DEF IInv, EmptyGrid, GridIsEmpty, FindLink, AssertEmpty, VerifyEmpty,
          Sleep, Timeout, Raise
  <2>7. TakenPart'
      BY <1>1, <1>4, <2>1 DEF IInv, TakenPart, FindLink, AssertEmpty, VerifyEmpty, Sleep, Timeout,
          Raise
  <2> QED
      BY <1>3, <2>1, <2>2, <2>3, <2>4, <2>5, <2>6, <2>7
<1>5. CASE Click
  <2>1. grid = {} /\ pending = {} /\ page = "archive"
      BY <1>1, <1>5 DEF IInv, Click, EmptyGrid, QuietBrowser, Quiet
  <2>2. TypeOK'
      BY <1>2, <1>5 DEF IInv, TypeOK, Click, Stage
  <2> QED
      BY <1>1, <1>5, <2>1, <2>2 DEF IInv, Click, RightParts, Progress, TransferInGrid, GridOfPart,
          OneAnswer, QuietBrowser, Quiet, EmptyGrid, TakenPart
<1>6. CASE Poll
  <2>1. Kept /\ UNCHANGED path
      BY <1>6 DEF Poll, browser
  <2>2. Listing \subseteq Clicks \X {"final", "part"}
      BY DEF IInv, TypeOK, Listing
  <2>3. TypeOK'
      BY <1>6, <2>1, <2>2 DEF IInv, TypeOK, Poll, Stage
  <2>4. pc' = "take" => grid # {}
      BY <1>6 DEF Poll, OnlyFinished, Listing
  <2>5. QuietBrowser'
      BY <1>1, <1>6, <2>1, <2>4 DEF IInv, Poll, QuietBrowser, Quiet, OneAnswer
  <2> QED
      BY <1>1, <1>3, <1>6, <2>1, <2>3, <2>5 DEF IInv, Poll, RightParts, Progress, EmptyGrid,
          TakenPart
<1>7. CASE Take
  <2>1. Kept /\ seen' = {} /\ pc' \in {"clear", "check", "raised", "not_found"}
      BY <1>7 DEF Take, browser
  <2>2. pc' = "clear" => path' \in Clicks /\ path'[1] = part
    <3> SUFFICES ASSUME pc' = "clear" PROVE path' \in Clicks /\ path'[1] = part
        OBVIOUS
    <3>1. PICK name \in Finished : path' = name[1] /\ <<name[1], "full">> \in grid
        BY <1>7 DEF Take
    <3>2. name[1] \in Clicks
        BY DEF IInv, TypeOK, Finished
    <3> QED
        BY <1>1, <3>1, <3>2 DEF IInv, GridOfPart
  <2>3. path' \in Clicks \cup {NoPart}
    <3>1. \A name \in Finished : name[1] \in Clicks
        BY DEF IInv, TypeOK, Finished
    <3> QED
        BY <1>7, <3>1 DEF IInv, TypeOK, Take
  <2>4. TypeOK'
      BY <2>1, <2>3 DEF IInv, TypeOK, Stage, Outcome
  <2> QED
      BY <1>1, <1>3, <1>7, <2>1, <2>2, <2>4 DEF IInv, Take, RightParts, Progress, QuietBrowser,
          Quiet, EmptyGrid, TakenPart
<1>8. CASE ClearGrid
  <2>1. pending = {} /\ page = "archive"
      BY <1>1, <1>8 DEF IInv, ClearGrid, QuietBrowser, Quiet
  <2>2. TypeOK'
      BY <1>8 DEF IInv, TypeOK, ClearGrid, DeleteDownloads, Stage
  <2> QED
      BY <1>1, <1>8, <2>1, <2>2 DEF IInv, ClearGrid, DeleteDownloads, RightParts, Progress,
          TransferInGrid, GridOfPart, OneAnswer, QuietBrowser, EmptyGrid, TakenPart
<1>9. CASE SignIn
  <2>1. grid = {} /\ pending = {}
      BY <1>1, <1>9 DEF IInv, SignIn, OneAnswer
  <2>2. TypeOK'
      BY <1>2, <1>9 DEF IInv, TypeOK, SignIn, Stage
  <2> QED
      BY <1>1, <1>9, <2>1, <2>2 DEF IInv, SignIn, RightParts, Progress, TransferInGrid, GridOfPart,
          OneAnswer, QuietBrowser, Quiet, EmptyGrid, TakenPart
<1>10. CASE DismissQuota
  <2>1. TypeOK'
      BY <1>10 DEF IInv, TypeOK, DismissQuota, Outcome
  <2>2. ~Running'
      BY <1>10 DEF DismissQuota, Running, Stage
  <2> QED
      BY <1>10, <2>1, <2>2 DEF IInv, DismissQuota, RightParts
<1>11. CASE Move
  <2>1. path[1] = part /\ part \in Part /\ Len(moved) = part - 1 /\ moved \in Seq(Part)
      BY <1>1, <1>11 DEF IInv, TypeOK, Move, TakenPart, Progress
  <2>2. moved' = Append(moved, part) /\ part' = part + 1
      BY <1>11, <2>1 DEF Move
  <2>3. RightParts' /\ Len(moved') = part' - 1 /\ moved' \in Seq(Part)
      BY <2>1, <2>2, PartAssumption DEF IInv, RightParts, Part
  <2>4. part' \in 1..(NParts + 1) /\ (part # NParts => part' \in Part) /\ 1 \in 1..DOWNLOAD_ATTEMPTS
      BY <2>1, <2>2, PartAssumption DEF Part
  <2>5. TypeOK'
      BY <1>11, <2>3, <2>4 DEF IInv, TypeOK, Move, browser, Stage, Outcome
  <2>6. grid = {} /\ pending = {} /\ page = "archive"
      BY <1>1, <1>11 DEF IInv, Move, EmptyGrid, QuietBrowser, Quiet
  <2>7. pc' \in {"done", "link"} /\ (Running' => part # NParts)
      BY <1>11 DEF Move, Running, Stage
  <2> QED
      BY <1>1, <1>11, <2>3, <2>4, <2>5, <2>6, <2>7 DEF IInv, Move, browser, Progress,
          TransferInGrid, GridOfPart, OneAnswer, QuietBrowser, EmptyGrid, TakenPart
<1>12. CASE ClearForRetry
  <2>1. TypeOK'
      BY <1>12 DEF IInv, TypeOK, ClearForRetry, DeleteDownloads, Stage, Outcome
  <2>2. CASE ~AttemptLeft
      BY <1>12, <2>1, <2>2 DEF IInv, ClearForRetry, RightParts, Running, Stage
  <2>3. CASE AttemptLeft
      BY <1>1, <1>12, <2>1, <2>3 DEF IInv, ClearForRetry, AttemptLeft, DeleteDownloads, RightParts,
          Progress, TransferInGrid, GridOfPart, OneAnswer, QuietBrowser, Quiet, EmptyGrid, TakenPart
  <2> QED
      BY <2>2, <2>3
<1>13. CASE Navigate
  <2>1. attempt' \in 1..DOWNLOAD_ATTEMPTS
      BY <1>1, <1>13, PartAssumption DEF IInv, TypeOK, Progress, Navigate, NextAttempt
  <2>2. TypeOK'
      BY <1>13, <2>1 DEF IInv, TypeOK, Navigate, OpenPage, Stage
  <2> QED
      BY <1>1, <1>13, <2>2 DEF IInv, Navigate, OpenPage, RightParts, Progress, TransferInGrid,
          GridOfPart, OneAnswer, QuietBrowser, EmptyGrid, TakenPart
<1> QED
    BY <1>4, <1>5, <1>6, <1>7, <1>8, <1>9, <1>10, <1>11, <1>12, <1>13 DEF Program

LEMMA InvStep == IInv /\ [Next]_vars => IInv'
<1>1. IInv /\ UNCHANGED vars => IInv'
    BY DEF IInv, TypeOK, RightParts, Running, Progress, TransferInGrid, GridOfPart, OneAnswer,
        QuietBrowser, EmptyGrid, TakenPart, vars, browser, program
<1> QED
    BY <1>1, InvBrowser, InvProgram DEF Next

LEMMA InvAlways == Spec => []IInv
BY InvInit, InvStep, PTL DEF Spec

\* backup.py:313-343, 597-644: the variables have the types that the model gives
\* them; above all, no part after the last one is begun.
THEOREM PartsTyped == Spec => []TypeOK
<1>1. IInv => TypeOK
    BY DEF IInv
<1> QED
    BY <1>1, InvAlways, PTL

\* backup.py:597-644: a download that is answered late, by a login page, or after its
\* attempt has timed out is never taken for a part that was asked for later.
THEOREM PartsAreRight == Spec => []RightParts
<1>1. IInv => RightParts
    BY DEF IInv
<1> QED
    BY <1>1, InvAlways, PTL

-----------------------------------------------------------------------------
(* PartDownload takes no step that PartLoop does not have.  (That the loop   *)
(* ends, the fairness of Promise, is left to TLC.)                           *)

LEMMA LoopInit == Init => Loop!Init
BY PartAssumption DEF Init, Loop!Init

LEMMA LoopBrowser == Browser => UNCHANGED Loop!vars
BY DEF Browser, Redirect, Begin, Proceed, Receive, program, Loop!vars

LEMMA LoopProgram == IInv /\ Program => [Loop!Next]_(Loop!vars)
<1> SUFFICES ASSUME IInv, Program PROVE [Loop!Next]_(Loop!vars)
    OBVIOUS
<1> USE DEF Goto
\* The program goes on in the same attempt.
<1>1. ASSUME pc \in Stage, pc' \in Stage, UNCHANGED <<moved, attempt>> PROVE UNCHANGED Loop!vars
    BY <1>1 DEF Stage, Loop!vars
\* It gives up.
<1>2. ASSUME pc \in Stage, pc' \in {"quota", "raised", "not_found"}, UNCHANGED <<moved, attempt>>
      PROVE Loop!GiveUp
    BY <1>2 DEF Stage, Loop!GiveUp, Loop!Running
<1>3. CASE FindLink \/ AssertEmpty \/ Click \/ Poll \/ Take \/ ClearGrid \/ VerifyEmpty \/ SignIn
           \/ DismissQuota \/ Sleep \/ Timeout \/ ClearForRetry \/ Raise
  <2>1. pc \in Stage /\ UNCHANGED <<moved, attempt>>
      BY <1>3 DEF FindLink, AssertEmpty, Click, Poll, Take, ClearGrid, VerifyEmpty, SignIn,
          DismissQuota, Sleep, Timeout, ClearForRetry, Raise, Stage
  <2>2. pc' \in Stage \cup {"quota", "raised", "not_found"}
      BY <1>3 DEF FindLink, AssertEmpty, Click, Poll, Take, ClearGrid, VerifyEmpty, SignIn,
          DismissQuota, Sleep, Timeout, ClearForRetry, Raise, Stage
  <2> QED
      BY <1>1, <1>2, <2>1, <2>2 DEF Loop!Next
<1>4. CASE Move
  <2>1. Running
      BY <1>4 DEF Move, Running, Stage
  <2>2. path[1] = Len(moved) + 1 /\ part = Len(moved) + 1
      BY <1>4, <2>1, PartAssumption DEF IInv, TypeOK, Move, TakenPart, Progress, Part
  <2>3. moved' = Append(moved, Len(moved) + 1) /\ Len(moved') = part /\ attempt' = 1
      BY <1>4, <2>2 DEF IInv, TypeOK, Move
  <2>4. Loop!PartDownloaded
      BY <1>4, <2>3 DEF Move, Loop!PartDownloaded, Loop!Running
  <2> QED
      BY <2>4 DEF Loop!Next
<1>5. CASE Navigate
  <2>1. Running
      BY <1>5 DEF Navigate, Running, Stage
  <2>2. attempt < DOWNLOAD_ATTEMPTS
      BY <1>5, <2>1 DEF IInv, Navigate, Progress
  <2>3. Loop!PartTimeout
      BY <1>5, <2>2 DEF Navigate, NextAttempt, Loop!PartTimeout, Loop!Running
  <2> QED
      BY <2>3 DEF Loop!Next
<1> QED
    BY <1>3, <1>4, <1>5 DEF Program

LEMMA LoopStep == IInv /\ [Next]_vars => [Loop!Next]_(Loop!vars)
<1>1. UNCHANGED vars => UNCHANGED Loop!vars
    BY DEF vars, program, Loop!vars
<1> QED
    BY <1>1, LoopBrowser, LoopProgram DEF Next

\* backup.py:313-343: whatever the browser does, the program makes one attempt after
\* the other at one part after the other, at most DOWNLOAD_ATTEMPTS at each, and
\* once it has given up it moves nothing more.
THEOREM DownloadFollowsLoop == Spec => Loop!Init /\ [][Loop!Next]_(Loop!vars)
BY LoopInit, InvInit, InvStep, LoopStep, PTL DEF Spec
=============================================================================
