----------------------------- MODULE ManualAuth -----------------------------
(***************************************************************************)
(* browser-server/manual_auth.py: a Grid session is opened, the user (or   *)
(* in virtual mode the login script) signs in, and the cookies are written *)
(* to .auth_encoded.  Main thread, the thread of the BiDi load handler,    *)
(* and the user, who navigates and may close the browser at any time.      *)
(*                                                                         *)
(* Every call of the driver may raise, driver.quit() included.  Google     *)
(* sets and deletes cookies in the meantime; a cookie is its version, 0 if *)
(* it is not there.                                                        *)
(***************************************************************************)
EXTENDS Naturals, FiniteSetsExt

CONSTANTS
    Cookie,         \* (domain, name) of the cookies
    MaxVersion,     \* bound on the changes of cookies
    NoJar

ASSUME ManualAuthAssumption ==
    MaxVersion \in Nat \ {0} /\ NoJar \notin [Cookie -> 0..MaxVersion]

Page == {"blank", "takeout", "accounts", "other"}

VARIABLES
    mode,       \* DISPLAY_MODE
    pc,         \* main()
    path,       \* what has led to the capture of cookies
    page, open, \* the browser's page, and whether the user has left it open
    quit,       \* the Grid has its session back
    refused,    \* history: driver.quit() has raised
    subscribed, loads, done,    \* load handler, its events on the way, the Event
    store,      \* the browser's cookies
    base, accounts,     \* the two reads of them
    file,       \* .auth_encoded
    seen        \* history: Takeout has been loaded

user == <<page, open, seen>>
session == <<quit, refused>>
handler == <<subscribed, loads, done>>
cookies == <<store, base, accounts, file>>
vars == <<mode, pc, path, user, session, handler, cookies>>

Jar == [Cookie -> 0..MaxVersion]
Capturing == {"poll", "visit", "read", "save"}
Ended == pc \in {"returned", "raised"}

TypeOK ==
    /\ mode \in {"virtual", "headed"}
    /\ pc \in {"start", "opened", "check", "loop", "fallback", "returned", "raised"} \cup Capturing
    /\ path \in {"none", "virtual", "event", "fallback"}
    /\ page \in Page
    /\ {open, quit, refused, subscribed, done, seen} \subseteq BOOLEAN
    /\ loads \subseteq Page
    /\ store \in Jar
    /\ {base, accounts, file} \subseteq Jar \cup {NoJar}

Init ==
    /\ mode \in {"virtual", "headed"}
    /\ pc = "start"
    /\ path = "none"
    /\ page = "blank" /\ open = TRUE /\ seen = FALSE
    /\ quit = FALSE /\ refused = FALSE
    /\ subscribed = FALSE /\ loads = {} /\ done = FALSE
    /\ store = [c \in Cookie |-> 0]
    /\ base = NoJar /\ accounts = NoJar /\ file = NoJar

-----------------------------------------------------------------------------
(* The browser, its user, and the thread of the load handler *)

Show(p) == page' = p /\ seen' = (seen \/ p = "takeout")

\* A page is loaded; the handler, if it is installed by now, gets an event.
Load(p) == Show(p) /\ loads' = IF subscribed THEN loads \cup {p} ELSE loads

Navigate(p) ==
    /\ mode = "headed" /\ page # "blank" /\ open /\ ~quit
    /\ Load(p)
    /\ UNCHANGED <<mode, pc, path, open, session, subscribed, done, cookies>>

CloseBrowser ==
    /\ mode = "headed" /\ page # "blank" /\ open /\ ~quit
    /\ open' = FALSE
    /\ UNCHANGED <<mode, pc, path, page, seen, session, handler, cookies>>

\* The versions of cookies that the browser or the program knows.
Known == {jar[d] : jar \in {store, base, accounts, file} \ {NoJar}, d \in Cookie}

\* A cookie is set or renewed, in a version newer than these, or deleted.
ChangeCookie(c) ==
    /\ open /\ ~quit
    /\ \E v \in {0, Max(Known) + 1} \ {MaxVersion + 1} : store' = [store EXCEPT ![c] = v]
    /\ UNCHANGED <<mode, pc, path, user, session, handler, base, accounts, file>>

\* (Mutant: on_load does not look at the host.)
AnyHost(p) == TRUE
IsTakeoutHost(p) == p = "takeout"

OnLoad(p) ==
    /\ loads' = loads \ {p}
    /\ done' = (done \/ IsTakeoutHost(p))
    /\ UNCHANGED <<mode, pc, path, user, session, subscribed, cookies>>

-----------------------------------------------------------------------------
(* main() up to the capture of the cookies *)

Goto(stage) == pc' = stage
Alive == open /\ ~quit

OpenTakeout ==
    /\ pc = "start"
    /\ \/ \E p \in Page \ {"blank"} : Show(p) /\ Goto("opened")
       \/ Goto("raised") /\ UNCHANGED <<page, seen>>
    /\ UNCHANGED <<mode, path, open, session, handler, cookies>>

\* The login script returns on whatever page, or raises.
SignIn ==
    /\ pc = "opened" /\ mode = "virtual"
    /\ \/ page = "accounts" /\ \E p \in Page \ {"blank"} : Show(p) /\ Goto("check")
       \/ page # "accounts" /\ Goto("check") /\ UNCHANGED <<page, seen>>
       \/ Goto("raised") /\ UNCHANGED <<page, seen>>
    /\ UNCHANGED <<mode, path, open, session, handler, cookies>>

\* Elsewhere the script just returns, and leaves the session to its timeout.
CheckTakeout ==
    /\ pc = "check"
    /\ \/ page = "takeout" /\ Goto("poll") /\ path' = "virtual"
       \/ page # "takeout" /\ Goto("returned") /\ UNCHANGED path
       \/ Goto("raised") /\ UNCHANGED path
    /\ UNCHANGED <<mode, user, session, handler, cookies>>

\* From here loads of Takeout are seen; those that were before are not.
Subscribe ==
    /\ pc = "opened" /\ mode = "headed"
    /\ \/ Alive /\ subscribed' = TRUE /\ Goto("loop") /\ path' = "event"
       \/ Goto("fallback") /\ path' = "fallback" /\ UNCHANGED subscribed
    /\ UNCHANGED <<mode, user, session, loads, done, cookies>>

LoopEnds ==
    /\ pc = "loop" /\ done
    /\ Goto("poll")
    /\ UNCHANGED <<mode, path, user, session, handler, cookies>>

\* driver.quit(); when it raises, the Grid may have the session back all the same.
Quits == quit' = TRUE /\ UNCHANGED refused
QuitRaises == quit' \in {quit, TRUE} /\ refused' = TRUE

\* The loop asks for the URL only to learn that the browser is gone, and takes every
\* exception for that.  (Mutant: it then goes on waiting.)
GoOnWaiting == UNCHANGED <<pc, session>>
Abort == Goto("returned") /\ (Quits \/ QuitRaises)

LoopAborts ==
    /\ pc = "loop"
    /\ Abort
    /\ UNCHANGED <<mode, path, user, handler, cookies>>

\* Whatever the URL is, the cookies are captured.
Fallback ==
    /\ pc = "fallback"
    /\ \/ Alive /\ Goto("poll")
       \/ Goto("raised")
    /\ UNCHANGED <<mode, path, user, session, handler, cookies>>

-----------------------------------------------------------------------------
(* wait_for_session_cookies, capture_and_merge_accounts_cookies,           *)
(* handle_manual_auth_close                                                *)

\* The session cookies are there, or the deadline has passed.
WaitForSessionCookies ==
    /\ pc = "poll" /\ Alive
    /\ base' = store
    /\ Goto("visit")
    /\ UNCHANGED <<mode, path, user, session, handler, store, accounts, file>>

VisitAccounts ==
    /\ pc = "visit" /\ Alive
    /\ Load("accounts")
    /\ Goto("read")
    /\ UNCHANGED <<mode, path, open, session, subscribed, done, cookies>>

ReadAccounts ==
    /\ pc = "read" /\ Alive
    /\ accounts' = store
    /\ Goto("save")
    /\ UNCHANGED <<mode, path, user, session, handler, store, base, file>>

\* (Mutant: there is no finally, and a failure leaves the session as it is.)
NoFinally == UNCHANGED session
FinallyQuit == Quits \/ QuitRaises

\* After the event the exception is swallowed; elsewhere it leaves the script.
CaptureRaises ==
    /\ pc \in {"poll", "visit", "read"}
    /\ Goto(IF path = "event" THEN "returned" ELSE "raised")
    /\ FinallyQuit
    /\ UNCHANGED <<mode, path, user, handler, cookies>>

\* (Mutants: the first read wins; what the second one does not have is voided.)
BaseWins(b, a) == [c \in Cookie |-> IF b[c] # 0 THEN b[c] ELSE a[c]]
Voided(b, a) == [c \in Cookie |-> IF a[c] # 0 THEN a[c] ELSE NoJar]
Merge(b, a) == [c \in Cookie |-> IF a[c] # 0 THEN a[c] ELSE b[c]]

\* An exception of the save, or of the quit that follows it, is taken for one of BiDi:
\* the fallback comes next, and captures and saves once more if the browser still answers.
SaveRaises ==
    IF path = "event" THEN Goto("fallback") /\ path' = "fallback"
                      ELSE Goto("raised") /\ UNCHANGED path

Save ==
    /\ pc = "save"
    /\ \/ file' = Merge(base, accounts) /\ Quits /\ Goto("returned") /\ UNCHANGED path
       \/ file' = Merge(base, accounts) /\ QuitRaises /\ SaveRaises
       \/ UNCHANGED file /\ FinallyQuit /\ SaveRaises
    /\ UNCHANGED <<mode, user, handler, store, base, accounts>>

-----------------------------------------------------------------------------
Advance ==
    \/ OpenTakeout \/ SignIn \/ CheckTakeout \/ Subscribe \/ LoopEnds \/ Fallback
    \/ WaitForSessionCookies \/ VisitAccounts \/ ReadAccounts \/ CaptureRaises \/ Save

Main == Advance \/ LoopAborts

Next ==
    \/ Main
    \/ \E p \in Page \ {"blank"} : Navigate(p)
    \/ CloseBrowser
    \/ \E c \in Cookie : ChangeCookie(c)
    \/ \E p \in loads : OnLoad(p)

Spec == Init /\ [][Next]_vars

\* The main thread runs, and events that are on the way are handled.  That the URL
\* raises is certain only once the browser is closed.
FairSpec ==
    /\ Spec
    /\ WF_vars(Advance \/ (~open /\ LoopAborts))
    /\ WF_vars(\E p \in loads : OnLoad(p))

-----------------------------------------------------------------------------
(* Properties *)

\* What is written is made of two complete reads, and has each cookie in the newest
\* version that either of them has seen, though Google renews and deletes cookies
\* between them; and a jar that is written again, after a quit that raised, takes no
\* cookie back to an older version (manual_auth.py:66-81, 83-98, 143-166).
WritesFresh ==
    file' # file =>
        /\ base # NoJar /\ accounts # NoJar
        /\ \A c \in Cookie :
            /\ file'[c] = Max({base[c], accounts[c]})
            /\ file # NoJar /\ file'[c] # 0 => file'[c] >= file[c]
JarIsFresh == [][WritesFresh]_vars

\* Neither the load handler nor the login script has cookies saved of a browser
\* that has not been at Takeout (manual_auth.py:113, 124-128).
SavedAfterTakeout == file # NoJar /\ path # "fallback" => seen

\* Every way out that has waited for the user or read cookies goes through
\* driver.quit(): the Grid's only session stays taken only if that itself has raised
\* (manual_auth.py:83-98, 132-154).  Failures before that leave it to its timeout.
SessionIsFreed == Ended /\ ~quit => refused \/ (base = NoJar /\ path # "event")

\* The script ends once Takeout was seen or the user has closed the browser, and
\* in virtual mode in any case.
MainEnds == (done \/ ~open \/ mode = "virtual") ~> Ended
=============================================================================
