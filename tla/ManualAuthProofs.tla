-------------------------- MODULE ManualAuthProofs --------------------------
(* What the three runs through manual_auth.py's main() write and leave behind. *)
EXTENDS ManualAuth, WellFoundedInduction, TLAPS

(***************************************************************************)
(* The inductive invariant.                                                *)
(***************************************************************************)

\* Nothing is read before the capture. The fallback is reached with cookies that were
\* read only after a save, which has called driver.quit().
ReadInOrder ==
    /\ pc \in {"start", "opened", "check", "loop"} => base = NoJar
    /\ pc = "fallback" /\ ~quit /\ ~refused => base = NoJar
    /\ pc \in {"visit", "read", "save"} => base \in Jar
    /\ pc = "save" => accounts \in Jar
    /\ pc \in {"start", "opened", "check"} => path = "none"

\* Google makes a cookie only newer, or deletes it.
Newer(new, old) == \A c \in Cookie : new[c] # 0 => new[c] >= old[c]

BrowserIsNewer ==
    /\ base \in Jar => Newer(store, base)
    /\ pc = "save" => Newer(accounts, base) /\ Newer(store, accounts)
    /\ file \in Jar =>
        /\ Newer(store, file)
        /\ pc \in {"visit", "read", "save"} => Newer(base, file)
        /\ pc = "save" => Newer(accounts, file)

\* Every event that the handler looks for is of a load.
EventsAreLoads ==
    /\ "takeout" \in loads => seen
    /\ done => seen
    /\ pc = "loop" => path = "event"
    /\ pc = "fallback" => path = "fallback"
    /\ path = "event" /\ pc \in Capturing => done
    /\ path = "virtual" => seen
    /\ pc \in Capturing => path # "none"
    /\ page = "takeout" => seen

IInv ==
    /\ TypeOK
    /\ SavedAfterTakeout
    /\ SessionIsFreed
    /\ ReadInOrder
    /\ BrowserIsNewer
    /\ EventsAreLoads

-----------------------------------------------------------------------------
(* The newest version of some is one of them: the least upper bound of a set *)
(* of numbers is a member of it.                                             *)
LEMMA MaxIsNewest ==
    ASSUME NEW S, NEW n \in Nat, S \subseteq 0..n, S # {}
    PROVE  Max(S) \in S /\ \A x \in S : Max(S) >= x
<1> DEFINE Less == {pair \in Nat \X Nat : pair[1] < pair[2]}
<1>0. IsWellFoundedOn(Less, Nat)
  <2>1. Less = OpToRel(<, Nat)
      BY Zenon DEF OpToRel
  <2> QED
      BY <2>1, NatLessThanWellFounded, Zenon
<1> DEFINE Bounds == {b \in Nat : \A x \in S : b >= x}
<1>1. n \in Bounds
    OBVIOUS
<1>2. PICK least \in Bounds : \A b \in Bounds : <<b, least>> \notin Less
    BY <1>0, <1>1, WFMin
<1>3. ASSUME NEW b \in Bounds PROVE b >= least
  <2>1. <<b, least>> \in Nat \X Nat /\ ~(b < least)
      BY <1>2
  <2> QED
      BY <2>1
<1>4. least \in S
  <2>1. SUFFICES ASSUME least \notin S PROVE FALSE
      OBVIOUS
  <2>2. \A x \in S : least - 1 >= x
      BY <2>1
  <2>3. least - 1 \in Nat
    <3>1. PICK x \in S : x \in 0..n
        OBVIOUS
    <3> QED
        BY <2>2, <3>1
  <2>4. least - 1 \in Bounds
      BY <2>2, <2>3
  <2> QED
      BY <1>3, <2>4
<1>5. \E m \in S : \A x \in S : m >= x
    BY <1>4
<1> QED
    BY <1>5 DEF Max

\* A cookie that changes is deleted, or newer than what was read.
LEMMA ChangeIsNewer ==
    ASSUME TypeOK, NEW c \in Cookie, ChangeCookie(c)
    PROVE  \E v \in 0..MaxVersion :
            /\ store' = [store EXCEPT ![c] = v]
            /\ v # 0 /\ base \in Jar => v >= base[c]
            /\ v # 0 /\ accounts \in Jar => v >= accounts[c]
            /\ v # 0 /\ file \in Jar => v >= file[c]
<1>1. {store, base, accounts, file} \ {NoJar} \subseteq Jar
    BY DEF TypeOK
<1>2. NoJar \notin Jar
    BY ManualAuthAssumption DEF Jar
<1>3. Known \subseteq 0..MaxVersion
    BY <1>1 DEF Jar, Known
<1>4. store[c] \in Known
    BY <1>2 DEF TypeOK, Known
<1>5. Max(Known) \in Known /\ \A x \in Known : Max(Known) >= x
  <2>1. MaxVersion \in Nat /\ Known # {}
      BY <1>4, ManualAuthAssumption
  <2> QED
      BY <1>3, <2>1, MaxIsNewest
<1>6. PICK v \in {0, Max(Known) + 1} \ {MaxVersion + 1} : store' = [store EXCEPT ![c] = v]
    BY DEF ChangeCookie
<1>7. Max(Known) \in 0..MaxVersion
    BY <1>3, <1>5
<1>8. v \in 0..MaxVersion /\ (v # 0 => v = Max(Known) + 1)
    BY <1>6, <1>7, ManualAuthAssumption
<1>9. \A jar \in {base, accounts, file} : jar \in Jar => jar[c] \in Known
    BY <1>2 DEF Known
<1>10. \A x \in Known : v # 0 => v >= x
    BY <1>3, <1>5, <1>7, <1>8
<1> QED
    BY <1>6, <1>8, <1>9, <1>10

\* What the second read has is newer, so that the merge has the newest.
LEMMA MergeIsNewest ==
    ASSUME NEW b \in Jar, NEW a \in Jar, \A c \in Cookie : a[c] # 0 => a[c] >= b[c]
    PROVE  Merge(b, a) \in Jar /\ \A c \in Cookie : Merge(b, a)[c] = Max({b[c], a[c]})
<1>1. Merge(b, a) \in Jar
    BY DEF Merge, Jar
<1>2. ASSUME NEW c \in Cookie PROVE Merge(b, a)[c] = Max({b[c], a[c]})
  <2>1. b[c] \in 0..MaxVersion /\ a[c] \in 0..MaxVersion
      BY DEF Jar
  <2>2. Max({b[c], a[c]}) \in {b[c], a[c]} /\ \A x \in {b[c], a[c]} : Max({b[c], a[c]}) >= x
    <3> DEFINE S == {b[c], a[c]}
    <3>1. S \subseteq 0..MaxVersion /\ S # {} /\ MaxVersion \in Nat
        BY <2>1, ManualAuthAssumption
    <3> QED
        BY <3>1, MaxIsNewest
  <2>3. Merge(b, a)[c] = IF a[c] # 0 THEN a[c] ELSE b[c]
      BY DEF Merge
  <2> QED
      BY <2>1, <2>2, <2>3
<1> QED
    BY <1>1, <1>2

-----------------------------------------------------------------------------
LEMMA InvInit == Init => IInv
<1> SUFFICES ASSUME Init PROVE IInv
    OBVIOUS
<1>1. TypeOK
  <2>1. [c \in Cookie |-> 0] \in Jar
      BY ManualAuthAssumption DEF Jar
  <2>2. {open, quit, refused, subscribed, done, seen} \subseteq BOOLEAN
      BY Zenon DEF Init
  <2> QED
      BY <2>1, <2>2 DEF Init, TypeOK, Page
<1>2. NoJar \notin Jar
    BY ManualAuthAssumption DEF Jar
<1> QED
    BY <1>1, <1>2 DEF Init, IInv, SavedAfterTakeout, SessionIsFreed, Ended, ReadInOrder,
        BrowserIsNewer, EventsAreLoads, Capturing

\* The browser's thread and its user.
LEMMA TypeBrowser ==
    TypeOK /\ ((\E p \in Page \ {"blank"} : Navigate(p)) \/ CloseBrowser
               \/ (\E p \in loads : OnLoad(p)) \/ (\E c \in Cookie : ChangeCookie(c)))
        => TypeOK'
<1>1. ASSUME TypeOK, NEW p \in Page \ {"blank"}, Navigate(p) PROVE TypeOK'
  <2>1. page' \in Page /\ loads' \subseteq Page
      BY <1>1 DEF TypeOK, Navigate, Load, Show
  <2>2. seen' \in BOOLEAN
      BY <1>1 DEF TypeOK, Navigate, Load, Show
  <2> QED
      BY <1>1, <2>1, <2>2 DEF TypeOK, Navigate, session, cookies
<1>2. ASSUME TypeOK, CloseBrowser PROVE TypeOK'
    BY <1>2 DEF TypeOK, CloseBrowser, session, handler, cookies
<1>3. ASSUME TypeOK, NEW p \in loads, OnLoad(p) PROVE TypeOK'
  <2>1. done' \in BOOLEAN
      BY <1>3 DEF TypeOK, OnLoad
  <2>2. loads' \subseteq Page
      BY <1>3 DEF TypeOK, OnLoad
  <2> QED
      BY <1>3, <2>1, <2>2 DEF TypeOK, OnLoad, user, session, cookies
<1>4. ASSUME TypeOK, NEW c \in Cookie, ChangeCookie(c) PROVE TypeOK'
  <2>1. store' \in Jar
      BY <1>4, ChangeIsNewer DEF TypeOK, Jar
  <2> QED
      BY <1>4, <2>1 DEF TypeOK, ChangeCookie, user, session, handler
<1> QED
    BY <1>1, <1>2, <1>3, <1>4

LEMMA MergeIsNewer ==
    ASSUME NEW b \in Jar, NEW a \in Jar, NEW s \in Jar
    PROVE  /\ Newer(s, b) /\ Newer(s, a) => Newer(s, Merge(b, a))
           /\ Newer(b, s) /\ Newer(a, s) => Newer(Merge(b, a), s)
<1>1. \A c \in Cookie : Merge(b, a)[c] = IF a[c] # 0 THEN a[c] ELSE b[c]
    BY DEF Merge
<1> QED
    BY <1>1 DEF Newer

-----------------------------------------------------------------------------
(* driver.quit() *)

LEMMA QuitTyped == TypeOK /\ FinallyQuit => quit' \in BOOLEAN /\ refused' \in BOOLEAN
<1>1. ASSUME TypeOK, Quits PROVE quit' \in BOOLEAN /\ refused' \in BOOLEAN
    BY <1>1 DEF TypeOK, Quits
<1>2. ASSUME TypeOK, QuitRaises PROVE quit' \in BOOLEAN /\ refused' \in BOOLEAN
    BY <1>2 DEF TypeOK, QuitRaises
<1> QED
    BY <1>1, <1>2 DEF FinallyQuit

\* What follows the capture: the file is written or not, and the session is given
\* back or quit() has raised.
LEMMA SaveEffect ==
    ASSUME Save
    PROVE  /\ file' \in {file, Merge(base, accounts)}
           /\ FinallyQuit
           /\ quit' = TRUE \/ refused' = TRUE
           /\ \/ pc' \in {"returned", "raised"} /\ path' = path
              \/ pc' = "fallback" /\ path' = "fallback"
BY DEF Save, SaveRaises, FinallyQuit, Quits, QuitRaises, Goto

LEMMA TypeMain == IInv /\ Main => TypeOK'
<1> SUFFICES ASSUME IInv, Main PROVE TypeOK'
    OBVIOUS
<1> USE DEF Goto, Capturing
<1>1. CASE OpenTakeout \/ SignIn
  <2>1. page' \in Page /\ seen' \in BOOLEAN
      BY <1>1 DEF IInv, TypeOK, OpenTakeout, SignIn, Show
  <2>2. pc' \in {"opened", "check", "raised"}
      BY <1>1 DEF OpenTakeout, SignIn
  <2> QED
      BY <1>1, <2>1, <2>2 DEF IInv, TypeOK, OpenTakeout, SignIn, session, handler, cookies
<1>2. CASE CheckTakeout \/ Subscribe \/ LoopEnds \/ Fallback
  <2>1. UNCHANGED <<mode, user, session, loads, done, cookies>>
      BY <1>2 DEF CheckTakeout, Subscribe, LoopEnds, Fallback, handler
  <2>2. pc' \in {"poll", "returned", "loop", "fallback", "raised"}
      BY <1>2 DEF CheckTakeout, Subscribe, LoopEnds, Fallback
  <2>3. path' \in {"none", "virtual", "event", "fallback"}
      BY <1>2 DEF IInv, TypeOK, CheckTakeout, Subscribe, LoopEnds, Fallback
  <2>4. subscribed' \in BOOLEAN
      BY <1>2 DEF IInv, TypeOK, CheckTakeout, Subscribe, LoopEnds, Fallback, handler
  <2> QED
      BY <2>1, <2>2, <2>3, <2>4 DEF IInv, TypeOK, user, session, cookies
<1>3. CASE LoopAborts \/ CaptureRaises
  <2>1. UNCHANGED <<mode, path, user, handler, cookies>> /\ FinallyQuit
      BY <1>3 DEF LoopAborts, Abort, CaptureRaises, FinallyQuit
  <2>2. pc' \in {"returned", "raised"}
      BY <1>3 DEF LoopAborts, Abort, CaptureRaises
  <2>3. quit' \in BOOLEAN /\ refused' \in BOOLEAN
      BY <2>1, QuitTyped DEF IInv
  <2> QED
      BY <2>1, <2>2, <2>3 DEF IInv, TypeOK, user, handler, cookies
<1>4. CASE WaitForSessionCookies \/ ReadAccounts
  <2>1. UNCHANGED <<mode, path, user, session, handler, store, file>>
      BY <1>4 DEF WaitForSessionCookies, ReadAccounts
  <2>2. pc' \in {"visit", "save"}
      BY <1>4 DEF WaitForSessionCookies, ReadAccounts
  <2>3. {base', accounts'} \subseteq Jar \cup {NoJar}
      BY <1>4 DEF IInv, TypeOK, WaitForSessionCookies, ReadAccounts
  <2> QED
      BY <2>1, <2>2, <2>3 DEF IInv, TypeOK, user, session, handler
<1>5. CASE VisitAccounts
  <2>1. page' \in Page /\ loads' \subseteq Page
      BY <1>5 DEF IInv, TypeOK, VisitAccounts, Load, Show, Page
  <2>2. seen' \in BOOLEAN
      BY <1>5 DEF IInv, TypeOK, VisitAccounts, Load, Show
  <2> QED
      BY <1>5, <2>1, <2>2 DEF IInv, TypeOK, VisitAccounts, session, cookies
<1>6. CASE Save
  <2>1. base \in Jar /\ accounts \in Jar
      BY <1>6 DEF IInv, ReadInOrder, Save
  <2>2. Merge(base, accounts) \in Jar
      BY <2>1 DEF Merge, Jar
  <2>3. file' \in Jar \cup {NoJar}
      BY <1>6, <2>2, SaveEffect DEF IInv, TypeOK
  <2>4. pc' \in {"returned", "raised", "fallback"} /\ path' \in {path, "fallback"}
      BY <1>6, SaveEffect
  <2>5. quit' \in BOOLEAN /\ refused' \in BOOLEAN
      BY <1>6, SaveEffect, QuitTyped DEF IInv
  <2> QED
      BY <1>6, <2>3, <2>4, <2>5 DEF IInv, TypeOK, Save, user, handler
<1> QED
    BY <1>1, <1>2, <1>3, <1>4, <1>5, <1>6 DEF Main, Advance

-----------------------------------------------------------------------------
(* What is read and written *)

\* Before the last read no cookie is compared, so that a step which leaves the reads
\* alone, and does not lead back to them, keeps the order.
LEMMA OrderKept ==
    ASSUME IInv, UNCHANGED cookies,
           pc' \in {"visit", "read", "save"} => pc' = pc \/ (pc = "visit" /\ pc' = "read")
    PROVE  BrowserIsNewer'
BY DEF IInv, BrowserIsNewer, Newer, cookies

LEMMA FreshStep == IInv /\ [Next]_vars => ReadInOrder' /\ BrowserIsNewer'
<1> SUFFICES ASSUME IInv, [Next]_vars PROVE ReadInOrder' /\ BrowserIsNewer'
    OBVIOUS
<1> USE DEF Goto, Capturing
<1>0. NoJar \notin Jar
    BY ManualAuthAssumption DEF Jar
<1>1. CASE UNCHANGED <<pc, path, session, cookies>>
    BY <1>1 DEF IInv, ReadInOrder, BrowserIsNewer, Newer, session, cookies
<1>2. CASE (\E p \in Page \ {"blank"} : Navigate(p)) \/ CloseBrowser \/ (\E p \in loads : OnLoad(p))
           \/ UNCHANGED vars
    BY <1>1, <1>2 DEF Navigate, CloseBrowser, OnLoad, vars
<1>3. ASSUME NEW c \in Cookie, ChangeCookie(c) PROVE ReadInOrder' /\ BrowserIsNewer'
  <2>1. UNCHANGED <<pc, path, session, base, accounts, file>>
      BY <1>3 DEF ChangeCookie
  <2>2. PICK v \in 0..MaxVersion :
            /\ store' = [store EXCEPT ![c] = v]
            /\ v # 0 /\ base \in Jar => v >= base[c]
            /\ v # 0 /\ accounts \in Jar => v >= accounts[c]
            /\ v # 0 /\ file \in Jar => v >= file[c]
      BY <1>3, ChangeIsNewer DEF IInv
  <2>3. ReadInOrder'
      BY <2>1 DEF IInv, ReadInOrder, session
  <2>4. store \in [Cookie -> 0..MaxVersion]
      BY DEF IInv, TypeOK, Jar
  <2>5. pc = "save" => accounts \in Jar
      BY DEF IInv, ReadInOrder
  <2>6. base \in Jar => Newer(store', base)
      BY <2>2, <2>4 DEF IInv, BrowserIsNewer, Newer
  <2>7. pc = "save" => Newer(store', accounts)
      BY <2>2, <2>4, <2>5 DEF IInv, BrowserIsNewer, Newer
  <2>8. file \in Jar => Newer(store', file)
      BY <2>2, <2>4 DEF IInv, BrowserIsNewer, Newer
  <2>9. /\ pc = "save" => Newer(accounts, base)
        /\ file \in Jar /\ pc \in {"visit", "read", "save"} => Newer(base, file)
        /\ file \in Jar /\ pc = "save" => Newer(accounts, file)
      BY DEF IInv, BrowserIsNewer
  <2>10. BrowserIsNewer'
      BY <2>1, <2>6, <2>7, <2>8, <2>9 DEF BrowserIsNewer, Newer
  <2> QED
      BY <2>3, <2>10
<1>4. CASE OpenTakeout \/ SignIn \/ CheckTakeout \/ Subscribe \/ LoopEnds \/ LoopAborts \/ Fallback
  <2>1. UNCHANGED cookies
      BY <1>4 DEF OpenTakeout, SignIn, CheckTakeout, Subscribe, LoopEnds, LoopAborts, Fallback
  <2>2. /\ pc \in {"start", "opened", "check", "loop", "fallback"}
        /\ pc' \in {"opened", "check", "loop", "fallback", "poll", "returned", "raised"}
        /\ pc' = "fallback" => pc = "opened"
        /\ pc' = "loop" => pc = "opened"
        /\ pc' \in {"start", "opened", "check"} => pc \in {"start", "opened"}
      BY <1>4 DEF OpenTakeout, SignIn, CheckTakeout, Subscribe, LoopEnds, LoopAborts, Abort, Fallback
  <2>3. pc' \in {"start", "opened", "check"} => path' = path
      BY <1>4 DEF OpenTakeout, SignIn, CheckTakeout, Subscribe, LoopEnds, LoopAborts, Abort, Fallback
  <2>4. ReadInOrder'
      BY <2>1, <2>2, <2>3 DEF IInv, ReadInOrder, cookies
  <2> QED
      BY <2>1, <2>2, <2>4, OrderKept
<1>5. CASE WaitForSessionCookies
  <2>1. store \in Jar /\ base' = store /\ pc' = "visit" /\ UNCHANGED <<store, accounts, file>>
      BY <1>5 DEF IInv, TypeOK, WaitForSessionCookies
  <2>2. Newer(store, store)
      BY <2>1 DEF Newer, Jar
  <2>3. BrowserIsNewer'
      BY <2>1, <2>2 DEF IInv, BrowserIsNewer, Newer
  <2>4. ReadInOrder'
      BY <2>1 DEF ReadInOrder
  <2> QED
      BY <2>3, <2>4
<1>6. CASE VisitAccounts
  <2>1. UNCHANGED cookies /\ pc = "visit" /\ pc' = "read"
      BY <1>6 DEF VisitAccounts
  <2>2. ReadInOrder'
      BY <2>1 DEF IInv, ReadInOrder, cookies
  <2> QED
      BY <2>1, <2>2, OrderKept
<1>7. CASE ReadAccounts
  <2>1. /\ store \in Jar /\ base \in Jar /\ accounts' = store
        /\ pc = "read" /\ pc' = "save" /\ UNCHANGED <<store, base, file>>
      BY <1>7 DEF IInv, TypeOK, ReadInOrder, ReadAccounts
  <2>2. Newer(store, store)
      BY <2>1 DEF Newer, Jar
  <2>3. BrowserIsNewer'
      BY <2>1, <2>2 DEF IInv, BrowserIsNewer, Newer
  <2>4. ReadInOrder'
      BY <2>1 DEF ReadInOrder
  <2> QED
      BY <2>3, <2>4
<1>8. CASE CaptureRaises
  <2>1. UNCHANGED cookies /\ pc' \in {"returned", "raised"}
      BY <1>8 DEF CaptureRaises
  <2>2. ReadInOrder'
      BY <2>1 DEF ReadInOrder
  <2> QED
      BY <2>1, <2>2, OrderKept
<1>9. CASE Save
  <2>1. /\ base \in Jar /\ accounts \in Jar /\ store \in Jar
        /\ UNCHANGED <<store, base, accounts>>
        /\ pc' \in {"returned", "fallback", "raised"} /\ (quit' = TRUE \/ refused' = TRUE)
        /\ file' \in {file, Merge(base, accounts)}
      BY <1>9, SaveEffect DEF IInv, TypeOK, ReadInOrder, Save
  <2>2. Newer(store, base) /\ Newer(store, accounts)
      BY <1>9, <2>1 DEF IInv, BrowserIsNewer, Save
  <2>3. Newer(store, Merge(base, accounts))
      BY <2>1, <2>2, MergeIsNewer
  <2>4. file' \in Jar => Newer(store, file')
    <3>1. CASE file' = file
        BY <3>1 DEF IInv, BrowserIsNewer
    <3>2. CASE file' = Merge(base, accounts)
        BY <2>3, <3>2
    <3> QED
        BY <2>1, <3>1, <3>2
  <2>5. BrowserIsNewer'
      BY <2>1, <2>2, <2>4 DEF BrowserIsNewer, Newer
  <2>6. ReadInOrder'
      BY <2>1 DEF ReadInOrder
  <2> QED
      BY <2>5, <2>6
<1> QED
    BY <1>2, <1>3, <1>4, <1>5, <1>6, <1>7, <1>8, <1>9 DEF Next, Main, Advance

\* Only Save writes, and it has two complete reads.
LEMMA WriteStep == IInv /\ [Next]_vars => WritesFresh
<1> SUFFICES ASSUME IInv, [Next]_vars PROVE WritesFresh
    OBVIOUS
<1>0. NoJar \notin Jar
    BY ManualAuthAssumption DEF Jar
<1>1. CASE Save
  <2>1. /\ base \in Jar /\ accounts \in Jar
        /\ Newer(accounts, base)
        /\ file \in Jar => Newer(base, file) /\ Newer(accounts, file)
      BY <1>1 DEF IInv, ReadInOrder, BrowserIsNewer, Save
  <2>2. file' = file \/ file' = Merge(base, accounts)
      BY <1>1, SaveEffect
  <2>3. \A c \in Cookie : Merge(base, accounts)[c] = Max({base[c], accounts[c]})
      BY <2>1, MergeIsNewest DEF Newer
  <2>4. file \in Jar => Newer(Merge(base, accounts), file)
      BY <2>1, MergeIsNewer
  <2>5. file # NoJar => file \in Jar
      BY DEF IInv, TypeOK
  <2> QED
      BY <1>0, <2>1, <2>2, <2>3, <2>4, <2>5 DEF WritesFresh, Newer
<1>2. CASE file' = file
    BY <1>2 DEF WritesFresh
<1>3. CASE LoopAborts \/ OpenTakeout \/ SignIn \/ CheckTakeout \/ Subscribe \/ LoopEnds \/ Fallback
           \/ WaitForSessionCookies \/ VisitAccounts \/ ReadAccounts \/ CaptureRaises
    BY <1>2, <1>3 DEF LoopAborts, OpenTakeout, SignIn, CheckTakeout, Subscribe, LoopEnds, Fallback,
        WaitForSessionCookies, VisitAccounts, ReadAccounts, CaptureRaises, cookies
<1>4. CASE (\E p \in Page \ {"blank"} : Navigate(p)) \/ CloseBrowser \/ (\E p \in loads : OnLoad(p))
           \/ (\E c \in Cookie : ChangeCookie(c)) \/ UNCHANGED vars
    BY <1>2, <1>4 DEF Navigate, CloseBrowser, OnLoad, ChangeCookie, vars, cookies
<1> QED
    BY <1>1, <1>3, <1>4 DEF Next, Main, Advance

\* What the browser has been at.
LEMMA SeenStep ==
    IInv /\ [Next]_vars => SavedAfterTakeout' /\ EventsAreLoads'
<1> SUFFICES ASSUME IInv, [Next]_vars PROVE SavedAfterTakeout' /\ EventsAreLoads'
    OBVIOUS
<1> USE DEF Goto, Capturing
<1>1. CASE UNCHANGED <<pc, path, user, loads, done, file>>
    BY <1>1 DEF IInv, SavedAfterTakeout, EventsAreLoads, user
<1>2. ASSUME NEW p \in Page, Load(p), UNCHANGED <<path, done, file>>,
             pc' = pc \/ (pc = "visit" /\ pc' = "read")
      PROVE SavedAfterTakeout' /\ EventsAreLoads'
    BY <1>2 DEF IInv, Load, Show, SavedAfterTakeout, EventsAreLoads
<1>3. ASSUME NEW p \in Page \ {"blank"}, Navigate(p) PROVE SavedAfterTakeout' /\ EventsAreLoads'
    BY <1>2, <1>3 DEF Navigate, cookies
<1>4. CASE CloseBrowser
    BY <1>4 DEF IInv, CloseBrowser, SavedAfterTakeout, EventsAreLoads, handler, cookies
<1>5. ASSUME NEW p \in loads, OnLoad(p) PROVE SavedAfterTakeout' /\ EventsAreLoads'
    BY <1>5 DEF IInv, OnLoad, IsTakeoutHost, SavedAfterTakeout, EventsAreLoads, user, cookies
<1>6. ASSUME NEW c \in Cookie, ChangeCookie(c) PROVE SavedAfterTakeout' /\ EventsAreLoads'
    BY <1>1, <1>6 DEF ChangeCookie, handler
<1>7. CASE OpenTakeout \/ SignIn
  <2>1. UNCHANGED <<path, loads, done, file>> /\ pc' \in {"opened", "check", "raised"}
      BY <1>7 DEF OpenTakeout, SignIn, handler, cookies
  <2>2. (seen => seen') /\ (page' = "takeout" => seen')
      BY <1>7 DEF IInv, EventsAreLoads, OpenTakeout, SignIn, Show
  <2> QED
      BY <2>1, <2>2 DEF IInv, SavedAfterTakeout, EventsAreLoads
<1>8. CASE CheckTakeout
  <2>1. UNCHANGED <<user, loads, done, file>>
      BY <1>8 DEF CheckTakeout, handler, cookies
  <2>2. /\ path = "none" /\ pc' \in {"poll", "returned", "raised"}
        /\ \/ path' = "virtual" /\ page = "takeout"
           \/ path' = "none" /\ pc' # "poll"
      BY <1>8 DEF IInv, ReadInOrder, CheckTakeout
  <2>3. file # NoJar => seen
      BY <2>2 DEF IInv, SavedAfterTakeout
  <2> QED
      BY <2>1, <2>2, <2>3 DEF IInv, SavedAfterTakeout, EventsAreLoads, user
<1>9. CASE Subscribe \/ LoopEnds \/ LoopAborts \/ Fallback
  <2>1. UNCHANGED <<user, loads, done, file>>
      BY <1>9 DEF Subscribe, LoopEnds, LoopAborts, Fallback, handler, cookies
  <2>2. path' = path \/ path = "none"
      BY <1>9 DEF IInv, ReadInOrder, Subscribe, LoopEnds, LoopAborts, Fallback
  <2>3. /\ pc' = "loop" => path' = "event"
        /\ path' = "virtual" => path = "virtual"
        /\ pc' = "poll" => path' = path /\ ((pc = "loop" /\ done) \/ pc = "fallback")
        /\ pc' \in {"loop", "poll", "fallback", "returned", "raised"}
      BY <1>9 DEF Subscribe, LoopEnds, LoopAborts, Abort, Fallback
  <2>4. /\ pc = "fallback" => path = "fallback"
        /\ pc' = "fallback" => path' = "fallback"
      BY <1>9 DEF IInv, EventsAreLoads, Subscribe, LoopEnds, LoopAborts, Abort, Fallback
  <2>5. SavedAfterTakeout'
      BY <2>1, <2>2 DEF IInv, SavedAfterTakeout, user
  <2> QED
      BY <2>1, <2>3, <2>4, <2>5 DEF IInv, EventsAreLoads, user
<1>10. CASE WaitForSessionCookies \/ ReadAccounts \/ CaptureRaises
  <2>1. UNCHANGED <<path, user, loads, done, file>>
      BY <1>10 DEF WaitForSessionCookies, ReadAccounts, CaptureRaises, handler, cookies
  <2>2. pc \in Capturing /\ pc' \in {"visit", "save", "returned", "raised"}
      BY <1>10 DEF WaitForSessionCookies, ReadAccounts, CaptureRaises
  <2> QED
      BY <2>1, <2>2 DEF IInv, SavedAfterTakeout, EventsAreLoads, user
<1>11. CASE VisitAccounts
    BY <1>2, <1>11 DEF VisitAccounts, cookies, Page
<1>12. CASE Save
  <2>1. UNCHANGED <<user, loads, done>>
      BY <1>12 DEF Save, handler
  <2>2. \/ path' = "fallback" /\ pc' = "fallback"
        \/ path' = path /\ pc' \in {"returned", "raised"}
      BY <1>12, SaveEffect
  <2>3. path \in {"virtual", "event", "fallback"} /\ (path = "event" => done)
      BY <1>12 DEF IInv, TypeOK, EventsAreLoads, Save
  <2> QED
      BY <2>1, <2>2, <2>3 DEF IInv, SavedAfterTakeout, EventsAreLoads, user
<1> QED
    BY <1>1, <1>3, <1>4, <1>5, <1>6, <1>7, <1>8, <1>9, <1>10, <1>11, <1>12
    DEF Next, Main, Advance, vars, user, handler, cookies

\* Who gives the session back.
LEMMA FreedStep == IInv /\ [Next]_vars => SessionIsFreed'
<1> SUFFICES ASSUME IInv, [Next]_vars PROVE SessionIsFreed'
    OBVIOUS
<1> USE DEF Goto, Capturing
<1>1. CASE UNCHANGED <<pc, path, session, base>>
    BY <1>1 DEF IInv, SessionIsFreed, Ended, session
<1>2. CASE OpenTakeout \/ SignIn \/ CheckTakeout
  <2>1. base' = NoJar /\ path = "none" /\ path' \in {"none", "virtual"}
      BY <1>2 DEF IInv, OpenTakeout, SignIn, CheckTakeout, ReadInOrder, cookies
  <2> QED
      BY <2>1 DEF SessionIsFreed
<1>3. CASE Subscribe \/ LoopEnds \/ WaitForSessionCookies \/ VisitAccounts \/ ReadAccounts
    BY <1>3 DEF Subscribe, LoopEnds, WaitForSessionCookies, VisitAccounts, ReadAccounts,
        SessionIsFreed, Ended
<1>4. CASE LoopAborts \/ CaptureRaises \/ Save
  <2>1. FinallyQuit
      BY <1>4, SaveEffect DEF LoopAborts, Abort, CaptureRaises, FinallyQuit
  <2> QED
      BY <2>1 DEF FinallyQuit, Quits, QuitRaises, SessionIsFreed
<1>5. CASE Fallback
    BY <1>5 DEF IInv, Fallback, ReadInOrder, EventsAreLoads, SessionIsFreed, Ended, session, cookies
<1> QED
    BY <1>1, <1>2, <1>3, <1>4, <1>5 DEF Next, Main, Advance, Navigate, CloseBrowser, OnLoad,
        ChangeCookie, vars, cookies

LEMMA InvStep == IInv /\ [Next]_vars => IInv'
<1>1. IInv /\ [Next]_vars => TypeOK'
  <2>1. IInv /\ UNCHANGED vars => TypeOK'
      BY DEF IInv, TypeOK, vars, user, session, handler, cookies
  <2> QED
      BY <2>1, TypeBrowser, TypeMain DEF IInv, Next
<1> QED
    BY <1>1, FreshStep, SeenStep, FreedStep DEF IInv

LEMMA InvAlways == Spec => []IInv
BY InvInit, InvStep, PTL DEF Spec

\* manual_auth.py:32-176: the variables have the types that the model gives them.
THEOREM ManualAuthTyped == Spec => []TypeOK
<1>1. IInv => TypeOK
    BY DEF IInv
<1> QED
    BY <1>1, InvAlways, PTL

\* manual_auth.py:66-98, 143-166: whatever cookies there are and whenever Google renews
\* or deletes them, .auth_encoded is written with each in the newest version that was
\* read, and writing it again after a quit that raised makes none older.
THEOREM SavedJarIsFresh == Spec => JarIsFresh
<1>1. IInv /\ [Next]_vars => [WritesFresh]_vars
    BY WriteStep
<1> QED
    BY <1>1, InvAlways, PTL DEF Spec, JarIsFresh

\* manual_auth.py:113-128: apart from the fallback, cookies are saved only of a browser
\* that has been at Takeout, though events of older loads may still be on the way.
THEOREM TakeoutWasSeen == Spec => []SavedAfterTakeout
<1>1. IInv => SavedAfterTakeout
    BY DEF IInv
<1> QED
    BY <1>1, InvAlways, PTL

\* manual_auth.py:83-98, 132-166: once the user was waited for or cookies were read,
\* main() ends with the session given back or after driver.quit() has raised, whichever
\* of its other calls fails and however often the fallback captures again.
THEOREM SessionFreedUnlessRefused == Spec => []SessionIsFreed
<1>1. IInv => SessionIsFreed
    BY DEF IInv
<1> QED
    BY <1>1, InvAlways, PTL
=============================================================================
