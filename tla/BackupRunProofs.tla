-------------------------- MODULE BackupRunProofs --------------------------
(***************************************************************************)
(* What is proved of BackupRun for every set of slots, archives and files  *)
(* and every number of faults:                                             *)
(*   - TypeOK, however many runs overlap;                                  *)
(*   - while runs do not overlap (OneSlot), StampMeansStored,              *)
(*     NothingForgotten, CopiesDiffer and the refinement of PhotoBackup.   *)
(***************************************************************************)
EXTENDS BackupRun, TLAPS

\* Stages in which a run has selected an archive.
Selected == {"clean", "download", "process", "merge", "copy", "stamp"}

\* The downloads folder never holds files of another archive than its directory's.
DownloadsMatch ==
    IF downloads.dir = NoArchive
    THEN downloads.zips = {} /\ downloads.export = {}
    ELSE downloads.zips \subseteq DOMAIN Export[downloads.dir] /\ downloads.export \subseteq downloads.zips

\* TypeOK with what it needs to be inductive.
TypeInv ==
    /\ TypeOK
    /\ DownloadsMatch
    /\ \A s \in Slot :
        /\ pc[s] \in Selected => target[s] \in Archive
        /\ pc[s] = "download" => todo[s] \subseteq DOMAIN Export[target[s]]
        /\ pc[s] = "copy" => file[s] \in Path

OneSlot == \A s, t \in Slot : s = t

\* How far a run has come with the archive it selected.
Progress(s) ==
    /\ pc[s] \in {"idle", "queued", "opened", "assess"} => target[s] = NoArchive
    /\ pc[s] # "idle" => last[s] = stamp
    /\ target[s] # NoArchive => IsNewer(target[s], last[s])
    /\ pc[s] = "download" =>
            /\ downloads.dir = target[s]
            /\ \/ downloads.zips = DOMAIN Export[target[s]] \ todo[s]
               \/ downloads.zips = {} /\ todo[s] = {}
    /\ pc[s] \in {"save", "quit", "process"} /\ target[s] # NoArchive =>
            /\ downloads.dir = target[s]
            /\ downloads.zips \in {{}, DOMAIN Export[target[s]]}
    /\ pc[s] \in {"merge", "copy"} =>
            /\ downloads.dir = target[s]
            /\ downloads.export = DOMAIN Export[target[s]]
            /\ \A p \in DOMAIN Export[target[s]] \ todo[s] : Export[target[s]][p] \in Stored
    /\ pc[s] = "copy" => /\ file[s] \in todo[s] \cap DOMAIN Export[target[s]]
                         /\ dest[s] \notin DOMAIN photos
    /\ pc[s] = "stamp" => Needed[target[s]] \subseteq Stored

\* The inductive invariant behind StampMeansStored.
BackupInv ==
    /\ TypeInv
    /\ StampMeansStored
    /\ \A s \in Slot : Progress(s)

-----------------------------------------------------------------------------
(* Lemmas about the constants and the helpers. *)

\* The files that processing an archive yields have paths and contents.
LEMMA ExportType ==
    ASSUME NEW a \in Archive
    PROVE  /\ DOMAIN Export[a] \subseteq Path
           /\ \A p \in DOMAIN Export[a] : Export[a][p] \in Content
<1>1. Export[a] \in UNION {[D -> Content] : D \in SUBSET Path}
  BY BackupAssumption
<1>2. PICK D \in SUBSET Path : Export[a] \in [D -> Content]
  BY <1>1
<1> QED
  BY <1>2

\* No archive exports a torn file.
LEMMA ExportIsWhole ==
    ASSUME NEW a \in Archive, NEW p \in DOMAIN Export[a]
    PROVE  Export[a][p] # TornFile
<1>1. TornFile \notin Content
  BY BackupAssumption
<1> QED
  BY <1>1, ExportType

\* A file that is merged gets a path of natural numbers, and a renamed copy one
\* that nothing is stored under yet.
LEMMA FreeCopiesType ==
    ASSUME NEW p \in Path, NEW q \in FreeCopies(p)
    PROVE  q \in Seq(Nat) /\ q \notin DOMAIN photos
<1>1. PICK k \in 1..(Cardinality(DOMAIN photos) + 1) : q = Append(p, k)
  BY DEF FreeCopies
<1>2. k \in Nat /\ p \in Seq(Nat)
  BY <1>1, BackupAssumption
<1>3. Append(p, k) \in Seq(Nat)
  BY <1>2
<1> QED
  BY <1>1, <1>3 DEF FreeCopies

\* Writing one file keeps the photos folder well formed.
LEMMA WrittenType ==
    ASSUME NEW q \in Seq(Nat), NEW c \in Content \cup {TornFile},
           DOMAIN photos \subseteq Seq(Nat),
           \A p \in DOMAIN photos : photos[p] \in Content \cup {TornFile}
    PROVE  /\ DOMAIN Written(q, c) \subseteq Seq(Nat)
           /\ \A p \in DOMAIN Written(q, c) : Written(q, c)[p] \in Content \cup {TornFile}
BY DEF Written

-----------------------------------------------------------------------------
(* Type correctness. *)

LEMMA TypeInit == Init => TypeInv
BY BackupAssumption
   DEF Init, TypeInv, TypeOK, DownloadsMatch, NoDownloads, Selected, Stage

\* The local state of a run that ends.
LEMMA TypeExit ==
    ASSUME TypeInv, NEW s \in Slot, Exit(s)
    PROVE  /\ pc' \in [Slot -> Stage]
           /\ last' \in [Slot -> Archive \cup {NoStamp}]
           /\ target' \in [Slot -> Archive \cup {NoArchive}]
           /\ todo' \in [Slot -> SUBSET Path]
           /\ file' \in [Slot -> Path \cup {<<>>}]
           /\ dest' \in [Slot -> Seq(Nat)]
           /\ \A t \in Slot : /\ pc'[t] \in Selected => target'[t] \in Archive
                              /\ pc'[t] = "download" => todo'[t] \subseteq DOMAIN Export[target'[t]]
                              /\ pc'[t] = "copy" => file'[t] \in Path
<1> USE DEF TypeInv, TypeOK, Exit, Goto, Stage, Selected
<1>1. <<>> \in Seq(Nat)
  OBVIOUS
<1>2. dest' \in [Slot -> Seq(Nat)]
  BY <1>1
<1> QED
  BY <1>2

LEMMA TypeStep == TypeInv /\ [Next]_vars => TypeInv'
<1> SUFFICES ASSUME TypeInv, [Next]_vars PROVE TypeInv'
  OBVIOUS
<1> USE DEF vars, shared, outside, locals
<1>1. ASSUME NEW a \in Archive, Publish(a) PROVE TypeInv'
  BY <1>1 DEF TypeInv, TypeOK, DownloadsMatch, Publish
<1>2. ASSUME NEW a \in Archive, Expire(a) PROVE TypeInv'
  BY <1>2 DEF TypeInv, TypeOK, DownloadsMatch, Expire
<1>3. CASE ExpireSession
  BY <1>3 DEF TypeInv, TypeOK, DownloadsMatch, ExpireSession
<1>4. ASSUME NEW s \in Slot, Start(s) PROVE TypeInv'
  BY <1>4 DEF TypeInv, TypeOK, DownloadsMatch, Start, MarkerParses, Goto, Stage, Selected
<1>5. ASSUME NEW s \in Slot, OpenSession(s) PROVE TypeInv'
  BY <1>5 DEF TypeInv, TypeOK, DownloadsMatch, OpenSession, Goto, Stage, Selected
<1>6. ASSUME NEW s \in Slot, QueueTimeout(s) PROVE TypeInv'
  <2>1. Exit(s)
    BY <1>6 DEF QueueTimeout
  <2> QED
    BY <1>6, <2>1, TypeExit DEF TypeInv, TypeOK, DownloadsMatch, QueueTimeout
<1>7. ASSUME NEW s \in Slot, LoadCookies(s) PROVE TypeInv'
  BY <1>7 DEF TypeInv, TypeOK, DownloadsMatch, LoadCookies, Goto, Stage, Selected
<1>8. ASSUME NEW s \in Slot, Settle(s) PROVE TypeInv'
  BY <1>8 DEF TypeInv, TypeOK, DownloadsMatch, Settle, Goto, Stage, Selected
<1>9. ASSUME NEW s \in Slot, SelectArchive(s) PROVE TypeInv'
  BY <1>9 DEF TypeInv, TypeOK, DownloadsMatch, SelectArchive, Goto, Stage, Selected
<1>10. ASSUME NEW s \in Slot, CleanDownloads(s) PROVE TypeInv'
  <2>1. target[s] \in Archive /\ target[s] # NoArchive
    BY <1>10, BackupAssumption DEF TypeInv, CleanDownloads, Selected
  <2>2. DOMAIN Export[target[s]] \subseteq Path
    BY <2>1, ExportType
  <2>3. downloads' = [dir |-> target[s], zips |-> {}, export |-> {}]
    BY <1>10 DEF CleanDownloads, NoDownloads
  <2>4. downloads' \in [dir : Archive \cup {NoArchive}, zips : SUBSET Path, export : SUBSET Path]
    BY <2>1, <2>3
  <2>5. DownloadsMatch'
    BY <2>1, <2>3 DEF DownloadsMatch
  <2>6. todo' \in [Slot -> SUBSET Path] /\ todo'[s] \subseteq DOMAIN Export[target[s]]
    BY <1>10, <2>2 DEF TypeInv, TypeOK, CleanDownloads
  <2> QED
    BY <1>10, <2>1, <2>4, <2>5, <2>6 DEF TypeInv, TypeOK, CleanDownloads, Goto, Stage, Selected
<1>11. ASSUME NEW s \in Slot, DownloadPart(s) PROVE TypeInv'
  <2>1. target[s] \in Archive /\ target[s] # NoArchive
    BY <1>11, BackupAssumption DEF TypeInv, DownloadPart, Selected
  <2>2. DOMAIN Export[target[s]] \subseteq Path
    BY <2>1, ExportType
  <2>3. PICK p \in todo[s] : /\ downloads' = [downloads EXCEPT !.zips = @ \cup {p}]
                             /\ todo' = [todo EXCEPT ![s] = @ \ {p}]
    BY <1>11 DEF DownloadPart
  <2>4. p \in DOMAIN Export[target[s]]
    BY <1>11, <2>3 DEF TypeInv, DownloadPart
  <2> QED
    BY <1>11, <2>1, <2>2, <2>3, <2>4
    DEF TypeInv, TypeOK, DownloadsMatch, DownloadPart, Goto, Stage, Selected
<1>12. ASSUME NEW s \in Slot, FinishDownload(s) PROVE TypeInv'
  BY <1>12 DEF TypeInv, TypeOK, DownloadsMatch, FinishDownload, Goto, Stage, Selected
<1>13. ASSUME NEW s \in Slot, SaveCookies(s) PROVE TypeInv'
  BY <1>13 DEF TypeInv, TypeOK, DownloadsMatch, SaveCookies, Goto, Stage, Selected
<1>14. ASSUME NEW s \in Slot, Quit(s) PROVE TypeInv'
  <2>1. CASE target[s] = NoArchive
    <3>1. Exit(s)
      BY <1>14, <2>1 DEF Quit
    <3> QED
      BY <1>14, <3>1, TypeExit DEF TypeInv, TypeOK, DownloadsMatch, Quit, ReleaseSession
  <2>2. CASE target[s] # NoArchive
    <3>1. Goto(s, "process") /\ UNCHANGED <<last, target, todo, file, dest>>
      BY <1>14, <2>2 DEF Quit
    <3> QED
      BY <1>14, <2>2, <3>1
      DEF TypeInv, TypeOK, DownloadsMatch, Quit, ReleaseSession, Goto, Stage, Selected
  <2> QED
    BY <2>1, <2>2
<1>15. ASSUME NEW s \in Slot, Process(s) PROVE TypeInv'
  BY <1>15 DEF TypeInv, TypeOK, DownloadsMatch, Process, Goto, Stage, Selected
<1>16. ASSUME NEW s \in Slot, SkipFile(s) PROVE TypeInv'
  BY <1>16 DEF TypeInv, TypeOK, DownloadsMatch, SkipFile, Selected
<1>17. ASSUME NEW s \in Slot, ChooseDest(s) PROVE TypeInv'
  <2>1. PICK p \in todo[s] :
            /\ \E q \in IF p \in DOMAIN photos THEN FreeCopies(p) ELSE {p} :
                    dest' = [dest EXCEPT ![s] = q]
            /\ file' = [file EXCEPT ![s] = p]
    BY <1>17 DEF ChooseDest
  <2>2. p \in Path /\ p \in Seq(Nat)
    BY <2>1, BackupAssumption DEF TypeInv, TypeOK
  <2>3. PICK q \in IF p \in DOMAIN photos THEN FreeCopies(p) ELSE {p} : dest' = [dest EXCEPT ![s] = q]
    BY <2>1
  <2>4. q \in Seq(Nat)
    BY <2>2, <2>3, FreeCopiesType
  <2> QED
    BY <1>17, <2>1, <2>2, <2>3, <2>4
    DEF TypeInv, TypeOK, DownloadsMatch, ChooseDest, Goto, Stage, Selected
<1>18. ASSUME NEW s \in Slot, CopyFile(s) PROVE TypeInv'
  <2>1. target[s] \in Archive /\ target[s] # NoArchive
    BY <1>18, BackupAssumption DEF TypeInv, CopyFile, Selected
  <2>2. file[s] \in DOMAIN Export[target[s]]
    BY <1>18, <2>1 DEF TypeInv, DownloadsMatch, CopyFile, Present
  <2>3. Export[target[s]][file[s]] \in Content
    BY <2>1, <2>2, ExportType
  <2>4. /\ DOMAIN photos' \subseteq Seq(Nat)
        /\ \A p \in DOMAIN photos' : photos'[p] \in Content \cup {TornFile}
    BY <1>18, <2>3, WrittenType DEF TypeInv, TypeOK, CopyFile
  <2>5. <<>> \in Seq(Nat)
    OBVIOUS
  <2>6. dest' \in [Slot -> Seq(Nat)]
    BY <1>18, <2>5 DEF TypeInv, TypeOK, CopyFile
  <2> QED
    BY <1>18, <2>4, <2>6 DEF TypeInv, TypeOK, DownloadsMatch, CopyFile, Goto, Stage, Selected
<1>19. ASSUME NEW s \in Slot, RemoveDownloads(s) PROVE TypeInv'
  BY <1>19 DEF TypeInv, TypeOK, DownloadsMatch, RemoveDownloads, NoDownloads, Goto, Stage, Selected
<1>20. ASSUME NEW s \in Slot, WriteStamp(s) PROVE TypeInv'
  <2>1. Exit(s)
    BY <1>20 DEF WriteStamp
  <2>2. stamp' \in Archive
    BY <1>20 DEF TypeInv, WriteStamp, Selected
  <2> QED
    BY <1>20, <2>1, <2>2, TypeExit DEF TypeInv, TypeOK, DownloadsMatch, WriteStamp
<1>21. ASSUME NEW s \in Slot, Abort(s) PROVE TypeInv'
  <2>1. Exit(s)
    BY <1>21 DEF Abort
  <2> QED
    BY <1>21, <2>1, TypeExit DEF TypeInv, TypeOK, DownloadsMatch, Abort, ReleaseSession
<1>22. ASSUME NEW s \in Slot, Raise(s) \/ Crash(s) PROVE TypeInv'
  <2>1. Exit(s) /\ MayTear(s) /\ UNCHANGED <<downloads, available, published>>
    BY <1>22 DEF Raise, Crash
  <2>2. faults' \in 0..MaxFaults
    BY <1>22, BackupAssumption DEF Raise, Crash, TypeInv, TypeOK
  <2>3. session' \in Slot \cup {NoSlot, Leaked}
    BY <1>22 DEF Raise, Crash, ReleaseSession, TypeInv, TypeOK
  <2>4. jar' \in {"ok", "torn"} /\ stamp' \in Archive \cup {NoStamp, TornStamp}
    BY <2>1 DEF MayTear, TypeInv, TypeOK
  <2>5. /\ DOMAIN photos' \subseteq Seq(Nat)
        /\ \A p \in DOMAIN photos' : photos'[p] \in Content \cup {TornFile}
    <3>1. dest[s] \in Seq(Nat)
      BY DEF TypeInv, TypeOK
    <3>2. photos' = photos \/ photos' = Written(dest[s], TornFile)
      BY <2>1 DEF MayTear
    <3> QED
      BY <3>1, <3>2, WrittenType DEF TypeInv, TypeOK
  <2> QED
    BY <2>1, <2>2, <2>3, <2>4, <2>5, TypeExit DEF TypeInv, TypeOK, DownloadsMatch
<1>23. CASE UNCHANGED vars
  BY <1>23 DEF TypeInv, TypeOK, DownloadsMatch
<1> QED
  BY <1>1, <1>2, <1>3, <1>4, <1>5, <1>6, <1>7, <1>8, <1>9, <1>10, <1>11, <1>12, <1>13, <1>14,
     <1>15, <1>16, <1>17, <1>18, <1>19, <1>20, <1>21, <1>22, <1>23
  DEF Next, Step

\* The state keeps its types, however many runs overlap.
THEOREM TypeCorrect == Spec => []TypeOK
<1>1. TypeInv => TypeOK
  BY DEF TypeInv
<1> QED
  BY TypeInit, TypeStep, <1>1, PTL DEF Spec

-----------------------------------------------------------------------------
(* What the marker promises, while runs do not overlap. *)

\* What is stored depends on the photos folder only.
LEMMA SameStored == photos' = photos => Stored' = Stored
BY DEF Stored

\* A file written to a path that is free adds its content, unless it is torn,
\* and touches no other file.
LEMMA WrittenStored ==
    ASSUME NEW q, NEW c \in Content \cup {TornFile},
           q \notin DOMAIN photos, photos' = Written(q, c)
    PROVE  /\ Stored' = Stored \cup ({c} \ {TornFile})
           /\ \A p \in DOMAIN photos : p \in DOMAIN photos' /\ photos'[p] = photos[p]
<1>1. DOMAIN photos' = DOMAIN photos \cup {q}
  BY DEF Written
<1>2. photos'[q] = c /\ \A p \in DOMAIN photos : photos'[p] = photos[p]
  BY DEF Written
<1> QED
  BY <1>1, <1>2 DEF Stored

\* The run that ends has nothing left to keep.
LEMMA ProgressExit ==
    ASSUME OneSlot, TypeInv, NEW s \in Slot, Exit(s)
    PROVE  \A t \in Slot : Progress(t)'
BY DEF OneSlot, TypeInv, TypeOK, Exit, Goto, Progress

\* A write that is cut off forgets nothing, stores nothing, and breaks the
\* marker only while it is being moved.
LEMMA TearStored ==
    ASSUME BackupInv, NEW s \in Slot, MayTear(s)
    PROVE  /\ Stored' = Stored
           /\ \A p \in DOMAIN photos : p \in DOMAIN photos' /\ photos'[p] = photos[p]
           /\ stamp' = stamp \/ (pc[s] = "stamp" /\ stamp' = TornStamp)
<1>1. CASE pc[s] = "copy" /\ photos' = Written(dest[s], TornFile)
  <2>1. dest[s] \notin DOMAIN photos
    BY <1>1 DEF BackupInv, Progress
  <2>2. /\ Stored' = Stored \cup ({TornFile} \ {TornFile})
        /\ \A p \in DOMAIN photos : p \in DOMAIN photos' /\ photos'[p] = photos[p]
    BY <1>1, <2>1, WrittenStored
  <2> QED
    BY <1>1, <2>2 DEF MayTear
<1>2. CASE photos' = photos
  BY <1>2, SameStored DEF MayTear
<1> QED
  BY <1>1, <1>2 DEF MayTear

LEMMA BackupInit == Init => BackupInv
BY TypeInit, BackupAssumption DEF BackupInv, Init, StampMeansStored, Progress

LEMMA BackupStep == ASSUME OneSlot PROVE BackupInv /\ [Next]_vars => BackupInv'
<1> SUFFICES ASSUME BackupInv, [Next]_vars PROVE BackupInv'
  OBVIOUS
<1> DEFINE Kept == StampMeansStored' /\ \A t \in Slot : Progress(t)'
<1> USE DEF vars, shared, outside, locals
<1>a. /\ TypeInv /\ TypeOK /\ StampMeansStored
      /\ \A t \in Slot : Progress(t)
  BY DEF BackupInv, TypeInv
<1>b. ASSUME NEW s \in Slot, StampMeansStored', Progress(s)' PROVE Kept
  BY <1>b DEF OneSlot
<1>c. ASSUME NEW s \in Slot, Exit(s), photos' = photos, stamp' = stamp PROVE Kept
  BY <1>a, <1>c, ProgressExit, SameStored DEF StampMeansStored
<1>d. ASSUME UNCHANGED <<shared, locals>> PROVE Kept
  <2>1. Stored' = Stored /\ StampMeansStored'
    BY <1>a, <1>d, SameStored DEF StampMeansStored
  <2> SUFFICES ASSUME NEW t \in Slot PROVE Progress(t)'
    BY <2>1
  <2> QED
    BY <1>a, <1>d, <2>1 DEF Progress
<1>1. ASSUME NEW a \in Archive, Publish(a) \/ Expire(a) PROVE Kept
  BY <1>d, <1>1 DEF Publish, Expire
<1>2. ASSUME ExpireSession PROVE Kept
  BY <1>d, <1>2 DEF ExpireSession
<1>3. ASSUME NEW s \in Slot, Start(s) PROVE Kept
  <2>1. Progress(s) /\ Stored' = Stored /\ StampMeansStored'
    BY <1>a, <1>3, SameStored DEF Start, StampMeansStored
  <2>2. pc'[s] = "queued"
    BY <1>a, <1>3 DEF TypeOK, Start, Goto
  <2>3. Progress(s)'
    BY <1>a, <1>3, <2>1, <2>2 DEF TypeOK, Progress, Start, MarkerParses
  <2> QED
    BY <1>b, <2>1, <2>3
<1>4. ASSUME NEW s \in Slot, OpenSession(s) PROVE Kept
  <2>1. Progress(s) /\ Stored' = Stored /\ StampMeansStored'
    BY <1>a, <1>4, SameStored DEF OpenSession, StampMeansStored
  <2>2. pc'[s] = "opened"
    BY <1>a, <1>4 DEF TypeOK, OpenSession, Goto
  <2>3. Progress(s)'
    BY <1>a, <1>4, <2>1, <2>2 DEF TypeOK, Progress, OpenSession
  <2> QED
    BY <1>b, <2>1, <2>3
<1>5. ASSUME NEW s \in Slot, QueueTimeout(s) PROVE Kept
  BY <1>5, <1>c DEF QueueTimeout
<1>6. ASSUME NEW s \in Slot, LoadCookies(s) PROVE Kept
  <2>1. Progress(s) /\ Stored' = Stored /\ StampMeansStored'
    BY <1>a, <1>6, SameStored DEF LoadCookies, StampMeansStored
  <2>2. pc'[s] = "assess"
    BY <1>a, <1>6 DEF TypeOK, LoadCookies, Goto
  <2>3. Progress(s)'
    BY <1>a, <1>6, <2>1, <2>2 DEF TypeOK, Progress, LoadCookies
  <2> QED
    BY <1>b, <2>1, <2>3
<1>7. ASSUME NEW s \in Slot, Settle(s) PROVE Kept
  <2>1. Progress(s) /\ Stored' = Stored /\ StampMeansStored'
    BY <1>a, <1>7, SameStored DEF Settle, StampMeansStored
  <2>2. pc'[s] = "save"
    BY <1>a, <1>7 DEF TypeOK, Settle, Goto
  <2>3. Progress(s)'
    BY <1>a, <1>7, <2>1, <2>2 DEF TypeOK, Progress, Settle
  <2> QED
    BY <1>b, <2>1, <2>3
<1>8. ASSUME NEW s \in Slot, SelectArchive(s) PROVE Kept
  <2>1. Progress(s) /\ Stored' = Stored /\ StampMeansStored'
    BY <1>a, <1>8, SameStored DEF SelectArchive, StampMeansStored
  <2>2. pc'[s] = "clean"
    BY <1>a, <1>8 DEF TypeOK, SelectArchive, Goto
  <2>3. Progress(s)'
    BY <1>a, <1>8, <2>1, <2>2 DEF TypeOK, Progress, SelectArchive
  <2> QED
    BY <1>b, <2>1, <2>3
<1>9. ASSUME NEW s \in Slot, CleanDownloads(s) PROVE Kept
  <2>1. Progress(s) /\ Stored' = Stored /\ StampMeansStored'
    BY <1>a, <1>9, SameStored DEF CleanDownloads, StampMeansStored
  <2>2. pc'[s] = "download"
    BY <1>a, <1>9 DEF TypeOK, CleanDownloads, Goto
  <2>3. Progress(s)'
    BY <1>a, <1>9, <2>1, <2>2 DEF TypeOK, Progress, CleanDownloads, NoDownloads
  <2> QED
    BY <1>b, <2>1, <2>3
<1>10. ASSUME NEW s \in Slot, DownloadPart(s) PROVE Kept
  <2>0. photos' = photos /\ stamp' = stamp
    BY <1>10 DEF DownloadPart
  <2>1. Progress(s) /\ Stored' = Stored /\ StampMeansStored'
    BY <1>a, <1>10, <2>0, SameStored DEF StampMeansStored
  <2>2. pc'[s] = "download"
    BY <1>a, <1>10 DEF TypeOK, DownloadPart, Goto
  <2>3. PICK p \in todo[s] : /\ downloads' = [downloads EXCEPT !.zips = @ \cup {p}]
                             /\ todo' = [todo EXCEPT ![s] = @ \ {p}]
    BY <1>10 DEF DownloadPart
  <2>4. p \in DOMAIN Export[target[s]]
    BY <1>a, <1>10, <2>3 DEF TypeInv, DownloadPart
  <2>5. /\ downloads'.zips = downloads.zips \cup {p} /\ downloads'.dir = target[s]
        /\ todo'[s] = todo[s] \ {p}
    BY <1>a, <1>10, <2>3 DEF TypeOK, DownloadPart
  <2>6. downloads'.zips = DOMAIN Export[target[s]] \ todo'[s]
    BY <1>10, <2>1, <2>3, <2>4, <2>5 DEF Progress, DownloadPart
  <2>7. Progress(s)'
    BY <1>10, <2>1, <2>2, <2>5, <2>6 DEF Progress, DownloadPart
  <2> QED
    BY <1>b, <2>1, <2>7
<1>11. ASSUME NEW s \in Slot, FinishDownload(s) PROVE Kept
  <2>1. Progress(s) /\ Stored' = Stored /\ StampMeansStored'
    BY <1>a, <1>11, SameStored DEF FinishDownload, StampMeansStored
  <2>2. pc'[s] = "save"
    BY <1>a, <1>11 DEF TypeOK, FinishDownload, Goto
  <2>3. Progress(s)'
    BY <1>a, <1>11, <2>1, <2>2 DEF TypeOK, Progress, FinishDownload
  <2> QED
    BY <1>b, <2>1, <2>3
<1>12. ASSUME NEW s \in Slot, SaveCookies(s) PROVE Kept
  <2>1. Progress(s) /\ Stored' = Stored /\ StampMeansStored'
    BY <1>a, <1>12, SameStored DEF SaveCookies, StampMeansStored
  <2>2. pc'[s] = "quit"
    BY <1>a, <1>12 DEF TypeOK, SaveCookies, Goto
  <2>3. Progress(s)'
    BY <1>a, <1>12, <2>1, <2>2 DEF TypeOK, Progress, SaveCookies
  <2> QED
    BY <1>b, <2>1, <2>3
<1>13. ASSUME NEW s \in Slot, Quit(s) PROVE Kept
  <2>1. CASE target[s] = NoArchive
    BY <1>c, <1>13, <2>1 DEF Quit
  <2>2. CASE target[s] # NoArchive
    <3>1. Progress(s) /\ Stored' = Stored /\ StampMeansStored'
      BY <1>a, <1>13, SameStored DEF Quit, StampMeansStored
    <3>2. pc'[s] = "process"
      BY <1>a, <1>13, <2>2 DEF TypeOK, Quit, Goto
    <3>3. Progress(s)'
      BY <1>a, <1>13, <2>2, <3>1, <3>2 DEF TypeOK, Progress, Quit
    <3> QED
      BY <1>b, <3>1, <3>3
  <2> QED
    BY <2>1, <2>2
<1>14. ASSUME NEW s \in Slot, Process(s) PROVE Kept
  <2>1. Progress(s) /\ Stored' = Stored /\ StampMeansStored'
    BY <1>a, <1>14, SameStored DEF Process, StampMeansStored
  <2>2. pc'[s] = "merge"
    BY <1>a, <1>14 DEF TypeOK, Process, Goto
  <2>3. target[s] # NoArchive
    BY <1>a, <1>14, BackupAssumption DEF TypeInv, Process, Selected
  <2>4. /\ downloads'.dir = target[s] /\ downloads'.export = DOMAIN Export[target[s]]
        /\ todo'[s] = DOMAIN Export[target[s]]
    BY <1>a, <1>14, <2>1, <2>3 DEF TypeOK, Progress, Process
  <2>5. Progress(s)'
    BY <1>14, <2>1, <2>2, <2>4 DEF Progress, Process
  <2> QED
    BY <1>b, <2>1, <2>5
<1>15. ASSUME NEW s \in Slot, SkipFile(s) PROVE Kept
  <2>1. Progress(s) /\ Stored' = Stored /\ StampMeansStored'
    BY <1>a, <1>15, SameStored DEF SkipFile, StampMeansStored
  <2>2. pc'[s] = "merge"
    BY <1>a, <1>15 DEF TypeOK, SkipFile
  <2>3. PICK p \in todo[s] : /\ Present(s, p) => StoredAlready(s, p)
                             /\ todo' = [todo EXCEPT ![s] = @ \ {p}]
    BY <1>15 DEF SkipFile
  <2>4. todo'[s] = todo[s] \ {p}
    BY <1>a, <2>3 DEF TypeOK
  <2>5. ASSUME p \in DOMAIN Export[target[s]] PROVE Export[target[s]][p] \in Stored
    <3>1. p \in DOMAIN photos /\ photos[p] = Export[target[s]][p]
      BY <1>15, <2>1, <2>3, <2>5 DEF Progress, SkipFile, Present, StoredAlready
    <3>2. target[s] \in Archive
      BY <1>a, <1>15 DEF TypeInv, SkipFile, Selected
    <3>3. Export[target[s]][p] # TornFile
      BY <2>5, <3>2, ExportIsWhole
    <3> QED
      BY <3>1, <3>3 DEF Stored
  <2>6. Progress(s)'
    BY <1>15, <2>1, <2>2, <2>4, <2>5 DEF Progress, SkipFile
  <2> QED
    BY <1>b, <2>1, <2>6
<1>16. ASSUME NEW s \in Slot, ChooseDest(s) PROVE Kept
  <2>1. Progress(s) /\ Stored' = Stored /\ StampMeansStored'
    BY <1>a, <1>16, SameStored DEF ChooseDest, StampMeansStored
  <2>2. pc'[s] = "copy"
    BY <1>a, <1>16 DEF TypeOK, ChooseDest, Goto
  <2>3. PICK p \in todo[s] :
            /\ Present(s, p)
            /\ \E q \in IF p \in DOMAIN photos THEN FreeCopies(p) ELSE {p} :
                    dest' = [dest EXCEPT ![s] = q]
            /\ file' = [file EXCEPT ![s] = p]
    BY <1>16 DEF ChooseDest
  <2>4. PICK q \in IF p \in DOMAIN photos THEN FreeCopies(p) ELSE {p} : dest' = [dest EXCEPT ![s] = q]
    BY <2>3
  <2>5. p \in Path /\ q \notin DOMAIN photos
    BY <1>a, <2>4, FreeCopiesType DEF TypeOK
  <2>6. p \in DOMAIN Export[target[s]]
    BY <1>16, <2>1, <2>3 DEF Progress, ChooseDest, Present
  <2>7. file'[s] = p /\ dest'[s] = q
    BY <1>a, <2>3, <2>4 DEF TypeOK
  <2>8. Progress(s)'
    BY <1>16, <2>1, <2>2, <2>5, <2>6, <2>7 DEF Progress, ChooseDest
  <2> QED
    BY <1>b, <2>1, <2>8
<1>17. ASSUME NEW s \in Slot, CopyFile(s) PROVE Kept
  <2> DEFINE c == Export[target[s]][file[s]]
  <2>1. Progress(s) /\ target[s] \in Archive
    BY <1>a, <1>17 DEF TypeInv, CopyFile, Selected
  <2>2. file[s] \in DOMAIN Export[target[s]] /\ dest[s] \notin DOMAIN photos
    BY <1>17, <2>1 DEF Progress, CopyFile
  <2>3. c \in Content /\ c # TornFile
    BY <2>1, <2>2, ExportType, ExportIsWhole
  <2>4. Stored' = Stored \cup {c}
    BY <1>17, <2>2, <2>3, WrittenStored DEF CopyFile
  <2>5. pc'[s] = "merge" /\ todo'[s] = todo[s] \ {file[s]}
    BY <1>a, <1>17 DEF TypeOK, CopyFile, Goto
  <2>6. StampMeansStored'
    BY <1>a, <1>17, <2>4 DEF StampMeansStored, CopyFile
  <2>7. Progress(s)'
    BY <1>17, <2>1, <2>4, <2>5 DEF Progress, CopyFile
  <2> QED
    BY <1>b, <2>6, <2>7
<1>18. ASSUME NEW s \in Slot, RemoveDownloads(s) PROVE Kept
  <2>1. Progress(s) /\ Stored' = Stored /\ StampMeansStored'
    BY <1>a, <1>18, SameStored DEF RemoveDownloads, StampMeansStored
  <2>2. pc'[s] = "stamp"
    BY <1>a, <1>18 DEF TypeOK, RemoveDownloads, Goto
  <2>3. target[s] \in Archive
    BY <1>a, <1>18 DEF TypeInv, RemoveDownloads, Selected
  <2>4. Needed[target[s]] \subseteq Stored
    BY <1>18, <2>1, <2>3 DEF Progress, RemoveDownloads, Needed
  <2>5. Progress(s)'
    BY <1>18, <2>1, <2>2, <2>4 DEF Progress, RemoveDownloads
  <2> QED
    BY <1>b, <2>1, <2>5
<1>19. ASSUME NEW s \in Slot, WriteStamp(s) PROVE Kept
  <2>1. Progress(s) /\ Exit(s)
    BY <1>a, <1>19 DEF WriteStamp
  <2>2. Needed[stamp'] \subseteq Stored'
    BY <1>19, <2>1, SameStored DEF Progress, WriteStamp
  <2> QED
    BY <1>a, <2>1, <2>2, ProgressExit DEF StampMeansStored
<1>20. ASSUME NEW s \in Slot, Abort(s) PROVE Kept
  BY <1>20, <1>c DEF Abort
<1>21. ASSUME NEW s \in Slot, Raise(s) \/ Crash(s) PROVE Kept
  <2>1. Exit(s) /\ MayTear(s)
    BY <1>21 DEF Raise, Crash
  <2>2. StampMeansStored'
    BY <1>a, <2>1, TearStored, BackupAssumption DEF StampMeansStored
  <2> QED
    BY <1>a, <2>1, <2>2, ProgressExit
<1>22. ASSUME UNCHANGED vars PROVE Kept
  BY <1>d, <1>22
<1>23. TypeInv'
  BY <1>a, TypeStep
<1> HIDE DEF Kept
<1>24. Kept
  BY <1>1, <1>2, <1>3, <1>4, <1>5, <1>6, <1>7, <1>8, <1>9, <1>10, <1>11, <1>12, <1>13,
     <1>14, <1>15, <1>16, <1>17, <1>18, <1>19, <1>20, <1>21, <1>22
  DEF Next, Step
<1> QED
  BY <1>23, <1>24 DEF BackupInv, Kept

LEMMA BackupInvariant == ASSUME OneSlot PROVE Spec => []BackupInv
BY BackupInit, BackupStep, PTL DEF Spec

\* The marker never names an archive of which a photo is missing, wherever
\* earlier runs were cut off.
THEOREM StampIsTruthful == ASSUME OneSlot PROVE Spec => []StampMeansStored
<1>1. BackupInv => StampMeansStored
  BY DEF BackupInv
<1> QED
  BY BackupInvariant, <1>1, PTL

-----------------------------------------------------------------------------
(* What a step does to the photos and the marker. *)

\* No step touches a photo that is stored.
LEMMA StepForgetsNothing ==
    ASSUME BackupInv, [Next]_vars
    PROVE  \A p \in DOMAIN photos : p \in DOMAIN photos' /\ photos'[p] = photos[p]
<1> DEFINE Kept == \A p \in DOMAIN photos : p \in DOMAIN photos' /\ photos'[p] = photos[p]
<1>1. ASSUME photos' = photos PROVE Kept
  BY <1>1
<1>2. ASSUME NEW s \in Slot, CopyFile(s) PROVE Kept
  <2>1. Progress(s) /\ target[s] \in Archive
    BY <1>2 DEF BackupInv, TypeInv, CopyFile, Selected
  <2>2. file[s] \in DOMAIN Export[target[s]] /\ dest[s] \notin DOMAIN photos
    BY <1>2, <2>1 DEF Progress, CopyFile
  <2>3. Export[target[s]][file[s]] \in Content
    BY <2>1, <2>2, ExportType
  <2> QED
    BY <1>2, <2>2, <2>3, WrittenStored DEF CopyFile
<1>3. ASSUME NEW s \in Slot, Raise(s) \/ Crash(s) PROVE Kept
  <2>1. MayTear(s)
    BY <1>3 DEF Raise, Crash
  <2> QED
    BY <2>1, TearStored
<1> HIDE DEF Kept
<1>4. ASSUME NEW a \in Archive, Publish(a) \/ Expire(a) PROVE Kept
  BY <1>1, <1>4 DEF Publish, Expire, shared
<1>5. ASSUME NEW s \in Slot, Start(s) \/ OpenSession(s) \/ QueueTimeout(s) \/ LoadCookies(s) \/ Settle(s)
                             \/ SelectArchive(s) \/ FinishDownload(s) \/ Quit(s)
      PROVE Kept
  BY <1>1, <1>5
  DEF Start, OpenSession, QueueTimeout, LoadCookies, Settle, SelectArchive, FinishDownload, Quit, shared
<1>6. ASSUME NEW s \in Slot, CleanDownloads(s) \/ DownloadPart(s) \/ SaveCookies(s) \/ Process(s)
                             \/ SkipFile(s) \/ ChooseDest(s) \/ RemoveDownloads(s) \/ WriteStamp(s) \/ Abort(s)
      PROVE Kept
  BY <1>1, <1>6
  DEF CleanDownloads, DownloadPart, SaveCookies, Process, SkipFile, ChooseDest, RemoveDownloads,
      WriteStamp, Abort, shared
<1>7. ASSUME ExpireSession \/ UNCHANGED vars PROVE Kept
  BY <1>1, <1>7 DEF ExpireSession, vars, shared
<1>8. Kept
  BY <1>2, <1>3, <1>4, <1>5, <1>6, <1>7 DEF Next, Step
<1> QED
  BY <1>8 DEF Kept

\* A photo that has been stored is never overwritten or lost.
THEOREM PhotosAreKept == ASSUME OneSlot PROVE Spec => NothingForgotten
<1>1. BackupInv /\ [Next]_vars =>
        [\A p \in DOMAIN photos : photos[p] # TornFile => p \in DOMAIN photos' /\ photos'[p] = photos[p]]_vars
  BY StepForgetsNothing
<1> QED
  BY BackupInvariant, <1>1, PTL DEF Spec, NothingForgotten

\* Every step stores one content, moves the marker as promised, or changes neither.
LEMMA StepRefines == ASSUME OneSlot, BackupInv, [Next]_vars PROVE [PB!PBNext]_(PB!pbVars)
<1> DEFINE Refined == [PB!PBNext]_(PB!pbVars)
<1>1. ASSUME photos' = photos, stamp' = stamp PROVE Refined
  BY <1>1, SameStored DEF PB!pbVars
<1>2. ASSUME NEW a \in Archive, IsNewer(a, stamp), Needed[a] \subseteq Stored,
             stamp' \in {a, TornStamp}, Stored' = Stored, stamp # TornStamp, stamp \in Archive \cup {NoStamp}
      PROVE  Refined
  <2>1. PB!IsNewer(a, stamp)
    BY <1>2 DEF IsNewer, PB!IsNewer
  <2> QED
    BY <1>2, <2>1 DEF PB!PBNext, PB!Advance
<1>3. ASSUME NEW s \in Slot, CopyFile(s) PROVE Refined
  <2> DEFINE c == Export[target[s]][file[s]]
  <2>1. Progress(s) /\ target[s] \in Archive
    BY <1>3 DEF BackupInv, TypeInv, CopyFile, Selected
  <2>2. file[s] \in DOMAIN Export[target[s]] /\ dest[s] \notin DOMAIN photos
    BY <1>3, <2>1 DEF Progress, CopyFile
  <2>3. c \in Content /\ c # TornFile
    BY <2>1, <2>2, ExportType, ExportIsWhole
  <2>4. Stored' = Stored \cup {c} /\ stamp' = stamp
    BY <1>3, <2>2, <2>3, WrittenStored DEF CopyFile
  <2> QED
    BY <2>3, <2>4 DEF PB!PBNext, PB!Store
<1>4. ASSUME NEW s \in Slot, pc[s] = "stamp"
      PROVE  /\ target[s] \in Archive /\ IsNewer(target[s], stamp) /\ Needed[target[s]] \subseteq Stored
             /\ stamp # TornStamp /\ stamp \in Archive \cup {NoStamp}
  <2>1. Progress(s) /\ target[s] \in Archive /\ target[s] # NoArchive
    BY <1>4, BackupAssumption DEF BackupInv, TypeInv, Selected
  <2>2. last[s] = stamp /\ last[s] \in Archive \cup {NoStamp}
    BY <1>4, <2>1 DEF Progress, BackupInv, TypeInv, TypeOK
  <2> QED
    BY <1>4, <2>1, <2>2, BackupAssumption DEF Progress
<1>5. ASSUME NEW s \in Slot, WriteStamp(s) PROVE Refined
  <2>1. stamp' = target[s] /\ Stored' = Stored /\ pc[s] = "stamp"
    BY <1>5, SameStored DEF WriteStamp
  <2> QED
    BY <1>2, <1>4, <2>1
<1>6. ASSUME NEW s \in Slot, Raise(s) \/ Crash(s) PROVE Refined
  <2>1. MayTear(s)
    BY <1>6 DEF Raise, Crash
  <2>2. Stored' = Stored
    BY <2>1, TearStored
  <2>3. CASE stamp' = stamp
    BY <2>2, <2>3 DEF PB!pbVars
  <2>4. CASE pc[s] = "stamp" /\ stamp' = TornStamp
    BY <1>2, <1>4, <2>2, <2>4
  <2> QED
    BY <2>1, <2>3, <2>4, TearStored
<1> HIDE DEF Refined
<1>7. ASSUME NEW a \in Archive, Publish(a) \/ Expire(a) PROVE Refined
  BY <1>1, <1>7 DEF Publish, Expire, shared
<1>8. ASSUME NEW s \in Slot, Start(s) \/ OpenSession(s) \/ QueueTimeout(s) \/ LoadCookies(s) \/ Settle(s)
                             \/ SelectArchive(s) \/ FinishDownload(s) \/ Quit(s)
      PROVE Refined
  BY <1>1, <1>8
  DEF Start, OpenSession, QueueTimeout, LoadCookies, Settle, SelectArchive, FinishDownload, Quit, shared
<1>9. ASSUME NEW s \in Slot, CleanDownloads(s) \/ DownloadPart(s) \/ SaveCookies(s) \/ Process(s)
                             \/ SkipFile(s) \/ ChooseDest(s) \/ RemoveDownloads(s) \/ Abort(s)
      PROVE Refined
  BY <1>1, <1>9
  DEF CleanDownloads, DownloadPart, SaveCookies, Process, SkipFile, ChooseDest, RemoveDownloads, Abort, shared
<1>10. ASSUME ExpireSession \/ UNCHANGED vars PROVE Refined
  BY <1>1, <1>10 DEF ExpireSession, vars, shared
<1>11. Refined
  BY <1>3, <1>5, <1>6, <1>7, <1>8, <1>9, <1>10 DEF Next, Step
<1> QED
  BY <1>11 DEF Refined

\* Runs that do not overlap implement the backup that PhotoBackup promises.
THEOREM BackupRefinesPromise == ASSUME OneSlot PROVE Spec => Promise
<1>1. Init => PB!PBInit
  BY DEF Init, PB!PBInit, Stored
<1>2. BackupInv /\ [Next]_vars => [PB!PBNext]_(PB!pbVars)
  BY StepRefines
<1> QED
  BY <1>1, <1>2, BackupInvariant, PTL DEF Spec, Promise, PB!PBSpec

-----------------------------------------------------------------------------
(* Renamed copies *)

\* A copy has its original beside it, and differs from it unless it is torn.
Copies ==
    \A p \in Path, k \in Nat :
        Append(p, k) \notin Path /\ Append(p, k) \in DOMAIN photos =>
            /\ p \in DOMAIN photos
            /\ photos[Append(p, k)] # TornFile => photos[Append(p, k)] # photos[p]

\* A file that is copied beside another one has been compared with it.
Compared(s) ==
    pc[s] = "copy" =>
        \/ dest[s] = file[s]
        \/ /\ \E k \in Nat : dest[s] = Append(file[s], k)
           /\ file[s] \in DOMAIN photos
           /\ photos[file[s]] # Export[target[s]][file[s]]

CopyInv == Copies /\ \A s \in Slot : Compared(s)

LEMMA AppendFacts ==
    ASSUME NEW p \in Seq(Nat), NEW j \in Nat
    PROVE  /\ Len(Append(p, j)) = Len(p) + 1
           /\ \A i \in 1..Len(p) : Append(p, j)[i] = p[i]
OBVIOUS

\* The name of a copy tells its original and its number.
LEMMA AppendIsInjective ==
    ASSUME NEW p \in Seq(Nat), NEW q \in Seq(Nat), NEW j \in Nat, NEW k \in Nat, Append(p, j) = Append(q, k)
    PROVE  p = q
<1>1. /\ Len(Append(p, j)) = Len(p) + 1
      /\ \A i \in 1..Len(p) : Append(p, j)[i] = p[i]
  BY AppendFacts, Zenon
<1>2. /\ Len(Append(q, k)) = Len(q) + 1
      /\ \A i \in 1..Len(q) : Append(q, k)[i] = q[i]
  BY AppendFacts, Zenon
<1>3. Len(p) \in Nat /\ Len(q) \in Nat
  OBVIOUS
<1>4. Len(p) = Len(q)
  BY <1>1, <1>2, <1>3
<1>5. \A i \in 1..Len(p) : p[i] = q[i]
  BY <1>1, <1>2, <1>4
<1> QED
  BY <1>4, <1>5

\* Writing a file where it belongs keeps the copies right.
LEMMA WrittenCopies ==
    ASSUME Copies, NEW s \in Slot, pc[s] = "copy", Compared(s), file[s] \in Path, dest[s] \notin DOMAIN photos,
           NEW c, c \in {TornFile, Export[target[s]][file[s]]}, photos' = Written(dest[s], c)
    PROVE  Copies'
<1> SUFFICES ASSUME NEW p \in Path, NEW k \in Nat,
                    Append(p, k) \notin Path, Append(p, k) \in DOMAIN photos'
             PROVE  /\ p \in DOMAIN photos'
                    /\ photos'[Append(p, k)] # TornFile => photos'[Append(p, k)] # photos'[p]
  BY DEF Copies
<1> DEFINE q == Append(p, k)
<1>1. /\ DOMAIN photos' = DOMAIN photos \cup {dest[s]}
      /\ photos'[dest[s]] = c
      /\ \A r \in DOMAIN photos : photos'[r] = photos[r]
  BY DEF Written
<1>2. CASE q # dest[s]
  <2>1. q \in DOMAIN photos
    BY <1>1, <1>2
  <2>2. p \in DOMAIN photos /\ (photos[q] # TornFile => photos[q] # photos[p])
    BY <2>1 DEF Copies
  <2> QED
    BY <1>1, <2>1, <2>2
<1>3. CASE q = dest[s]
  <2>1. dest[s] # file[s]
    BY <1>3
  <2>2. PICK j \in Nat : dest[s] = Append(file[s], j)
    BY <2>1 DEF Compared
  <2>3. p = file[s]
    <3>1. p \in Seq(Nat) /\ file[s] \in Seq(Nat)
      BY BackupAssumption
    <3> QED
      BY <1>3, <2>2, <3>1, AppendIsInjective
  <2>4. p \in DOMAIN photos /\ photos[p] # Export[target[s]][file[s]]
    BY <2>1, <2>3 DEF Compared
  <2> QED
    BY <1>1, <1>3, <2>4
<1> QED
  BY <1>2, <1>3

LEMMA CopyInit == Init => CopyInv
BY DEF Init, CopyInv, Copies, Compared

LEMMA CopyStep == ASSUME OneSlot PROVE BackupInv /\ CopyInv /\ [Next]_vars => CopyInv'
<1> SUFFICES ASSUME BackupInv, CopyInv, [Next]_vars PROVE CopyInv'
  OBVIOUS
<1> USE DEF vars, shared, outside, locals
<1>a. /\ TypeInv /\ TypeOK /\ Copies
      /\ \A t \in Slot : Progress(t) /\ Compared(t)
  BY DEF BackupInv, TypeInv, CopyInv
<1>b. ASSUME photos' = photos PROVE Copies'
  BY <1>a, <1>b DEF Copies
<1>c. ASSUME NEW s \in Slot, pc' = [pc EXCEPT ![s] = pc'[s]], pc'[s] # "copy" PROVE \A t \in Slot : Compared(t)'
  BY <1>c DEF OneSlot, Compared
<1>1. ASSUME UNCHANGED <<photos, pc, target, file, dest>> PROVE CopyInv'
  BY <1>1, <1>a, <1>b DEF CopyInv, Compared
<1>2. ASSUME NEW s \in Slot, Exit(s) PROVE \A t \in Slot : Compared(t)'
  <2>1. pc' = [pc EXCEPT ![s] = "idle"]
    BY <1>2 DEF Exit, Goto
  <2>2. pc'[s] = "idle"
    BY <1>a, <2>1 DEF TypeOK
  <2> QED
    BY <1>c, <2>1, <2>2
<1>3. ASSUME NEW s \in Slot, Start(s) \/ OpenSession(s) \/ LoadCookies(s) \/ Settle(s) \/ SelectArchive(s)
                             \/ CleanDownloads(s) \/ FinishDownload(s) \/ SaveCookies(s) \/ Process(s)
                             \/ RemoveDownloads(s)
      PROVE  CopyInv'
  <2>1. photos' = photos
    BY <1>3 DEF Start, OpenSession, LoadCookies, Settle, SelectArchive, CleanDownloads, FinishDownload,
                SaveCookies, Process, RemoveDownloads
  <2>2. PICK stage \in Stage \ {"copy"} : pc' = [pc EXCEPT ![s] = stage]
    BY <1>3 DEF Start, OpenSession, LoadCookies, Settle, SelectArchive, CleanDownloads, FinishDownload,
                SaveCookies, Process, RemoveDownloads, Goto, Stage
  <2>3. pc'[s] = stage
    BY <1>a, <2>2 DEF TypeOK
  <2> QED
    BY <1>b, <1>c, <2>1, <2>2, <2>3 DEF CopyInv
<1>4. ASSUME NEW s \in Slot, DownloadPart(s) \/ SkipFile(s) PROVE CopyInv'
  BY <1>1, <1>4 DEF DownloadPart, SkipFile
<1>5. ASSUME NEW s \in Slot, QueueTimeout(s) \/ WriteStamp(s) \/ Abort(s) PROVE CopyInv'
  BY <1>b, <1>2, <1>5 DEF QueueTimeout, WriteStamp, Abort, CopyInv
<1>6. ASSUME NEW s \in Slot, Quit(s) PROVE CopyInv'
  <2>1. photos' = photos
    BY <1>6 DEF Quit
  <2>2. CASE target[s] = NoArchive
    BY <1>b, <1>2, <1>6, <2>1, <2>2 DEF Quit, CopyInv
  <2>3. CASE target[s] # NoArchive
    <3>1. pc' = [pc EXCEPT ![s] = "process"]
      BY <1>6, <2>3 DEF Quit, Goto
    <3>2. pc'[s] = "process"
      BY <1>a, <3>1 DEF TypeOK
    <3> QED
      BY <1>b, <1>c, <2>1, <3>1, <3>2 DEF CopyInv
  <2> QED
    BY <2>2, <2>3
<1>7. ASSUME NEW s \in Slot, ChooseDest(s) PROVE CopyInv'
  <2>1. PICK p \in todo[s] :
            /\ Present(s, p) /\ ~StoredAlready(s, p)
            /\ \E q \in IF p \in DOMAIN photos THEN FreeCopies(p) ELSE {p} :
                    dest' = [dest EXCEPT ![s] = q]
            /\ file' = [file EXCEPT ![s] = p]
    BY <1>7 DEF ChooseDest
  <2>2. PICK q \in IF p \in DOMAIN photos THEN FreeCopies(p) ELSE {p} : dest' = [dest EXCEPT ![s] = q]
    BY <2>1
  <2>3. file'[s] = p /\ dest'[s] = q /\ UNCHANGED <<photos, target>>
    BY <1>a, <1>7, <2>1, <2>2 DEF TypeOK, ChooseDest
  <2>4. p \notin DOMAIN photos => q = p
    BY <2>2
  <2>5. p \in DOMAIN photos => (\E k \in Nat : q = Append(p, k)) /\ photos[p] # Export[target[s]][p]
    BY <2>1, <2>2 DEF FreeCopies, StoredAlready
  <2>6. Compared(s)'
    BY <2>3, <2>4, <2>5 DEF Compared
  <2> QED
    BY <1>b, <2>3, <2>6 DEF CopyInv, OneSlot
<1>8. ASSUME NEW s \in Slot, CopyFile(s) PROVE CopyInv'
  <2>1. pc[s] = "copy" /\ photos' = Written(dest[s], Export[target[s]][file[s]]) /\ pc' = [pc EXCEPT ![s] = "merge"]
    BY <1>8 DEF CopyFile, Goto
  <2>2. file[s] \in Path /\ dest[s] \notin DOMAIN photos /\ pc'[s] = "merge"
    BY <1>a, <2>1 DEF TypeInv, TypeOK, Progress
  <2>3. Copies'
    BY <1>a, <2>1, <2>2, WrittenCopies
  <2> QED
    BY <1>c, <2>1, <2>2, <2>3 DEF CopyInv
<1>9. ASSUME NEW s \in Slot, Raise(s) \/ Crash(s) PROVE CopyInv'
  <2>1. Exit(s) /\ photos' \in (IF pc[s] = "copy" THEN {photos, Written(dest[s], TornFile)} ELSE {photos})
    BY <1>9 DEF Raise, Crash, MayTear
  <2>2. CASE pc[s] = "copy" /\ photos' = Written(dest[s], TornFile)
    <3>1. file[s] \in Path /\ dest[s] \notin DOMAIN photos
      BY <1>a, <2>2 DEF TypeInv, Progress
    <3>2. Copies'
      BY <1>a, <2>2, <3>1, WrittenCopies
    <3> QED
      BY <1>2, <2>1, <3>2 DEF CopyInv
  <2>3. CASE photos' = photos
    BY <1>b, <1>2, <2>1, <2>3 DEF CopyInv
  <2> QED
    BY <2>1, <2>2, <2>3
<1>10. ASSUME NEW a \in Archive, Publish(a) \/ Expire(a) PROVE CopyInv'
  BY <1>1, <1>10 DEF Publish, Expire
<1>11. ASSUME ExpireSession \/ UNCHANGED vars PROVE CopyInv'
  BY <1>1, <1>11 DEF ExpireSession
<1> QED
  BY <1>3, <1>4, <1>5, <1>6, <1>7, <1>8, <1>9, <1>10, <1>11 DEF Next, Step

\* backup.py:488-521: merging an archive again, or after a merge that was cut off, makes
\* no renamed copy of a photo that is stored under its own path.
THEOREM CopiesAreNeeded == ASSUME OneSlot PROVE Spec => []CopiesDiffer
<1>1. CopyInv => CopiesDiffer
  <2> SUFFICES ASSUME CopyInv, NEW p \in Path, NEW k \in 1..Cardinality(DOMAIN photos),
                      Append(p, k) \notin Path, Append(p, k) \in DOMAIN photos,
                      photos[Append(p, k)] # TornFile
               PROVE  photos[Append(p, k)] # photos[p]
    BY DEF CopiesDiffer
  <2>1. k \in Nat
    OBVIOUS
  <2> QED
    BY <2>1 DEF CopyInv, Copies
<1> QED
  BY BackupInvariant, CopyInit, CopyStep, <1>1, PTL DEF Spec
=============================================================================
