----------------------------- MODULE BackupRun -----------------------------
(***************************************************************************)
(* The life of backup-server/backup.py's main(): the runs that a scheduler *)
(* starts, the files they leave to each other (the marker photos/          *)
(* .timestamp, the cookie jar .auth_encoded, the downloads and photos      *)
(* folders), the one browser session of the Grid that they share, and the  *)
(* crashes and errors that stop a run between any two steps.               *)
(*                                                                         *)
(* A slot is a place where a run can be in progress: with one slot runs    *)
(* follow one another, with two they may overlap, which execute_backup.sh  *)
(* does not prevent.  The state machine that main() drives is cut down     *)
(* here to what it does to the files (TakeoutMachine has its transitions): *)
(* a run either settles without an archive or selects one and downloads it.*)
(***************************************************************************)
EXTENDS Naturals, Sequences, FiniteSets

CONSTANTS
    Slot,        \* places where a run may be in progress
    Archive,     \* archives, named by the timestamp in their file names
    Path,        \* relative paths of the files that archives export
    Content,     \* contents of files
    Export,      \* Export[a]: the files that processing archive a yields
    MaxFaults,   \* bound on the number of crashes and raised exceptions
    NoSlot, NoArchive, NoStamp, TornStamp, TornFile, Leaked

\* Archives are ordered by their timestamps and hold files; the sentinels are
\* not values that the program handles.
ASSUME BackupAssumption ==
    /\ Archive \subseteq Nat
    /\ Path \subseteq Seq(Nat)
    /\ Export \in [Archive -> UNION {[D -> Content] : D \in SUBSET Path}]
    /\ \A a \in Archive : DOMAIN Export[a] # {}
    /\ MaxFaults \in Nat
    /\ NoArchive \notin Archive
    /\ {NoStamp, TornStamp} \cap Archive = {}
    /\ NoStamp # TornStamp
    /\ TornFile \notin Content
    /\ {NoSlot, Leaked} \cap Slot = {}
    /\ NoSlot # Leaked

VARIABLES
    \* files shared by all runs
    stamp,      \* photos/.timestamp
    jar,        \* .auth_encoded: "ok" or "torn"
    downloads,  \* downloads/: the archive directory in it, its zips and its export
    photos,     \* photos/: path -> content
    \* the outside
    available,  \* archives that Takeout offers for download
    published,  \* archives that Takeout has offered so far
    session,    \* which run holds the Grid's only session
    faults,     \* crashes and exceptions so far
    \* local state of the runs
    pc,         \* what the run does next
    last,       \* last_snapshot_timestamp
    target,     \* target_archive
    todo,       \* files still to download, or still to merge
    file,       \* the file that merge_into_backup is copying
    dest        \* the path that it is copying it to

shared == <<stamp, jar, downloads, photos>>
outside == <<available, published, session, faults>>
locals == <<pc, last, target, todo, file, dest>>
vars == <<shared, outside, locals>>

NoDownloads == [dir |-> NoArchive, zips |-> {}, export |-> {}]

Stage == {"idle", "queued", "opened", "assess", "clean", "download", "save", "quit",
          "process", "merge", "copy", "stamp"}

TypeOK ==
    /\ stamp \in Archive \cup {NoStamp, TornStamp}
    /\ jar \in {"ok", "torn"}
    /\ downloads \in [dir : Archive \cup {NoArchive}, zips : SUBSET Path, export : SUBSET Path]
    /\ DOMAIN photos \subseteq Seq(Nat)
    /\ \A p \in DOMAIN photos : photos[p] \in Content \cup {TornFile}
    /\ available \subseteq published
    /\ published \subseteq Archive
    /\ session \in Slot \cup {NoSlot, Leaked}
    /\ faults \in 0..MaxFaults
    /\ pc \in [Slot -> Stage]
    /\ last \in [Slot -> Archive \cup {NoStamp}]
    /\ target \in [Slot -> Archive \cup {NoArchive}]
    /\ todo \in [Slot -> SUBSET Path]
    /\ file \in [Slot -> Path \cup {<<>>}]
    /\ dest \in [Slot -> Seq(Nat)]

Init ==
    /\ stamp = NoStamp
    /\ jar = "ok"
    /\ downloads = NoDownloads
    /\ photos = [p \in {} |-> TornFile]
    /\ available = {}
    /\ published = {}
    /\ session = NoSlot
    /\ faults = 0
    /\ pc = [s \in Slot |-> "idle"]
    /\ last = [s \in Slot |-> NoStamp]
    /\ target = [s \in Slot |-> NoArchive]
    /\ todo = [s \in Slot |-> {}]
    /\ file = [s \in Slot |-> <<>>]
    /\ dest = [s \in Slot |-> <<>>]

-----------------------------------------------------------------------------
\* Takeout finishes exports in the order of their timestamps, and drops them later.

Publish(a) ==
    /\ \A b \in Archive : b < a <=> b \in published
    /\ a \notin published
    /\ published' = published \cup {a}
    /\ available' = available \cup {a}
    /\ UNCHANGED <<shared, session, faults, locals>>

Expire(a) ==
    /\ a \in available
    /\ available' = available \ {a}
    /\ UNCHANGED <<shared, published, session, faults, locals>>

\* The Grid closes a session that nobody has used for its session timeout.
ExpireSession ==
    /\ session = Leaked
    /\ session' = NoSlot
    /\ UNCHANGED <<shared, available, published, faults, locals>>

-----------------------------------------------------------------------------
\* The steps of a run.

Goto(s, stage) == pc' = [pc EXCEPT ![s] = stage]

\* The process ends, and what it knew with it.
Exit(s) ==
    /\ Goto(s, "idle")
    /\ last' = [last EXCEPT ![s] = NoStamp]
    /\ target' = [target EXCEPT ![s] = NoArchive]
    /\ todo' = [todo EXCEPT ![s] = {}]
    /\ file' = [file EXCEPT ![s] = <<>>]
    /\ dest' = [dest EXCEPT ![s] = <<>>]

\* strptime accepts what the marker file holds.
MarkerParsesAlways == TRUE
MarkerParses == stamp # TornStamp

\* A marker that does not parse raises here, and the run changes nothing.
Start(s) ==
    /\ pc[s] = "idle"
    /\ MarkerParses
    /\ last' = [last EXCEPT ![s] = stamp]
    /\ Goto(s, "queued")
    /\ UNCHANGED <<shared, outside, target, todo, file, dest>>

\* webdriver.Remote returns when the Grid, which runs one session at a time
\* (max-sessions = 1), has created one for this run ...
OpenSession(s) ==
    /\ pc[s] = "queued"
    /\ session = NoSlot
    /\ session' = s
    /\ Goto(s, "opened")
    /\ UNCHANGED <<shared, available, published, faults, last, target, todo, file, dest>>

\* ... or raises when the request has waited in the Grid's queue for too long.
QueueTimeout(s) ==
    /\ pc[s] = "queued"
    /\ session # NoSlot
    /\ Exit(s)
    /\ UNCHANGED <<shared, outside>>

LoadCookies(s) ==
    /\ pc[s] = "opened"
    /\ jar = "ok"
    /\ Goto(s, "assess")
    /\ UNCHANGED <<shared, outside, last, target, todo, file, dest>>

\* export_in_progress, backup_fresh or requesting_archive: nothing to download.
Settle(s) ==
    /\ pc[s] = "assess"
    /\ Goto(s, "save")
    /\ UNCHANGED <<shared, outside, last, target, todo, file, dest>>

\* (Mutants: any archive will do; the first backup is never made.)
IsNewerAlways(a, marker) == TRUE
IsNewerThanSome(a, marker) == IF marker = NoStamp THEN FALSE ELSE a > marker
IsNewer(a, marker) == IF marker = NoStamp THEN TRUE ELSE a > marker

SelectArchive(s) ==
    /\ pc[s] = "assess"
    /\ \E a \in available :
        /\ IsNewer(a, last[s])
        /\ target' = [target EXCEPT ![s] = a]
    /\ Goto(s, "clean")
    /\ UNCHANGED <<shared, outside, last, todo, file, dest>>

\* The archive's page lists its parts, or none if the archive has expired;
\* clean_downloads_dir empties downloads/ and creates the archive's directory.
CleanDownloads(s) ==
    /\ pc[s] = "clean"
    /\ downloads' = [NoDownloads EXCEPT !.dir = target[s]]
    /\ todo' = [todo EXCEPT ![s] = IF target[s] \in available THEN DOMAIN Export[target[s]] ELSE {}]
    /\ Goto(s, "download")
    /\ UNCHANGED <<stamp, jar, photos, outside, last, target, file, dest>>

\* One part of the archive is downloaded and moved into the archive's directory.
\* A part is identified with the file that processing it yields.
DownloadPart(s) ==
    /\ pc[s] = "download"
    /\ downloads.dir = target[s]
    /\ target[s] \in available
    /\ \E p \in todo[s] :
        /\ downloads' = [downloads EXCEPT !.zips = @ \cup {p}]
        /\ todo' = [todo EXCEPT ![s] = @ \ {p}]
    /\ UNCHANGED <<stamp, jar, photos, outside, pc, last, target, file, dest>>

FinishDownload(s) ==
    /\ pc[s] = "download"
    /\ todo[s] = {}
    /\ Goto(s, "save")
    /\ UNCHANGED <<shared, outside, last, target, todo, file, dest>>

SaveCookies(s) ==
    /\ pc[s] = "save"
    /\ jar' = "ok"
    /\ Goto(s, "quit")
    /\ UNCHANGED <<stamp, downloads, photos, outside, last, target, todo, file, dest>>

\* driver.quit() frees the session if the run holds it.  When it raises, that is logged
\* and forgotten, and the session is left to the Grid's timeout.
\* (Mutant: the driver is dropped without it.)
KeepSession(s) == session' = session
ReleaseSession(s) == session' \in IF session = s THEN {NoSlot, Leaked} ELSE {session}

\* The run goes on whether or not quit() raises: from here on it only works on files, and
\* another run may get the session.
Quit(s) ==
    /\ pc[s] = "quit"
    /\ ReleaseSession(s)
    /\ IF target[s] = NoArchive
       THEN Exit(s)
       ELSE Goto(s, "process") /\ UNCHANGED <<last, target, todo, file, dest>>
    /\ UNCHANGED <<shared, available, published, faults>>

\* The zips in the directory are unpacked, gpth sorts them into export/, and
\* merge_into_backup lists that folder.
Process(s) ==
    /\ pc[s] = "process"
    /\ downloads.dir = target[s]
    /\ downloads.zips # {}
    /\ downloads' = [downloads EXCEPT !.export = downloads.zips]
    /\ todo' = [todo EXCEPT ![s] = downloads.zips]
    /\ Goto(s, "merge")
    /\ UNCHANGED <<stamp, jar, photos, outside, last, target, file, dest>>

Present(s, p) == downloads.dir = target[s] /\ p \in downloads.export

\* The file's path is stored with the same size and the same hash.
\* (Mutants: a path that exists is enough; the contents are not compared.)
StoredUnderPath(s, p) == p \in DOMAIN photos
NeverStored(s, p) == FALSE
StoredAlready(s, p) == p \in DOMAIN photos /\ photos[p] = Export[target[s]][p]

\* The first "stem (k)suffix" that is not taken.
\* (Mutant: always the first one.)
FirstCopies(p) == {Append(p, 1)}
FreeCopies(p) ==
    {q \in {Append(p, k) : k \in 1..(Cardinality(DOMAIN photos) + 1)} :
        /\ q \notin DOMAIN photos
        /\ \A j \in 1..(q[Len(q)] - 1) : Append(p, j) \in DOMAIN photos}

\* The file exists no more (is_file() is false), or its path is stored with the same content.
SkipFile(s) ==
    /\ pc[s] = "merge"
    /\ \E p \in todo[s] :
        /\ Present(s, p) => StoredAlready(s, p)
        /\ todo' = [todo EXCEPT ![s] = @ \ {p}]
    /\ UNCHANGED <<shared, outside, pc, last, target, file, dest>>

\* The path the file is to be copied to is chosen, and nothing is there yet.
ChooseDest(s) ==
    /\ pc[s] = "merge"
    /\ \E p \in todo[s] :
        /\ Present(s, p)
        /\ ~StoredAlready(s, p)
        /\ \E q \in IF p \in DOMAIN photos THEN FreeCopies(p) ELSE {p} :
                dest' = [dest EXCEPT ![s] = q]
        /\ file' = [file EXCEPT ![s] = p]
    /\ Goto(s, "copy")
    /\ UNCHANGED <<shared, outside, last, target, todo>>

\* photos with content c written to path p.
Written(p, c) == [q \in DOMAIN photos \cup {p} |-> IF q = p THEN c ELSE photos[q]]

CopyFile(s) ==
    /\ pc[s] = "copy"
    /\ Present(s, file[s])
    /\ photos' = Written(dest[s], Export[target[s]][file[s]])
    /\ todo' = [todo EXCEPT ![s] = @ \ {file[s]}]
    /\ file' = [file EXCEPT ![s] = <<>>]
    /\ dest' = [dest EXCEPT ![s] = <<>>]
    /\ Goto(s, "merge")
    /\ UNCHANGED <<stamp, jar, downloads, outside, last, target>>

\* shutil.rmtree of the archive's directory, whoever filled it.
RemoveDownloads(s) ==
    /\ pc[s] = "merge"
    /\ todo[s] = {}
    /\ downloads.dir = target[s]
    /\ downloads' = NoDownloads
    /\ Goto(s, "stamp")
    /\ UNCHANGED <<stamp, jar, photos, outside, last, target, todo, file, dest>>

WriteStamp(s) ==
    /\ pc[s] = "stamp"
    /\ stamp' = target[s]
    /\ Exit(s)
    /\ UNCHANGED <<jar, downloads, photos, outside>>

-----------------------------------------------------------------------------
\* How a run ends early.

\* What the run's own code finds wrong and raises: a jar that does not parse, an
\* archive that has expired, a directory or file that another run has taken away.
\* (Mutant: a run that has no file to copy waits for it.)
WaitForFile(s) ==
    \/ pc[s] = "opened" /\ jar = "torn"
    \/ pc[s] = "download" /\ downloads.dir # target[s] /\ todo[s] # {}
    \/ pc[s] = "download" /\ target[s] \notin available /\ todo[s] # {}
    \/ pc[s] = "process" /\ (downloads.dir # target[s] \/ downloads.zips = {})
MustRaise(s) ==
    \/ pc[s] = "opened" /\ jar = "torn"
    \/ pc[s] = "download" /\ downloads.dir # target[s] /\ todo[s] # {}
    \/ pc[s] = "download" /\ target[s] \notin available /\ todo[s] # {}
    \/ pc[s] = "process" /\ (downloads.dir # target[s] \/ downloads.zips = {})
    \/ pc[s] = "copy" /\ ~Present(s, file[s])
    \/ pc[s] = "merge" /\ todo[s] = {} /\ downloads.dir # target[s]

Abort(s) ==
    /\ MustRaise(s)
    /\ ReleaseSession(s)
    /\ Exit(s)
    /\ UNCHANGED <<shared, available, published, faults>>

\* A write that is cut off may leave the file it was writing torn: neither
\* write_text nor copy2 goes through a temporary file.
MayTear(s) ==
    /\ jar' \in IF pc[s] = "save" THEN {jar, "torn"} ELSE {jar}
    /\ stamp' \in IF pc[s] = "stamp" THEN {stamp, TornStamp} ELSE {stamp}
    /\ photos' \in IF pc[s] = "copy" THEN {photos, Written(dest[s], TornFile)} ELSE {photos}

\* Any call may raise (network, Grid, gpth, a full disk): the finally block
\* quits the driver.
Raise(s) ==
    /\ pc[s] # "idle"
    /\ faults < MaxFaults
    /\ faults' = faults + 1
    /\ MayTear(s)
    /\ ReleaseSession(s)
    /\ Exit(s)
    /\ UNCHANGED <<downloads, available, published>>

\* The process is killed: nothing quits the driver, and the Grid still has its session.
Crash(s) ==
    /\ pc[s] # "idle"
    /\ faults < MaxFaults
    /\ faults' = faults + 1
    /\ MayTear(s)
    /\ session' = IF session = s THEN Leaked ELSE session
    /\ Exit(s)
    /\ UNCHANGED <<downloads, available, published>>

-----------------------------------------------------------------------------
Step(s) ==
    \/ OpenSession(s) \/ QueueTimeout(s) \/ LoadCookies(s)
    \/ Settle(s) \/ SelectArchive(s)
    \/ CleanDownloads(s) \/ DownloadPart(s) \/ FinishDownload(s)
    \/ SaveCookies(s) \/ Quit(s) \/ Process(s)
    \/ SkipFile(s) \/ ChooseDest(s) \/ CopyFile(s)
    \/ RemoveDownloads(s) \/ WriteStamp(s) \/ Abort(s)

Next ==
    \/ \E a \in Archive : Publish(a) \/ Expire(a)
    \/ ExpireSession
    \/ \E s \in Slot : Start(s) \/ Step(s) \/ Raise(s) \/ Crash(s)

Spec == Init /\ [][Next]_vars

\* A run that has begun goes on: every call it makes returns or times out.
\* The scheduler starts runs again and again, the Grid closes a leaked session,
\* and a run does not settle for ever when it could select an archive: an
\* export that is being made ends, and a fresh backup gets stale.
Fairness ==
    /\ WF_vars(ExpireSession)
    /\ \A s \in Slot : /\ WF_vars(Start(s))
                       /\ WF_vars(Step(s))
                       /\ SF_vars(SelectArchive(s))

FairSpec == Spec /\ Fairness

-----------------------------------------------------------------------------
(* Properties *)

\* The contents that the backup folder holds, torn files aside.
Stored == {photos[p] : p \in DOMAIN photos} \ {TornFile}

Needed == [a \in Archive |-> {Export[a][p] : p \in DOMAIN Export[a]}]

\* "successfully backed up up to T" (backup.py:682): once the marker names an
\* archive, every photo that archive exports is in the backup folder.
StampMeansStored == stamp \in Archive => Needed[stamp] \subseteq Stored

\* A photo that has been stored is never overwritten or lost, whatever is
\* merged later and wherever a run is cut off.
NothingForgotten ==
    [][\A p \in DOMAIN photos : photos[p] # TornFile =>
            p \in DOMAIN photos' /\ photos'[p] = photos[p]]_vars

\* Merging again what is stored already under its own path makes no renamed
\* copy of it: a copy differs from the original it stands beside.
CopiesDiffer ==
    \A p \in Path, k \in 1..Cardinality(DOMAIN photos) :
        LET q == Append(p, k) IN
        (q \notin Path /\ q \in DOMAIN photos /\ photos[q] # TornFile)
            => photos[q] # photos[p]

\* While runs do not overlap, the backup is what its owner was promised.
PB == INSTANCE PhotoBackup WITH stored <- Stored
Promise == PB!PBSpec

\* Every run comes to an end, and with it the hold on the Grid's only session,
\* even if the run is killed.
RunEnds == \A s \in Slot : pc[s] # "idle" ~> pc[s] = "idle"
SessionIsFreed == session # NoSlot ~> session = NoSlot

\* Interrupted runs are made up for: an archive that stays available is backed
\* up in the end, from whatever an earlier run has left, unless a marker or a
\* jar that was torn while being written stops all later runs.
EventuallyBackedUp ==
    \A a \in Archive :
        a \in available ~> \/ a \notin available
                           \/ stamp \in Archive /\ stamp >= a
                           \/ stamp = TornStamp
                           \/ jar = "torn"
=============================================================================
