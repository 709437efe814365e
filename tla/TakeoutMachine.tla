-------------------------- MODULE TakeoutMachine --------------------------
(***************************************************************************)
(* One run of TakeoutMachine, the queued state machine of backup-server/   *)
(* backup.py, from model.assess_manage_page() to the saving of the cookies *)
(* or the exception that ends the run.                                     *)
(*                                                                         *)
(* The machine is the one of the `transitions` library with queued=True:   *)
(* an event triggered by a callback is appended to the queue, the head of  *)
(* the queue is the event being processed, and an exception clears it.     *)
(* An event is processed in phases: "trigger" (the source is checked,      *)
(* prepare_event runs ensure_auth, the conditions are tried in order, the  *)
(* before callback runs and the state is set), "enter" (on_enter runs) and *)
(* "after".                                                                *)
(*                                                                         *)
(* The pages are abstracted to what the program reads in them, and a call  *)
(* of download_with_reauth to its outcome (PartDownload has its steps).    *)
(***************************************************************************)
EXTENDS Naturals, Sequences, FiniteSets

CONSTANTS
    Archive,            \* archives, named by their timestamps
    Parts,              \* Parts[a]: the parts of archive a, in the order of its page
    DOWNLOAD_ATTEMPTS,  \* attempts at each part
    NoArchive, NoStamp

ASSUME TakeoutAssumption ==
    /\ Archive \subseteq Nat /\ IsFiniteSet(Archive)
    /\ Parts \in [Archive -> Seq(Nat)]
    /\ DOWNLOAD_ATTEMPTS \in Nat \ {0}
    /\ NoArchive \notin Archive
    /\ NoStamp \notin Archive

VARIABLES
    \* Takeout
    page,           \* the links on the manage page, newest archive first
    available,      \* the archives whose page still offers a download
    exporting,      \* an export was being made when the run began
    requested,      \* number of exports that this run has requested
    \* the model
    state,          \* model.state
    last_snapshot_timestamp,
    fresh,          \* the last snapshot is younger than BACKUP_FRESHNESS_INTERVAL
    target_archive,
    archive_links,
    archive_parts,
    \* the machine
    queue,          \* the events that have been triggered, the current one first
    phase,          \* of the current event
    after,          \* the event that its transition triggers at its end, or ""
    \* local to the callbacks
    links,          \* links that find_most_recent_archive has not visited yet
    rest,           \* parts that download_archive_parts has not downloaded yet
    attempt,        \* at the first of them
    got,            \* parts that have been moved into the archive's directory
    outcome         \* of the run: "running", "saved" or "raised"

run == <<last_snapshot_timestamp, fresh, page, exporting>>
model == <<target_archive, archive_links, archive_parts>>
callback == <<links, rest, attempt, got>>
vars == <<run, available, requested, state, model, queue, phase, after, callback, outcome>>

-----------------------------------------------------------------------------
(* The machine's definition *)

TakeoutStates == {"on_manage", "export_in_progress", "backup_fresh", "selecting_archive",
                  "requesting_archive", "on_archive", "downloading", "complete"}

Final == {"export_in_progress", "backup_fresh", "requesting_archive", "complete"}

\* condition "" always holds; after "" triggers nothing.
T(source, dest, condition, next) ==
    [source |-> source, dest |-> dest, condition |-> condition, after |-> next]

\* (Mutant: without a newer archive the manage page is assessed again.)
select_archive_again == <<
    T("selecting_archive", "on_archive", "has_newer_archive", "start_download"),
    T("selecting_archive", "on_manage", "", "assess_manage_page")>>
select_archive == <<
    T("selecting_archive", "on_archive", "has_newer_archive", "start_download"),
    T("selecting_archive", "requesting_archive", "", "")>>

Transitions == [
    assess_manage_page |-> <<
        T("on_manage", "export_in_progress", "is_export_running", ""),
        T("on_manage", "backup_fresh", "is_backup_fresh", ""),
        T("on_manage", "selecting_archive", "has_archive_links", "select_archive"),
        T("on_manage", "requesting_archive", "", "")>>,
    select_archive |-> select_archive,
    start_download |-> <<T("on_archive", "downloading", "", "finish_download")>>,
    finish_download |-> <<T("downloading", "complete", "", "")>>,
    quota_exceeded |-> <<T("downloading", "requesting_archive", "", "")>>]

Event == DOMAIN Transitions

TypeOK ==
    /\ page \in Seq(Archive)
    /\ available \subseteq Archive
    /\ exporting \in BOOLEAN
    /\ requested \in Nat
    /\ state \in TakeoutStates
    /\ last_snapshot_timestamp \in Nat \cup {NoStamp}
    /\ fresh \in BOOLEAN
    /\ target_archive \in Archive \cup {NoArchive}
    /\ archive_links \in Seq(Archive)
    /\ archive_parts \in Seq(Nat)
    /\ queue \in Seq(Event)
    /\ phase \in {"trigger", "enter", "after"}
    /\ after \in Event \cup {""}
    /\ links \in Seq(Archive)
    /\ rest \in Seq(Nat)
    /\ attempt \in 1..DOWNLOAD_ATTEMPTS
    /\ got \subseteq Nat
    /\ outcome \in {"running", "saved", "raised"}

\* Sequences of archives as the manage page shows them.
Pages == {s \in UNION {[1..n -> Archive] : n \in 0..Cardinality(Archive)} :
            \A i, j \in DOMAIN s : i < j => s[i] > s[j]}

Members(s) == {s[i] : i \in DOMAIN s}

Init ==
    /\ page \in Pages
    /\ available \in SUBSET Members(page)
    /\ exporting \in BOOLEAN
    /\ requested = 0
    /\ state = "on_manage"
    /\ last_snapshot_timestamp \in Archive \cup {NoStamp}
    /\ fresh \in IF last_snapshot_timestamp = NoStamp THEN {FALSE} ELSE BOOLEAN
    /\ target_archive = NoArchive
    /\ archive_links = <<>>
    /\ archive_parts = <<>>
    /\ queue = <<"assess_manage_page">>
    /\ phase = "trigger"
    /\ after = ""
    /\ links = <<>>
    /\ rest = <<>>
    /\ attempt = 1
    /\ got = {}
    /\ outcome = "running"

\* Takeout stops to offer an archive, at any time.
Expire(a) ==
    /\ a \in available
    /\ available' = available \ {a}
    /\ UNCHANGED <<run, requested, state, model, queue, phase, after, callback, outcome>>

-----------------------------------------------------------------------------
(* The library: how an event is processed *)

InPhase(p) == outcome = "running" /\ queue # <<>> /\ phase = p

\* The outcome of a condition when shown are the links that has_archive_links reads.
Holds(condition, shown) ==
    CASE condition = "is_export_running" -> exporting
      [] condition = "is_backup_fresh" -> fresh
      [] condition = "has_archive_links" -> shown # <<>>
      [] condition = "has_newer_archive" -> target_archive # NoArchive
      [] OTHER -> TRUE

\* The transitions that are taken from the current state: the first one whose
\* condition holds.  (Mutant: any one whose condition holds.)
AnyMatch(event, shown) ==
    {i \in DOMAIN Transitions[event] : /\ Transitions[event][i].source = state
                                       /\ Holds(Transitions[event][i].condition, shown)}
FirstMatch(event, shown) ==
    {i \in DOMAIN Transitions[event] : /\ Transitions[event][i].source = state
                                       /\ Holds(Transitions[event][i].condition, shown)
                                       /\ \A j \in 1..(i - 1) : ~Holds(Transitions[event][j].condition, shown)}

\* A transition begins.
Fire(t, shown) ==
    /\ archive_links' = IF t.dest = "selecting_archive" THEN shown ELSE archive_links
    /\ links' = IF t.dest = "selecting_archive" THEN shown ELSE links
    /\ rest' = IF t.dest = "downloading" THEN archive_parts ELSE rest
    /\ got' = IF t.dest = "downloading" THEN {} ELSE got
    /\ state' = t.dest
    /\ after' = t.after
    /\ phase' = "enter"
    /\ UNCHANGED <<run, available, requested, target_archive, archive_parts, queue, attempt, outcome>>

\* has_archive_links may wait in vain for the page's links.
Trigger ==
    /\ InPhase("trigger")
    /\ \E shown \in IF state = "on_manage" THEN {page, <<>>} ELSE {archive_links} :
        \E i \in FirstMatch(Head(queue), shown) : Fire(Transitions[Head(queue)][i], shown)

Enqueue(event) == IF event = "" THEN queue ELSE Append(queue, event)

\* The after callback triggers the next event, and the current one is done.
\* (Mutant: the callback is not called.)
DropAfter == queue' = Tail(queue)
RunAfter == queue' = Tail(Enqueue(after))

After ==
    /\ InPhase("after")
    /\ RunAfter
    /\ after' = ""
    /\ phase' = "trigger"
    /\ UNCHANGED <<run, available, requested, state, model, callback, outcome>>

\* on_enter is running, or has run.
Entering(s) == InPhase("enter") /\ state = s
Entered == phase' = "after" /\ UNCHANGED <<run, available, state, after, outcome>>

NothingToEnter ==
    /\ \E s \in {"on_manage", "export_in_progress", "backup_fresh", "complete"} : Entering(s)
    /\ Entered
    /\ UNCHANGED <<requested, model, queue, callback>>

-----------------------------------------------------------------------------
(* The callbacks *)

IsNewer(a) == IF last_snapshot_timestamp = NoStamp THEN TRUE ELSE a > last_snapshot_timestamp

\* find_most_recent_archive looks at one archive: its page has no download
\* button, or its first part is downloaded to learn its timestamp, or the end
\* of the list is reached.
SkipLink ==
    /\ Entering("selecting_archive")
    /\ links # <<>>
    /\ Head(links) \in available => ~IsNewer(Head(links))
    /\ links' = Tail(links)
    /\ UNCHANGED <<run, available, requested, state, model, queue, phase, after, rest, attempt, got, outcome>>

\* (Mutant: the search goes on after a newer archive has been found.)
SearchOn == links' = Tail(links) /\ UNCHANGED <<run, available, state, phase, after, outcome>>
StopSearch == links' = <<>> /\ Entered

FoundArchive ==
    /\ Entering("selecting_archive")
    /\ links # <<>>
    /\ Head(links) \in available
    /\ IsNewer(Head(links))
    /\ target_archive' = Head(links)
    /\ StopSearch
    /\ UNCHANGED <<requested, archive_links, archive_parts, queue, rest, attempt, got>>

NoMoreLinks ==
    /\ Entering("selecting_archive")
    /\ links = <<>>
    /\ Entered
    /\ UNCHANGED <<requested, model, queue, callback>>

RequestNewArchive ==
    /\ Entering("requesting_archive")
    /\ requested' = requested + 1
    /\ Entered
    /\ UNCHANGED <<model, queue, callback>>

\* The links to the parts of the target, of which the page of an expired archive has none.
ListedParts == IF target_archive \in available THEN Parts[target_archive] ELSE <<>>

HandleArchivePage ==
    /\ Entering("on_archive")
    /\ archive_parts' = ListedParts
    /\ Entered
    /\ UNCHANGED <<requested, target_archive, archive_links, queue, callback>>

PartDownloaded ==
    /\ Entering("downloading")
    /\ rest # <<>>
    /\ target_archive \in available
    /\ got' = got \cup {Head(rest)}
    /\ rest' = Tail(rest)
    /\ attempt' = 1
    /\ UNCHANGED <<run, available, requested, state, model, queue, phase, after, links, outcome>>

\* (Mutant: one attempt too many.)
AttemptTooMany == attempt <= DOWNLOAD_ATTEMPTS
AttemptLeft == attempt < DOWNLOAD_ATTEMPTS

\* The link did not show or the download timed out: the page is opened anew,
\* which lists its parts again, but the loop goes on with the old list.
PartTimeout ==
    /\ Entering("downloading")
    /\ rest # <<>>
    /\ AttemptLeft
    /\ attempt' = attempt + 1
    /\ archive_parts' = ListedParts
    /\ UNCHANGED <<run, available, requested, state, target_archive, archive_links, queue, phase, after,
                   links, rest, got, outcome>>

\* The quota dialog: quota_exceeded() is queued behind the current event.
\* (Mutant: the exception is only caught.)
IgnoreQuota == queue' = queue
TriggerQuota == queue' = Append(queue, "quota_exceeded")

QuotaExceeded ==
    /\ Entering("downloading")
    /\ rest # <<>>
    /\ target_archive \in available
    /\ TriggerQuota
    /\ rest' = <<>>
    /\ Entered
    /\ UNCHANGED <<requested, model, links, attempt, got>>

AllDownloaded ==
    /\ Entering("downloading")
    /\ rest = <<>>
    /\ Entered
    /\ UNCHANGED <<requested, model, queue, callback>>

-----------------------------------------------------------------------------
(* How main() goes on *)

\* The queue is empty, assess_manage_page() returns and the cookies are saved.
SaveCookies ==
    /\ outcome = "running"
    /\ queue = <<>>
    /\ outcome' = "saved"
    /\ UNCHANGED <<run, available, requested, state, model, queue, phase, after, callback>>

\* Any callback may raise: a page does not load, the login fails, the Grid is
\* gone, there is no quota left to look at an archive.  An event that has no
\* transition from the current state raises too (MachineError), and so does
\* the last attempt at a part.
Raise ==
    /\ outcome = "running"
    /\ outcome' = "raised"
    /\ queue' = <<>>
    /\ UNCHANGED <<run, available, requested, state, model, phase, after, callback>>

Step ==
    \/ Trigger \/ After
    \/ NothingToEnter \/ RequestNewArchive \/ HandleArchivePage
    \/ SkipLink \/ FoundArchive \/ NoMoreLinks
    \/ PartDownloaded \/ PartTimeout \/ QuotaExceeded \/ AllDownloaded
    \/ SaveCookies \/ Raise

Next == Step \/ \E a \in Archive : Expire(a)

Spec == Init /\ [][Next]_vars

\* Every call the callbacks make returns or raises.
FairSpec == Spec /\ WF_vars(Step)

-----------------------------------------------------------------------------
(* Properties *)

\* A run that completes has downloaded the whole target archive, however often
\* a part had to be tried again and even if the quota was hit on the way.  Or
\* it has nothing at all, when the archive expired before its parts were
\* listed: main() then stops at backup.py:639.
AllOrNothing == state = "complete" => got \in {{}, Members(Parts[target_archive])}

\* The search for an archive ends with the newest one that can be had: what
\* the page listed and still offers is not newer.
TargetIsNewest ==
    target_archive # NoArchive =>
        \A a \in available \cap Members(archive_links) : a <= target_archive

\* A new export is requested at most once per run, and only if the manage page
\* called for it: no export was running, the last backup is not fresh, and every
\* newer archive that was listed and can still be had was tried.
RequestOnlyIfNeeded ==
    requested > 0 =>
        /\ requested = 1 /\ ~exporting /\ ~fresh
        /\ \A a \in available \cap Members(archive_links) : IsNewer(a) => target_archive # NoArchive

\* Cookies are saved (and the run counts as successful) only when the machine
\* has come to rest in a final state.
SavedWhenSettled == outcome = "saved" => state \in Final /\ queue = <<>>

\* Every run ends, with its cookies saved or with an exception.
RunTerminates == <>(outcome # "running")

\* requesting_archive is declared final (backup.py:116): no event that was
\* queued is left to be processed when the machine gets there.
FinalIsFinal == state \in Final /\ phase = "after" => Len(queue) <= 1
=============================================================================
