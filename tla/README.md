# A verification of google-takeout-backup

TLA+ models of the backup of a Google Photos account through Takeout, checked
with TLC on small instances, and with proofs checked by TLAPS: every safety
property below is a theorem for all values of the constants.
File and line references are to `src/`; `backup.py` is
`src/backup-server/backup.py`, `auth.py` is `src/auth.py`.

## The system

A scheduler starts `execute_backup.sh` again and again. Each run of `backup.py`
drives one Firefox session of a Selenium Grid: it logs in with a stored cookie
jar, looks at the Takeout manage page, and waits for, requests, or downloads an
archive. A downloaded archive is unpacked, sorted by `gpth`, merged into
`photos/`, and the archive's timestamp is written to `photos/.timestamp`.

| component | state | operations | interacts with |
|---|---|---|---|
| backup run: `main`, `merge_into_backup` (backup.py) | `photos/`, `photos/.timestamp`, `.auth_encoded`, `downloads/`; per run: marker read at the start, target, position in the merge | start, open session, load and save cookies, empty downloads, unpack, merge, remove downloads, write marker, quit | other runs through the files and the Grid's one session |
| `TakeoutMachine` / `TakeoutModel` (backup.py) | machine state, event queue, target archive, links, parts | 5 events, 4 `on_enter` callbacks | manage page, archive pages, login, part download |
| part download: `download_with_reauth`, `download_archive_parts` (backup.py) | current part, attempt, names seen, files moved | click, poll, take, clear, re-authenticate, dismiss quota dialog, retry | browser downloading on its own, file stream |
| `GoogleLoginMachine` / `GoogleLoginModel` (auth.py) | machine state, event queue | 9 events, 8 `on_enter` callbacks, 8 conditions | Google's pages |
| encrypted stream: `_stream_download` (backup.py), `StreamHandler` (Java) | open file, frame counter, bytes so far | request, frames, retry | download directory, session set |
| `FileStreamPlugin` (Java) | set of known sessions, acceptor, thread pool | session created / closed, accept, close | Grid event bus |
| `BiDiClient` (Java) | socket, pending commands, fragment buffer | ensureSession, sendCommand, close, onText / onClose / onError | WebSocket threads |
| `EncryptionInterceptor` (Java) | two maps keyed by session, key pair | intercept, session created / closed, close | Grid event bus, BiDiClient |
| `CookieConverter` (Java), `sanitize_cookies` | none | conversions | interceptor, cookie jar |
| `manual_auth.py` | cookies so far, event set by the load handler | automatic or manual login, poll for cookies, save jar, quit | login machine, BiDi events on a second thread |
| scripts, containers | none | start Grid (`max-sessions = 1`), start run | |

What is hard about it:

* **Crashes and exceptions anywhere.** Nothing is written through a temporary
  file: the marker, the jar and each photo can be left torn, and downloads of
  an interrupted run are found by the next one.
* **Overlapping runs.** `execute_backup.sh` takes no lock. Only the Grid's one
  session serialises runs, and a run gives it back (backup.py:629) before it
  unpacks and merges.
* **An environment that moves by itself.** Archives expire, downloads arrive
  late or twice, pages redirect while they are being examined.
* **A queued state machine.** An event triggered in a callback waits behind the
  current one, whose `after` callback may trigger another.
* **Timeouts and retries** at every level, with state that survives a retry.
* **Threads** in the two Grid plugins and in `manual_auth.py`.

What makes each component correct: a marker that never says more than `photos/`
holds, no stored photo lost, no run that hangs or keeps the session (backup
run); the newest archive chosen, all of it downloaded, exports requested only
when needed (TakeoutMachine); every part under its own name exactly once (part
download); success only when logged in (login); the plaintext received is the
file that was asked for (stream); every command answered or failed, no client
left open (BiDi, interceptor); conversions that keep a cookie's meaning; a jar
made of fresh reads after login, and every way out of the capture quitting the driver
(manual auth).

## Modules

| module | models | role |
|---|---|---|
| `PhotoBackup` | what the owner is promised | abstract specification |
| `BackupRun` | `main()`, `merge_into_backup`, `execute_backup.sh` | core; implements `PhotoBackup` |
| `BackupRunProofs` | | theorems about `BackupRun` |
| `MCBackupRun` | | TLC instances of `BackupRun` |
| `TakeoutMachine` | one run of the state machine in backup.py | |
| `TakeoutMachineProofs` | | theorems about `TakeoutMachine` |
| `MCTakeoutMachine` | | TLC instance |
| `PartLoop` | what the download of the parts promises to the state machine | abstract specification |
| `PartDownload` | `download_with_reauth`, `download_archive_parts` against the browser | implements `PartLoop` |
| `PartDownloadProofs` | | theorems about `PartDownload` |
| `GoogleLogin` | the login machine of auth.py | |
| `GoogleLoginProofs` | | theorems about `GoogleLogin` |
| `FileStream` | `_stream_download`, `_take_completed_download`, `StreamHandler.serve`, the known sessions of `FileStreamPlugin` | |
| `StreamServer` | accept loop, thread pool and `close` of `FileStreamPlugin` | |
| `GridStream` | the attempts of the backup as connections of the plugin | composes `FileStream` and `StreamServer` |
| `GridStreamProofs` | | theorems about `FileStream` and `StreamServer`; `GridStream` keeps the ones and implements the other |
| `MCGridStream` | | TLC instance of `GridStream` |
| `SecureChannel` | `BiDiClient`, and `EncryptionInterceptor`'s session maps, threads and closing | |
| `SecureChannelProofs` | | theorems about `SecureChannel` |
| `MCSecureChannel` | | TLC instance |
| `CookieJar` | `CookieConverter`, `EncryptionInterceptor`'s ciphers, `sanitize_cookies`, `load_auth_cookies` | |
| `CookieJarProofs` | | theorems about `CookieJar` |
| `ManualAuth` | `manual_auth.py` | |
| `ManualAuthProofs` | | theorems about `ManualAuth` |

They model the same program at several grains. `BackupRun` sees a whole pass of
the state machine as "settle, or select an archive and download it";
`TakeoutMachine` has its events and callbacks but takes a part's download as one
step with an outcome; `PartDownload` has the steps of that. The interfaces are:
`BackupRun`'s `Settle`, `SelectArchive`, `CleanDownloads` (empty listing when the
archive has expired), `DownloadPart`, `FinishDownload` are the outcomes that
`TakeoutMachine` shows to be the only ones (`AllOrNothing`, `SavedWhenSettled`);
`TakeoutMachine`'s `PartDownloaded`, `PartTimeout`, `QuotaExceeded` are the
outcomes of `PartDownload`: `PartLoop` has just these steps, and `PartDownload`
implements it (`Promise`). `PartDownload`'s
`Take` hands over a whole file, is told that there is none to serve, or fails:
that is what `FileStream` shows of the stream (`AcceptedIsWhole`). `FileStream`'s
handler is one step, `Work`, of `StreamServer`; `GridStream` puts the two together. The cookies that `BackupRun` loads and saves and `ManualAuth`
captures are those of `CookieJar`, each of whose calls of the Grid is an
exchange in `SecureChannel`; `ManualAuth`'s `SignIn` is a run of `GoogleLogin`.

Some operators come in variants commented as mutants. They are not used by any
specification: each is the way a plausible mistake would change the operator
next to it, and shows that the property named for it can fail.

### BackupRun

A **slot** is a place for a run in progress: one slot makes runs follow one
another, two let them overlap. `pc[s]` is the next thing the run does:

| `pc` | code | actions |
|---|---|---|
| `idle` | | `Start`: jar, password and marker are read (563-574); a marker that does not parse stops the run before it does anything |
| `queued` | 580 | `OpenSession`, `QueueTimeout` |
| `opened` | 587-600 | `LoadCookies` |
| `assess` | 611 | `Settle`, `SelectArchive` |
| `clean`, `download` | 331-389 | `CleanDownloads`, `DownloadPart`, `FinishDownload` |
| `save`, `quit` | 613-614, 627-631 | `SaveCookies`, `Quit` |
| `process` | 633-677 | `Process` |
| `merge`, `copy` | 488-527, 679-680 | `SkipFile`, `ChooseDest`, `CopyFile`, `RemoveDownloads` |
| `stamp` | 681 | `WriteStamp` |

The merge is one step to look and one to write, since another run may come in
between. `Abort` is what the run's own code detects and raises for (expired
archive, vanished file or directory, unreadable jar). `Raise` is an exception of
any call, which goes through the `finally` that quits the driver; `Crash` is a
kill, which does not, and leaves the session to the Grid's own timeout
(`Leaked`). A `driver.quit()` that raises is logged and forgotten (627-631), so that
the run goes on without having given the session back (`ReleaseSession`).
`CleanDownloads` takes the emptying of the directory and the listing of the parts
(343-344) as one step: what may come in between, the expiry of the archive, makes
the listing empty, and may as well come before. Both may leave the file being written torn. Photos map a path to a
content; the renamed copy "stem (k)suffix" of path `p` is `Append(p, k)`, and a
later archive may itself hold a file of that name. Stored files never share a
path with a directory.

### TakeoutMachine and GoogleLogin

Both translate the `transitions` declarations of the code into tables and the
library's queued processing into a few actions: an event is prepared, its
transitions are tried in order, `on_enter` runs, and the `after` callback
queues the next event. The library itself is external. What is taken from it: with
`queued=True` an event triggered in a callback is appended; an exception clears
the queue; an event with no transition from the current state raises; in this
project `CheckingEvent` also raises when no condition holds. In `GoogleLogin`
every condition is a step, because each waits for seconds while the page may
change. A page is one of the kinds that the conditions tell apart.

### PartDownload

The browser answers a click with a login page, the quota dialog, or a file that
first appears under an empty final name or a `.part` name, and fills it in its
own time. The program sees names only. A click carries the part and the attempt
it was made for, so that the model can tell which file was taken; the program
cannot. A file that is lost while it is streamed may come out empty and be dropped,
after which the poll goes on (`Take`). A `TimeoutException` of any call of the
driver counts as the deadline's `TimeoutError` does (`Timeout`, backup.py:367).

### FileStream

Three parties: the handler, which checks the session, searches the file,
announces its length, opens it and sends frames; the client, which requests,
receives and retries; and the Grid, which may close the session (deleting its
directory and taking it from the known sessions) between any two of these. The
handler looks the path up four times (search, size, length, open), so each is
a step. A frame is its number and a block; a frame with another number than the
receiver expects, and the text of an error, are what fails to decrypt. The
cases in which the receiver reads too little follow urllib3 2.7.0 (`uv.lock`):
a response that ends before its `Content-Length` raises `ProtocolError`, which
is retried; text that fills it up fails the tag, which is not (`InvalidTag` is
turned into a `RuntimeError`, backup.py:272-273).

### SecureChannel

One session of the Grid. Its threads are those of the commands that need BiDi
(the cookies of a foreign domain, the reading of all cookies), of the session
closed event, of the interceptor's `close()`, and of each WebSocket's listener.
`pc[t]` is a thread's next step. A client is named after the thread that created
it with `computeIfAbsent`, a socket after the thread that opened it; `my[t]` is
the client a thread works with, `lock` the monitor of a client
(`synchronized`), `pending` its map from ids to futures. What the code does
without the monitor is a step of its own: taking the id and putting the future
into `pending` (BiDiClient.java:46-48), writing (55-57, where `ws` may have
become null), the three parts of `onClose` (140, 141-143, 144), the assignment
of the socket after its listener is already live (40). The browser executes or
refuses a command and answers, or does not; a text may be lost on its way to
the socket; a socket may fail with `onError` or close at any time.

`AnswerFits` is about answers, which are matched by id alone: late ones, those
for another client, and those on a socket that has been replaced must not
complete a command that they do not belong to. `OneSocket` is about the monitor.
`ClosedIsForgotten` says what a closed session leaves behind, if no command was
in progress. With one, a client or a socket may be left: a command that has
passed its look-up creates it anew after the removal (hazards of
EncryptionInterceptor.java:85).

### CookieJar

One cookie and one password, over any number of sessions. A text is what it says
and the sequence of keys it is encrypted with, so that a second change of the key
pair, over a jar of which nothing could be decrypted after the first, is
distinguished. Decryption takes off the last layer if it is of the present key
and passes anything else through, as the code does; an encryption that fails leaves the
text as it is (`Encrypt`). A cookie that the browser refuses makes `add_cookie`
raise, which ends the run (`LoadCookies`). `is` tells texts that are
UTF-8 from those that are not, and these from what the conversion makes of them.
A cookie of the domain that is open is set by the classic command, a foreign one
through `classicToBiDi`. The names follow the code where it has them.

### ManualAuth

`main()`, the thread of the load handler (`OnLoad`), and the user. `path` says
who has led to the capture of cookies, which decides what an exception does:
after the event a failed capture ends the script with `driver.quit()`, elsewhere the
`finally` of `handle_manual_auth_close` quits and the exception goes on. A cookie
is its version; the wait for the session cookies ends when they are there or after
30 seconds, so any read may be the one that is taken.

Every call of the driver may raise, `driver.quit()` too (`QuitRaises`), and then
the Grid may or may not have closed the session; `refused` remembers that it has
happened. In the `finally` (manual_auth.py:97-98) nothing guards it: after the event,
an exception of the save *or of the quit after a good save* reaches the `except` that
means to handle a missing BiDi connection (155), and the fallback captures and saves
once more if the browser still answers; elsewhere it leaves the script. At 137-140
and 149-152 it is swallowed. `SessionIsFreed` therefore says that on each way out
that has waited for the user or read cookies the driver was quit or its quit has
raised, and `JarIsFresh` is about every write, the second one included. The loop
(132-141) takes any exception of `current_url` for a closed browser
(`LoopAborts`). A jar whose write is cut off half-way is left out.

### StreamServer and GridStream

`server` is how far `initialize` and `close` have come; it is `off` when there is no
key or the port cannot be bound (FileStreamPlugin.java:42-45, 75-78), and then
every connection is refused; a connection is in the
backlog, accepted, waiting for a thread, served, and closed. `Submit` after the
pool's shutdown is rejected, which ends the loop with the accepted connection in
its hands: the one case that `ConnectionsEnd` excepts.

In `GridStream` attempt k of the backup is connection k. The handler's steps are
taken only while its connection is served, and its thread closes the socket only
when the handler has returned; an attempt that is refused breaks, and so does one
that nobody serves when the process has ended. The handlers of earlier attempts
may still hold their threads. `FileStream` is not changed by this: each step of
`GridStream` is one of its steps or leaves it alone.

## Runs

| run | instance | shows |
|---|---|---|
| `backup` | 1 slot, 2 archives, 3 paths, 4 contents, 2 faults | the marker is truthful, stored photos stay, renamed copies differ, the promise is kept, interrupted backups are made up for |
| `overlap` | 2 slots, 1 archive with 1 file, 2 faults | runs, alone or overlapping, neither hang nor keep the session |
| `overlap_stamp` | 2 slots, 1 archive with 2 files, no faults | **violated**: the marker lies |
| `takeout` | 3 archives with 1, 2 and 3 parts, 3 attempts | the outcomes of a pass of the machine |
| `quota` | 2 archives | **violated**: an event is left in a final state |
| `parts` | 3 parts, 3 attempts | the right parts; `PartLoop` is implemented: all parts or a reason why not, in bounded time |
| `empty_file` | 3 parts, 3 attempts | **violated**: the empty placeholder ends the run |
| `login` | 2 redirects | login succeeds, raises, or alternates chooser and password |
| `stream` | 2 blocks, 3 attempts | what is accepted is whole, what is skipped is gone, the retries end; connections are served and closed, the accept loop lives as long as the server |
| `channel` | 2 commands and the closed event; 1 command, that event and `close()` | answers belong to their commands, one socket per client, nothing of a closed session is left, all threads end |
| `jar` | 3 key pairs | cookies come back, no text the Grid could decrypt reaches the browser |
| `manual_auth` | 2 cookies, 3 versions | each write of the jar is fresh, and after Takeout; the session is given back unless `quit()` itself raises; the script ends |

**Bounds.** Two archives are the least in which a file can be disputed between
an old and a new archive, and the instance makes all cases of the merge occur: same
path with same content, same path with other content, a path equal to the
renamed copy of another. Two faults suffice for a crash and a second one in the
run that recovers from it (a torn copy, then a torn marker). For one slot the
proofs remove these bounds from all safety properties. The overlap of two
runs needs one archive: the second run downloads the same one, as it would in
reality while the marker has not been written. Three archives give a search that
skips an expired one, takes the middle one, and leaves an older one; three
attempts give a first, a middle and a last one. Two redirects are enough to
leave a page and to come back between two conditions. A file of two blocks
can be cut off before, between and after its frames, and a third attempt follows
one that was itself a repetition; the proofs remove this bound from
`AcceptedIsWhole`. Three attempts are three connections, of which one may be
served, one accepted and one refused.
Two commands are enough to share a client, to have the second one create another
client or socket after the first, and to have an answer that is not one's own; the
race of both closings needs one command, which creates what they close. Three
key pairs allow two changes, after which a text can be wrapped in two keys
that are gone. Three versions of two cookies let each be renewed and deleted
between the two reads.

**Fairness.** `BackupRun`: every step of a started run is taken (each call
returns or times out: `set_page_load_timeout`, `WebDriverWait`, the download
deadline), the scheduler starts runs again, the Grid closes idle sessions.
Strong fairness of `SelectArchive` says that runs do not settle for ever while
an archive could be selected: an export in progress ends and a fresh backup
gets stale, but both may happen many times first. Faults are bounded, so they
cannot starve recovery. `TakeoutMachine`, `GoogleLogin`: weak fairness of the
program's own steps, by the same timeouts. `PartDownload`: also strong fairness
of `Timeout`, because the poll reads a clock (backup.py:205) that the model does
not have. The browser is never fair: downloads may hang. `FileStream`: weak fairness of
handler and client, that is, a connection delivers or breaks. Nothing in the code
guarantees this on the client's side, which sets no read timeout
(backup.py:247); a connection that does neither would hold the run for ever.
`SecureChannel`: threads run, the ten seconds of `orTimeout` pass for a command
that waits, and the attempt to open a socket succeeds or fails; nothing in the code
bounds the last one (`join()` at BiDiClient.java:42). Neither the browser nor
the listeners are fair. `ManualAuth`: the main thread, whose driver calls and
30-second poll end by their timeouts, and the handling of events that have come;
that the loop's look at the URL raises is fair only once the browser is closed;
the user is not fair. `StreamServer`: threads run, `close` goes on once begun, a
handler returns or raises (its reads time out after 120 seconds, its writes do
not), and strong fairness of `Accept`: the shortage of file handles is not for
ever. `GridStream` has the fairness of both, and that an attempt breaks which was
refused or which the end of the process leaves unserved.

**What the liveness properties leave open.** `EventuallyBackedUp` excepts a torn
marker or jar, for the code has no way back from them; `LoginEnds` excepts the
cycle of chooser and password, which nothing bounds (auth.py:453-458, 490-501).

## Findings

1. *Overlapping runs can make the marker lie* (`overlap_stamp`). One run empties
   `downloads/` while another merges from it. The merge passes over files that
   are gone, the removal finds the other run's directory of the same name, and
   the marker is written. The photos are not fetched again. For the
   same reason `NothingForgotten` and `CopiesDiffer` hold only without overlap
   (check-then-copy at backup.py:502-524). A lock in `execute_backup.sh` would
   establish the assumption `OneSlot` of the proofs.
2. *A quota dialog ends the run with an exception* (`quota`). The new export is
   requested, and then the queued `finish_download` finds no transition from
   `requesting_archive`.
3. *An empty placeholder ends the run* (`empty_file`). The code means
   to skip empty files (backup.py:305-311), but the stream answers 404 for them.

Seen while modelling, and not the subject of a run:

* *A load of Takeout before the handler is installed is missed.* "cookies are
  saved once Takeout loads" (manual_auth.py:117), but the handler is installed at
  line 130, after the first navigation, and the loop at 132-141 reads the URL
  every second and ignores it. `MainEnds` therefore starts from a load that the
  handler has got.
* *The fallback of manual_auth saves at once.* When the load handler cannot be
  installed, both branches at 159-166 save, whatever page is shown, and quit the
  browser. Nothing polls, though line 157 says so. `SavedAfterTakeout` excepts
  this path.
* *A quit that raises after a good save is taken for a missing BiDi connection.*
  The `finally` at manual_auth.py:97-98 does not guard `driver.quit()`, and in the event
  path its exception reaches line 155. The fallback then captures and saves again (the
  second jar is no older, `JarIsFresh`), or the script raises although the jar was
  written and with the session possibly still open (`SessionIsFreed` excepts exactly
  a quit that has raised).
* *The jar is not raw.* README.md:119 calls it the raw output of
  `driver.get_cookies()`; both writers sanitize it (manual_auth.py:90,
  backup.py:614). `Sanitize` of `CookieJar` is that step.

## Proofs

Each module of proofs states the inductive invariant of its component as a
conjunction of named parts, shows that `Init` implies it and that each action keeps
it (`...Step`, one step per action), and draws the theorems from it. All these
invariants were checked with TLC before they were proved. The theorems hold for
every value of the constants that the module's `ASSUME` admits; bounds that only
cap the state space (`MaxFaults`, `MaxKey`, `MaxVersion`) are any positive number
(`MaxFaults` may be 0).

| module | theorem | states |
|---|---|---|
| `BackupRunProofs` | `TypeCorrect` | `TypeOK`, for any number of slots |
| | `StampIsTruthful` | `StampMeansStored`, if runs do not overlap (`OneSlot`) |
| | `PhotosAreKept` | `NothingForgotten`, under `OneSlot` |
| | `CopiesAreNeeded` | `CopiesDiffer`, under `OneSlot` |
| | `BackupRefinesPromise` | `BackupRun` implements `PhotoBackup`, under `OneSlot` |
| `TakeoutMachineProofs` | `TakeoutTyped`, `ArchiveIsWhole`, `NewestIsFound`, `RequestsAreNeeded`, `SavedAtRest` | `TypeOK`, `AllOrNothing`, `TargetIsNewest`, `RequestOnlyIfNeeded`, `SavedWhenSettled` |
| `PartDownloadProofs` | `PartsTyped`, `PartsAreRight` | `TypeOK`, `RightParts` |
| | `DownloadFollowsLoop` | the safety part of `Promise`: every step is one of `PartLoop` or a stutter |
| `GoogleLoginProofs` | `LoginTyped`, `ReturnsLoggedIn`, `EventsFit` | `TypeOK`, `ReturnsAuthenticated`, `EventFits` |
| `GridStreamProofs` | `StreamTyped`, `StreamIsWhole`, `SkippedWasGone` | `TypeOK`, `AcceptedIsWhole`, `SkippedIsGone` of `FileStream` |
| | `GridTyped`, `GridStreamIsWhole`, `GridSkippedWasGone` | the same behind the accept loop and the thread pool |
| | `PluginIsStreamServer`, `LoopNeverStops` | `GridStream` implements `StreamServer`; the safety part of `LoopFollowsServer` |
| `SecureChannelProofs` | `ChannelTyped`, `AnswersFit`, `SocketsAreSingle`, `SessionsAreForgotten` | `TypeOK`, `AnswerFits`, `OneSocket`, `ClosedIsForgotten` |
| `CookieJarProofs` | `JarTyped`, `CookiesComeBack`, `NothingStaysEncrypted` | `TypeOK`, `Restored`, `NoLiveCiphertext` |
| `ManualAuthProofs` | `ManualAuthTyped`, `SavedJarIsFresh`, `TakeoutWasSeen`, `SessionFreedUnlessRefused` | `TypeOK`, `JarIsFresh`, `SavedAfterTakeout`, `SessionIsFreed` |

**BackupRun.** From `BackupAssumption`: archives are natural numbers (timestamps are
compared), paths are sequences, every archive exports at least one file, and the
sentinels are not values of the program. `StampMeansStored` is not inductive: that
`WriteStamp` may be taken safely depends on what the run has done since
`CleanDownloads`. `BackupInv` adds for the run in progress (`Progress`): the target
is newer than the marker, which the run read itself; during the download, what is
not in `zips` is still in `todo`; after it the directory holds the whole export;
during the merge, every file is in `todo` or its content is stored; while copying,
the destination is free; before the marker is written, everything is stored. The
effects of a torn write are isolated in `TearStored`. `OneSlot` is what keeps a step
of another run from invalidating `Progress`, and `overlap_stamp` shows that it
cannot be dropped. `CopiesDiffer` adds that a copy has its original beside it, and
that a file on its way to a copy's name has been compared with what is stored under
its own (`Compared`); that a name tells which file it is a copy of is
`AppendIsInjective`.

**TakeoutMachine.** `Places` lists where the machine can be: state, phase of the
event, queue and what is triggered next belong together, and a queue of two occurs
only after a quota dialog (`OverQuota`). On it rest `Search` (links that were passed
by are not newer, and those left are older, as the page lists the newest first),
`Assessed` (the page's verdict is kept until the end), `Listed` and `PartsLeft`
(what is downloaded and what is left make up the list). `TakeoutAssumption` includes
that there are finitely many archives: the page is a finite list of them.

**PartDownload.** The program knows a download only as the one file in the
directory. `RightParts` therefore needs to know what the browser may still be up to
at each stage: only this attempt's click may be pending, and with it there is no
file (`OneAnswer`); what is in the directory is of this part (`GridOfPart`); at the
stages where the program looks elsewhere the browser has nothing left to answer
(`QuietBrowser`, `EmptyGrid`). The refinement follows with `moved`'s length as
`PartLoop`'s progress.

**GoogleLogin.** The argument is about the tables: all transitions of an event leave
one state, and each leads to a state that the event triggered next leaves, to
success, or to the challenge the user confirms (`Table`, one event after
the other). With that, `Places` says that the event in the queue fits the state, which
is what the properties ask.

**FileStream and GridStream.** From `StreamAssumption` (the file is not empty).
`StreamInv` says what links the two ends: the open input stream still has the file's
last blocks to return, each decryptable frame on the wire carries the block of its
number, the destination holds the first `total` blocks, and the announced length
does not change once the status is sent. `SkippedIsGone` adds (`Gone`) that only the
session's directory has ever held the file, that the second look at its length is at
the path that the first one found full, and that a length of zero was announced only
because the file had gone. `GridStep` and `ServerStep` show that each step of the
composition is a step, or a stutter, of `FileStream` and of `StreamServer`, so that
what is proved of each holds of both together.

**SecureChannel.** For any number of commands, closings and ids. `Ids` is the core:
an id below `nextId` belongs to one thread or to none any more, and requests on the
way, answers on the way and `pending` agree on whose it is, so that a late answer
finds no other future. `Locks` ties the monitor to the stages that hold it, and
makes `OneSocket` hold; `Closing` says which socket may still be there while a
closing is under way. Assumed of the constants: that commands are not named like the
states of a future, which share a variable with them.

**CookieJar.** The layers of a text are of strictly later keys outwards, and the
n-th of a key that is not before the n-th (`Layered`), which also bounds their
number by that of the keys: the pigeonhole argument becomes a part of the invariant.
Inside the browser all layers are below the present key, outside they may reach it.
`JarHolds` ties the jar to the cookie it was made of; the conversions are lemmas
about a cookie's four fields.

**ManualAuth.** `JarIsFresh` compares with `Max` of a set, a `CHOOSE`; that the
newest version of some is one of them (`MaxIsNewest`) is proved with the
well-foundedness of the natural numbers, by the least upper bound. The invariant
says that the browser's cookies only get newer or are deleted (`BrowserIsNewer`), in
which order the reads fill `base` and `accounts`, and that what the load handler has
reported was loaded. For a second write it says that neither the browser's
cookies nor the second pair of reads are older than the first jar. The session is
freed because each end that has waited or read cookies has called `driver.quit()`,
which leaves the session open only by raising.

TLC only: all liveness (`RunEnds`, overlap's `SessionIsFreed`,
`EventuallyBackedUp`, `RunTerminates`, `LoginEnds`, `StreamEnds`, `ConnectionsEnd`,
`AllEnd`, `MainEnds`, and the liveness in `Promise` of `PartDownload` and in
`LoopFollowsServer`), since fairness and ENABLED are outside the prover's reach.

## Assumptions about the outside

* Takeout lists archives newest first (`Pages`). The search relies on it
  (backup.py:314-329).
* A page of parts lists all parts or, when the archive has expired, none. The
  code does not wait for the list (backup.py:343); what protects it is the wait
  of five seconds or more in `is_takeout_url` (auth.py:304).
* Opening a page ends a click that has not been answered, and deleting the
  downloads ends the transfers into them. `RightParts` rests on both: without them a
  late or a second transfer could be taken for another part.
* `gpth` yields the same files for the same archive, one per part in the model.
* A download gets its final name when it is complete, so that a file which is
  served does not change its length. Directories of dead sessions hold at most
  the empty file that reserves a name; a whole file of the same name there could be
  served in place of the session's (StreamHandler.java:219).
* The Grid's event bus tells of a session's creation before its end; a command may
  come before either (`SessionCreated`).
* A WebSocket calls its listener as soon as it is open, loses what is on the way
  when it goes down, and calls at most one of `onError` and `onClose` last.
* An encrypted text is not decrypted by another key, and no plain text looks like
  one that is encrypted with the present key. A key pair does not come back after
  a change.
* Timestamps of archives differ; the marker round-trips through
  `encode_takeout_timestamp` / `parse_takeout_timestamp` to the second.

## Not modelled

Cryptography itself, HTML selectors, logging and diagnostics, the contents of zips
and the renaming of year folders, the age of a backup in hours (a Boolean
`fresh`), the fragments of a WebSocket message, malformed requests to the file
stream. The scripts and container files are configuration; the two facts that
matter (`max-sessions = 1`, no lock around a run) are in `BackupRun`.

## Plan

Every component is modelled, and every safety property that a run checks is proved.
What could follow:

1. That the grains fit as the section on modules says: `PartLoop`'s outcomes as
   `TakeoutMachine`'s, and `TakeoutMachine`'s as `BackupRun`'s, each as a refinement
   with a step lemma instead of an argument in prose.
2. An abstract specification of a command of `SecureChannel` (executed once at most,
   its own answer or an exception), that the channel implements.
3. How much of `StampMeansStored` and `NothingForgotten` is left when runs overlap:
   the step that breaks each is known from `overlap_stamp`, the weakest condition
   that excludes it is not stated yet.
