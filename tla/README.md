# A verification project for x3-websync

x3-websync collects articles from web sites, binds them into EPUB files and sends
these over the local network to one or more e-ink readers ("devices"). It is one
Python program that runs as a desktop window with background threads, as a
scheduled command (`--sync`), or both at once, possibly on several computers that
share a data folder (OneDrive or the like). This directory holds TLA+ models of the
parts in which steps of several actors, failures and restarts matter, TLC runs that
check them on small instances, and TLAPS proofs for all instances. Paths below are
relative to the repository, or to `websync/` where they begin with a package of it.

## 1. Inventory

| Part | Source (`websync/...`) | State it keeps | Operations | What is hard about it | What makes it correct | Module |
|---|---|---|---|---|---|---|
| Pipeline locks | `pipeline/service.py`, `core/process_lock.py` | thread lock, file lock object, OS lock | try-acquire, release, `is_pipeline_running` and its probe, blocking acquire of the watch worker | threads and processes interleave, a probe takes the real lock, processes die | runs never overlap; every lock comes back; a "free" answer is not a lie | `PipelineLock` |
| Sync run | `pipeline/sync_pipeline.py`, `upload_results.py` | sites left, new articles, upload results, counters, verdict | pull, collect, resolve devices, upload, mark, digest, verdict, push | anything else of the program may act between two steps; exceptions and database errors at each | success means delivered; rows are true; what fails is retried | `SyncPipeline` |
| History | `db/history.py` | rows (article, device key) | `needs_sync`, `mark_synced_many`, `remap_legacy_star_to_device`, `import_posts_union`, deletion | two history modes, rows from before devices had keys, the only-device rule | no device is taken to have what it never got | `SyncPipeline` |
| Devices | `upload/device_ids.py`, `upload/uploader.py` | device list, ids, aliases | `resolve_pending_upload_ips`, `upload_to_targets` | answers get lost, the list is edited under a run | only devices that miss something are sent a batch | `SyncPipeline` |
| Shared folder | `backup/` | `sites.json`, `synced_posts.json`, lock file, `last_sites_push_at` | pull, push, manual sync | several computers, copies of a cloud folder, partly downloaded files, failure between two files | a push drops only rows it could not take over, everybody learns of every row | `BackupFolder` |
| Config store | `config/manager.py`, `config/validator.py`, `gui/app_core/helpers.py`, `gui/sync_tab/sites.py` | `config.json` with a revision, its temporary file, the copies in memory, the rows of the list | save with and without expected revision, update, merge on conflict, reload | blind saves, refused and failed saves, crashes, conflicts, an open question | the file is whole, no update of another is lost, a row keeps its meaning | `ConfigStore` |
| Selected sync, preview, debounced export | `pipeline/selected_sync.py`, `preview.py`, `service.py`, `gui/sync_tab/preview.py` | the choice, the locals of the run, the export timer | preview, choose, sync, schedule and flush the export | the choice is older than the run; the timer and the close | as a sync run; no edit of a site stays unexported | `SelectedSync` |
| Device files browser | `gui/device_files/`, `upload/device_client.py` | device, listing, question, busy flag, job | list, delete, rename, move, make, upload, download | the device list is edited under a question, answers get lost | what is shown is what is acted on; the tab comes free | `DeviceFiles` |
| Instance lock | `x3_websync.py` | lock file with a pid, Windows mutex | acquire, stale removal, release | two starts at once, reused pids, a crash before the pid is written | one window; nobody is locked out | `InstanceLock` |
| Updater | `core/update_*.py`, `gui/settings_tab/updater.py` | card, staged file, backups, helper process | check, download, launch, wait, verify, back up, replace, try, roll back, restart | replacement fails or the helper dies half way, the program is started meanwhile | there is always a program that works, or its backup | `UpdateInstall` |
| Folder watch | `watch/calibre.py`, `gui/settings_tab/watch.py` | pending set, timer, queue, worker | event, debounce, stability check, flush, stop | files still being written, timers that cannot be cancelled any more | every book gets its turn at the worker, and once per event | `FolderWatch` |
| Site dialog, selector assistant | `gui/sync_tab/sites.py`, `selector_wizard.py` | form, page, analysis, request number, busy flag | analyse, test, preview, apply suggestions, save | results come back to an edited or closed dialog | suggestions and tests of one page; a preview that keeps its word | `SiteDialog` |
| Scrapers | `scrapers/` | none between calls | fetch | fallbacks, skipped posts, limits | a preview and a run collect alike | `CssScraper` |
| Dashboard, OPDS | `servers/` | server thread, token | start, stop, `POST /api/sync`, `/api/cancel` | check and act in two steps | one run at a time; cancel reaches the run | requests only |
| Scheduler | `scheduler/manager.py` | a task of the operating system | create, query, delete | none beyond the second process it starts | | |
| EPUB builder, translation, summaries, notifications | `epub/`, `pipeline/translator.py`, `summarizer.py`, `integrations/` | none between calls | render, ask, send | formats | a run sees a file, a text, or an exception | |
| GUI | `gui/` | widgets | dialogs | its handlers touch all of the above | | in the modules of the state they touch |

How they interact: the window, the dashboard and the scheduled process all call
`SyncService`. Its two locks serialise runs. A run reads `config.json` and the
history, uploads to devices, writes the history, and begins and ends with a pull
and a push of the shared folder. The cancel event, `service.uploader`,
`config.json`, the history database and the folder are shared with everything that
does *not* take the pipeline locks: settings, history tab, site dialog, manual folder
sync, device tab. An update ends a window and starts the program anew, so it meets
the instance lock; the scheduler's `--sync` takes no instance lock at all.

## 2. Plan

A module is written so that it can be proved about: parameters are constants with
named assumptions, one action per operation, invariants are conjunctions of named
parts, no recursive operators. In order of importance:

1. `PipelineLock`, with the abstract `SerialRuns`, and `BusyAnswers` — done, all safety
   proved.
2. `SyncPipeline` and `SyncPromises`, with the abstract `DeliveryLog` — done, all safety
   proved.
3. `BackupFolder` and `BackupPromises`, with the abstract `SharedRows` and `FolderRows`
   — done; rows and sites proved.
4. `ConfigStore`, with the abstract `VersionedFile` — done for the operations named in
   section 3, all safety proved.
5. `InstanceLock`, `UpdateInstall` — done, all safety proved.
6. `SelectedSync` (with the debounced export), a second implementation of
   `DeliveryLog` — done, all its properties proved.
7. `DeviceFiles`, `CssScraper` with `SiteDialog` — done, all safety proved.
8. `FolderWatch` — done, all safety proved.

Left: start and stop of the two servers; pure operators (device keys, remote paths,
version order) against reference definitions.

How modules compose: a sync run (2) uses the locks (1) as the single action `Acquire`,
which is what the proof of `ImplementsOneAtATime` justifies, and the folder (3) as the
sets of rows that `Pull` and `Import` may bring. `SelectedSync` uses the locks as
`elsewhere` (somebody else's run) and the folder as an export that succeeds or
fails and, like a pull, may bring rows. What it knows of the runs of others is that rows
come with their deliveries (`Delivered`); that `SyncPipeline` does no more to the history
is what their common abstraction `DeliveryLog` says. `UpdateInstall` EXTENDS `InstanceLock`: each of its process
steps is a step of the lock with the version a process runs beside it, and seen through
the lock alone it is `InstanceLock` (`UpdateImplementsLock`). `SiteDialog` EXTENDS `CssScraper` and
uses `FetchArticles` both for what the preview lists and for what a sync collects.

## 3. Modules and the code

Operators commented *Faulty* are plausible bugs of the code. Nothing uses them; each
is a replacement for the definition after it, under which the property named in
`PROJECT.json` ("mutants") fails.

**`SerialRuns`** is the promise: `running` is one thread or nobody, a run begins only
when nobody runs, and it ends.

**`PipelineLock`**. A *thread* is one call into the service. `pipelineLock[p]` is
`SyncService._pipeline_lock` of process `p`, `held[p]` its `ProcessFileLock` object
(the thread whose handle is in `_fh` while `_held`), `flock` the lock of the
operating system. `TakePipeline`/`PipelineRefused` and `TakeFlock`/`FlockRefused` are
`_try_acquire_pipeline_locks` and the watch worker's own two blocking acquires;
`KeepHandle` sets `_held`; `Unlock`, `DropHandle` and `GiveBack` are
`ProcessFileLock.release` and `_release_pipeline_locks` in the order of the code.
`ReadLocked`, `ReadHeld`, `ReadHeldAgain`, `Probe` and `ProbeUnlock` are
`is_pipeline_running` step by step. `Crash` and `Restart` are external. Python's
memory is taken to be sequentially consistent (the interpreter lock).
**`BusyAnswers`** adds an observer that remembers whether the file lock was free of a
run at some instant of a call.

**`SyncPipeline`**. An article is its sync key; a row is `<<article, key>>`; a device is
looked up under `AliasOf` and recorded under `KeyOf`. The counters of the code are
the sets of sites they count; `result` is what the run returns, with its status.
One action per stretch of `run_sync_pipeline_locked` between two points where
something else can act: `Pull`, `Begin` (clear cancel, snapshot, remap of `*` rows),
`SiteFails`/`SiteEmpty`/`SiteRead` (one site), `StartDigest`, `Resolve`, `Upload`,
`Mark`, `Verdict`, `Push`; and `Cancelled`, `DbError`, `BatchRaises`, `Abort` for the
ways out. Beside them `RequestCancel`, `EditDevices`, `Reload`, `Import`, `DeleteEntry`
and `Crash`. The constant `Disturbances` says which of these a run has.
**`SyncPromises`** adds observers of what the user asked (`asked`), what devices have
confirmed (`acked`) and what the log said will be retried (`owed`). **`SyncCast`** holds
the sites, articles and devices of the instances.

Rows of other computers (`PeerRows`) come under any key: one of a device configured here
or not, and `*` (disturbance "star") from a computer whose rows are older than its device
keys. Such a row is taken to be about the same primary device (`Behind`): the program
cannot tell, see section 7.

**`DeliveryLog`** is the promise of the history, whatever kind of run writes it: an
article arrives at a device first and is noted later or never (`Arrive`, `Note`), what
another computer has delivered comes with its note (`Learn`), and a note goes only by
deletion (`Forget`). In `SyncPipeline` a pair is noted if a row under one of the device's
keys says so (`IsNoted`), in `SelectedSync` if there is a row.

**`BackupFolder`**. Each computer has its list of sites (the number of the edit that
made each), `last_sites_push_at` and its rows; each copy of the folder has `sites.json`
with its `exported_at`, `synced_posts.json` and a lock file. `place` says which copy a
computer works on: the same for all on a network drive, one each in a cloud folder
(`docs/USER_GUIDE.md:232`), where a lock of the system on one computer is unknown to the
others. `Carry` and `CarrySites` are the cloud client (external): a file that changed in
one copy replaces that of another, also between the read and the write of a push at
either end (`Calm` says that no push is there; otherwise it is the fault `"swap"`); if
both changed, one version wins. `newer` says which copies have not got a change yet.
`Load` happens before the lock, as in the
code; `PullSites`, `PullRows`, `PushSites`, `PushRows`, `PushWrite`, `PushMeta` are the
files one after the other; `ReadAs` is `read_json_safe`, which answers nothing for a
file that is not completely there; `Breaks` ends a call by an error or a crash. A push
whose union or second export fails does not end: it warns and writes what it exported
before (`backup/service.py:316`, the second alternative of `PushRows`). `blind` marks the
pushes that will write without what is in the file: it could not be read, could not be
taken over, or was replaced by the cloud client since. The
clock has the resolution of `now_iso`: two exports may bear the same second. An edit of a
site is atomic here (its steps are those of `ConfigStore`). `include_history` is on.
**`BackupPromises`** adds who wrote `sites.json`.
**`SharedRows`** is the promise of the folder about the history: a set of rows for each
copy, which computers add to and take over from, in which is only what some run has
recorded, and out of which nothing goes except that one copy may take the place of
another and that a computer may write it without what it had. **`FolderRows`** adds to
`BackupFolder` an observer of the recorded rows and states the mapping: the databases
are what is known, `synced_posts.json` is what is shared.

**`ConfigStore`**. A configuration is its revision, the addresses of its sites in
order, one setting that stands for all other keys, and the stamp of a push. `file`
and `tmp` are `config.json` and `config.json.tmp`, `lock[p]` is `ConfigManager`'s lock,
`mem[p]` is `service.config`, `work[t]` the copy a thread is saving, `shown` the rows of
the window's list, `chosen` the row of an open question. A save of the window is
`AddSite`/`EditSite`/`DeleteSite`/`SaveSettings`/`ImportSites` (the edit in memory, with
`SafeSave`'s validation), `Compare` (`save_config` under the lock: expected revision
against the file's), `Conflict` (`_merge_config_on_conflict` and the next of
`MaxRetries` tries), `OpenTmp`, `DumpTmp`, `Replace` (`_save_config_unlocked`) or
`SaveFails`, and `Reload` (`_reload_config`). `BlindSave` has no expected revision;
`PullSite` and `StampPush` are the background thread's `update_config`. `Merge` is `merge_sites`: the
sites of both lists put in one after the other, each unless its address is there
already (`Firsts`). `wish`, `own` and
`unsaved` are observers.
**`VersionedFile`** is the promise of the revision: the file is whole, and every save that
states a revision writes the one after that in the file.

**`SelectedSync`**. `window` is the window's busy state, `pc` and `run` its one thread
with its locals, `articles` what was previewed and then chosen, `elsewhere` a run of
somebody else, `uploader` the devices the current uploader was built for, `timer` the
reference `_backup_push_timer`. `BeginPreview`/`PreviewArticles` and
`BeginSelected`/`ReadSettings`/`NextGroup`/`Upload`/`Mark`/`EndSelected`/`PushAfterRun` are
the two functions up to each point where something else can act; a run has its
merge and history mode as a record. `Delivered` is what a pull, a push or a run of
somebody else brings: rows with their deliveries, also rows deleted here before.
`ScheduleBackupPush`, `Fire` and `OnClose` are the
debounced export with its flush; the reference is never reset by a timer that has
fired, and `Fire` says so ("fired"). `edited` is an edit of a *site* not yet exported; of
a deletion in the history tab nothing is left to export, since the push takes the row
back first. `ExitForUpdate` leaves without the flush. `Dies` is an exception before the callback.

**`DeviceFiles`**. `sd` and `folders` are the readers, `config` and `choices` the device
list as saved and as last put into the combo box, `selected`, `items` and `at` what the
tab shows, `asking` the open question, `busy` and `job` the one job. Each command is an
`Ask...` action (guards, the question, the paths taken from the listing), an `Agree`
(the device is read again *after* the confirmation, as in `actions.py:45`) and one
action per request of `X3DeviceClient`, each of which may do its work and lose the
answer; `ListFinished` and `JobFinished` are the callbacks. `EditDevices` and
`SyncUpload` are what other parts do meanwhile.

**`InstanceLock`**. `file` is the lock file with its maker, its number and whether it is
held open (Windows refuses to delete it then), `mutex` the named mutex, `foreign` the
process numbers other programs use. `TakeMutex`, `Look`, `Remove`, `Create`, `Write`,
`Close`, `Unlink` and `Finish` are the calls of `acquire_instance_lock` and
`release_instance_lock`; `Crash` and `Reuse` are external.

**`UpdateInstall`**. `target` is the program file, `backups[v]` the backup named after
version `v` (`Half` is a file that is not all there), `ver[p]` what a process runs, `card`
the updater card, `helper[h]` a process started with `--apply-update`. `Waited`, `Check`,
`CopyBackup`, `Replace`, `Smoke`, `Cleanup`, `Rollback` and `Restart` are
`_handle_apply_update` and `apply_staged_update` step by step; `Spoil` damages the
staged file before it is checked, `HelperDies` ends the helper anywhere. Windows
does not replace a running program (`InUse`).

**`FolderWatch`**. `pending` says of each book whether it waits and whether its time has
come, `timer` is the timer set last, `flush[f]` a timer thread that can no longer be
cancelled (what it took, what it found stable), `queue` and `worker` belong to a
session of the watch. The clock only moves forwards. `answered` are the books whose turn
at the worker has come: sent, failed, or given up because a lock was busy for 30 seconds
(`gui/settings_tab/watch.py:84-113`); the code tells these apart only in the log.

**`CssScraper`** and **`SiteDialog`**. A page is the sequence of posts its own item
selector matches; a post says only what `fetch_articles` asks of it (title, link,
list content, detail page), an article is its key and which fallback gave its
content; `Collecting` is the loop, as what it has collected after each number of posts.
A recommendation sets the limit too (`UsualLimit`) and writes into the result field.
`form` is the dialog's entries (`selectors` names the page they were made
for), `jobs` and `posted` are threads and scheduled callbacks, `gen` is `_req_gen`,
`html`, `analysis` and `tree` name the page of `_html`, `_analysis` and the outline.

## 4. Runs

| Run | Module / configuration | Instance | Shows |
|---|---|---|---|
| `locks` | `MCPipelineLock` / `MCPipelineLock.cfg` | watch worker, dashboard request and status poll in the window's process, a run in another; crashes and restarts | runs never overlap; the owner of each lock is where it should be; no lock is lost; calls return; "free" is true; the locks implement `SerialRuns` |
| `digest` | `MCSyncPipeline` / `SyncDigest.cfg` | two sites sharing an article, two devices, digest, global history, `*` rows here and on other computers; edits, imports, deletions, reloads, crashes, database errors, exceptions, cancels | rows are true, success means delivered |
| `delivery` | `MCSyncPromises` / `SyncDelivery.cfg` | one site, two articles, two devices, a batch and a history per site and device; everything but edits, deletions and `*` rows | every article reaches every device; failed devices stay due; nobody is sent what it confirmed; an old cancel stops nothing |
| `backup` | `MCBackupFolder` / `BackupFolder.cfg` | two computers on one folder (one site, edited once) or on a copy each; one row, one disturbance (busy lock, unreadable or exchanged file, failed union, error, crash, deletion) | pushes keep the rows they could take over, pulls keep sites, rows reach everybody |
| `config` | `MCConfigStore` / `ConfigStore.cfg` | window and background thread of one process, three addresses, two operations each; crashes, failed saves, blind saves | the file is always whole, comparing saves lose no site of another, a success is stored, every save ends, an open question keeps its row |
| `files` | `MCDeviceFiles` / `DeviceFiles.cfg` | two readers with a file of the same name, three device lists (one empty), three jobs, two outside events, lost answers | a question stays with its device, nothing is overwritten unasked, the listing follows, the tab comes free |
| `update` | `MCUpdateInstall` / `UpdateInstall.cfg` | Windows, two processes, one helper, three releases of which the second is bad; crashes, reuse of numbers, spoiled files | one process past the lock, no start refused without a reason, a program that works or its backup |
| `watch` | `MCFolderWatch` / `FolderWatch.cfg` | two books, three events, two timer threads, a session after a stopped one | sent at most once per event; complete books get their turn at the worker |
| `selected` | `MCSelectedSync` / `SelectedSync.cfg` | two articles of two sites, lists of none, one or two devices, both modes; three outside events | rows are deliveries, success is complete, no edit of a site stays behind when the user closes |
| `site_dialog` | `MCSiteDialog` / `SiteDialog.cfg` | three pages (one with every kind of post, a platform, one with a feed), two requests, limits below and above that of a preview | one request at a time and no dead buttons, tests and suggestions of one page, previews keep their word |

Bounds. Two processes are enough for the file lock (a third would meet the same free
or owned lock), and four threads contain every pair of kinds of call. Two articles
of which one is shown by both sites give a batch that is partly known, and two
devices give one that is ahead and one that is behind. Sync runs follow each other
without bound. One edit and one second suffice in `backup` for a site that appears
between load and write and for both answers of `is_remote_newer`; the violation run
has two of each. Two disturbances together are covered
for the safety properties only, by their theorems. With copies no site is edited: the sites file there would only repeat
the first layout, while the rows are what copies are about. Two operations per thread in
`config` give an edit, a change behind it, a conflict with its merge, and a second edit on top; a third address is one the
other thread adds. In `files` three jobs are a listing, a change and one more on what
it left; one outside event changes the device list and another the files. In
`update` three releases give a good program, a bad successor and a good one after
it; two processes are needed for every race of the lock. Two timer threads in `watch`
are one that is checking and one that fires meanwhile, and a third event re-announces
a book that is being sent. In `selected` three outside events are, for instance, an
edit of the devices, a foreign run and a deletion. In `site_dialog` two requests are
a result and the late answer of the one before; five posts put a skipped post, a
fallback and a collected one beyond the preview's limit, three more the other fallback.
A user stops acting when the bound is used up, so deadlock is not checked in `files`, `update`, `watch`, `selected`
and `site_dialog`; elsewhere it is.

The types of all modules are proved. Those of `PipelineLock`, `SyncPipeline`,
`BackupFolder` and `SelectedSync` are not checked again by TLC; the other modules'
`TypeOK` (`WatchTypeOK` in `FolderWatch`) is an invariant of their run. Of the abstract
specifications only `SerialRuns` is a property of a run, `locks`, liveness included. That
`SharedRows`, `DeliveryLog`, `VersionedFile` and `InstanceLock` are implemented is proved
(section 6) and not in a run. `ImplementsDeliveryLog` and `ImplementsVersionedFile` can be
added as PROPERTY to the configurations of `digest`, `selected` and `config` as they
are, `ImplementsSharedRows` to that of `backup` with `RowsSpec` of `FolderRows`.

Two runs end in a violation, each of something a document or a dialog of the
repository says (see "findings" in `PROJECT.json`):

- `backup_own_export`: a push that fails after `sites.json` makes the computer take its
  own export for a newer one; the next pull reverts a later edit.
- `config_choice`: a deletion that the validator refuses has already left the list in
  memory but not on the screen, so the next deletion asks for one site and removes
  the one after it.

## 5. Fairness

- `PipelineLock`: weak fairness of each call in progress. Threads are scheduled, network
  requests have timeouts, the blocking acquires have 30 seconds. Nobody is obliged to
  start a call, to crash or to restart.
- `SyncPipeline` (`delivery` only): weak fairness of the run and of the next run being
  started (schedule); strong fairness of what has to go well *sometimes*: a pull and a
  begin with all sites enabled, a site read in full, a batch resolved, an upload of
  a given article to a given device answered. Without it a site or a device that is
  off for ever refutes any delivery. Nothing is assumed of cancels, crashes and lost
  answers except that they do not hit the same step for ever.
- `BackupFolder`: weak fairness of a call, strong fairness of the next push (every run
  ends with one) and of taking the lock, which others hold for less than the two
  seconds of the six attempts; of a cloud client, strong fairness of carrying a changed
  file to each other copy, and that again and again no push is between its read and its
  write (`[]<>Calm`). The last is needed: a client that always exchanged copies in those
  moments, and let the same computer's version win each time, would keep a row from the
  others for ever. A push is between the two for less than a second after each run, so
  nothing makes that happen. Faults are bounded by `MaxFaults`.
- `ConfigStore`: weak fairness of each thread's file steps and of the window's `Compare`
  and `Conflict`: nothing there waits for the user. Nobody has to start a save.
- `DeviceFiles`: weak fairness of what the program does by itself (requests, which have
  timeouts, and callbacks, which the main loop runs). The user owes no answer.
- `FolderWatch`: weak fairness of each timer thread, of each worker and of `StopWatch`
  once it has begun. Nothing is assumed of writers or of the user.

The other modules state safety only and have no fairness.

## 6. Proofs

All constants are arbitrary; the assumptions are the `ASSUME`s of the modules, which
TLC evaluates in the runs, and those of a theorem's own statement. Temporal steps use
PTL.

- `PipelineLock_proof`: types; `LockOwners`, which is inductive together with types
  (who owns which lock, and where in the code its thread is), and from it
  `OneRunAtATime` and `NeverReentrant`. `NeverReentrant` needs that `DropHandle` comes
  before `GiveBack`. `ImplementsOneAtATime`: each step is a step of `SerialRuns` or
  leaves `CurrentRun` alone; that the `CHOOSE` in it is well defined is
  `OneRunAtATime`. `FreeIsTrue` (`FreeMeansFree`) by `Watched`: until an instant without a
  run is seen, a run owns the file lock, and once the asker has found its thread lock
  free, not one of its own process. It is about callers that only ask
  (`ObservedAssumption`): one that also starts runs keeps an old answer.
- The second part of the same module is about the folder watch, whose worker is one of
  the callers of the locks: `WatchTyped`, and `BooksSentOnce` (`SentOncePerEvent`) by
  `WatchInv`. The number of turns still to come of a book is the number of *places* it
  is in: waiting to be quiet, taken by a timer thread, in a queue (once per occurrence),
  at a worker. `Places(b)` is that set, and `Covered(b)` says that it is finite and not
  larger than the number of announcements not yet answered by a turn, and that these
  and the announcements still possible stay within the bound. An announcement adds one
  place at most, a turn takes one away (`Added`, `Removed`), and everything between
  them, timers, stability checks, queues, stops, moves places one to one or drops some
  (`Moved`, `Fewer`, and `Renamed` for a queue that shifts by one). `Threads` says that
  timers belong to a session; types follow from `Shapes`, and the range of `unsent`
  from `Covered`. No assumption but the module's.
- `SyncPipeline_proof`, one run: types; `HistoryIsHonest` and `SuccessIsDelivery`.
  `HonestHistory` is not inductive: it needs that in the state "mark" the devices that
  answered have the batch, that `*` rows are about the primary device, and that
  configured lists contain it (`StarHasHome`: without it the rows go elsewhere, see
  section 7). `SuccessMeansDelivered` needs `Accounted`: the articles at hand come from
  the site or the digest, sites counted as done were sent, the digest contains what
  every site has new (`NamesApart`: sites of one name overwrite each other), and a
  target that is not pending has the batch. It relies on received articles never going
  away and on `targets` being a snapshot. `SyncImplementsLog`: with the invariant of
  `HistoryIsHonest` each step is one of `DeliveryLog` or leaves what has arrived and what
  is noted alone. An imported row is noted of exactly the device it names, because keys
  are nobody else's, and a `*` row of none (`PeersLearn`), and the remap, although it
  rewrites rows, takes no note away (`RemapKeeps`). It assumes `StarHasHome` too.
- The same module, run after run (`SyncPromises`): `CancelsAreAsked` by `CancelIsMeant`: where a
  run looks at the event, it is set only if this run was asked to stop. `NobodyTwice`
  (`OnlyMissingDevices`) by `Recorded`: what a device has confirmed has a row under its key,
  and a batch about to be uploaded misses something at each pending device. It
  assumes `NoDeletions`, since who deletes a row wants the article sent again.
  `RetriesAreKept` by `DebtShared` (a device owes only where another of the list
  succeeded, so the rule for an only device does not apply) and `ListStays`. Its
  `RetryCounts` is what the code needs, not what the proof needs: a history per
  device, and a list that edits do not bring down to one device (section 7).
- `BackupFolder_proof`: types; `FolderKeepsRows` by the invariant `Prepared` (whoever is
  between taking and releasing the lock is its owner, and what is about to replace
  `synced_posts.json` of its copy contains it unless the push is `blind`), over the steps of
  calls: the cloud client may replace a copy as it likes; `LocalSitesStay` from
  types, because `update_config` merges into the list as it is at the write.
  `FolderImplementsSharedRows` by `AllRecorded`: every row in a database, in the file or on
  its way into it has been recorded, and a push is blind only where reading or taking over
  may fail or the client may replace the file.
  `StepsRows` reduces the steps to the four things they can do to rows; a push, which the
  model does in two steps with anything between them, is `TakeOver` at the first and
  `Publish` at the second, or `Replace` if it was blind; `Carry` is `Exchange`.
  `RowsNotInvented` follows. In an instance with one copy and without `"blind"`, `"fail"` and
  `"swap"` the shared set never loses a row.
- `ConfigStore_proof` has three layers. The operators come first: `MergeIs` says what a
  merge is (all sites of both, none twice, the rows of the first list in front), and
  lemmas say the same of the edits. Then `StepHasEffect` reduces the steps to a dozen
  *effects* (edits, compares, merges, gives up, writes, replaces, reloads, ...) in
  which no list operator is left, so that each invariant is proved over the effects.
  `AlwaysWhole` by `Locked` (who is between open and replace has the lock, and the
  temporary file is whole when it is renamed). `FileIsVersioned` by `VersionHeld`: whoever
  is between open and replace has the revision after the file's, so each replacement
  but a blind one is a `Save` of `VersionedFile`; with a second process TLC finds a
  revision written twice. `SitesAreKept` by `WorkersCarry` (threads
  save what they read under the lock, and more) and `SitesCarried` (a copy with the
  revision of the file has the sites of the file). `SuccessIsTrue` by `WishCarried` (what
  the user wanted is in what is about to be saved). `QuestionsKeepTheirRow` by
  `RowsCarried`: the shown rows are the first rows of whatever the next reload may find,
  as long as no edit is left in memory. All but types assume `OneProcess` — the lock
  belongs to a process, the file and its temporary file to all of them —, and the
  last two `NoTwins`, no address twice in a list: a merge takes the second one out.
- `SelectedSync_proof`: types (`RunTyped` for the locals; that the devices tried are
  pending ones needs `Quiet`: only an upload leaves answers behind, and who is not busy
  has no thread). `RowsStandForDeliveries` by `Arrived` (the devices that answered have
  the group that is about to be marked). `NoEditLeftBehind` by `Waiting`: an unexported
  edit of a site has a timer reference, set or fired, as long as the window is open. It would
  be false if a timer that has fired reset the reference. `SuccessIsComplete` by `Kept`:
  every group counted as done is where it belongs, and so is the group at hand on
  the targets that were not found to lack it. `SelectedImplementsLog`: the history is a
  `DeliveryLog` here too, by `Arrived`.
- `DeviceFiles_proof`: all of it rests on `OneAtATime` (no question beside a job, no job
  left behind a free tab, a job has what its kind needs). `RightDeviceAsked` by
  `ListedHere`: the files shown are those of the chosen device, or of the one a listing
  under way will show. `ListingsKeepUp` by `Told`: the jobs that end without a new
  listing have changed nothing. `OverwritesAreAsked` by `Asked`: what an upload still has
  to send and the device has was in the question or came after it. No assumption
  but those of the module.
- `UpdateInstall_proof`: `OneWindow` (`OneInLock`) by `Owned`: whoever is past the mutex
  owns it; the update only takes steps of the lock (`StepIsLockStep`), so the whole
  program implements `InstanceLock` (`UpdateImplementsLock`). `NobodyLockedOut`
  (`RefusedForAReason`) by `AllMet` (two in the lock have met), `OwnersLive` (the mutex and an
  open file belong to somebody who is there) and `SecondTry` (the second attempt
  finds the file of the first, or has met who changed it); it holds without a mutex
  too, where the run has one. `ProgramRecoverable` (`Recoverable`) by `Carried` (what a card
  and a helper carry) and `Safe`: a program that does not work is in place only while
  nobody runs and its helper is in its trial or its roll-back, and from the
  replacement on the backup in the helper's name works. `Recoverable` alone is not
  inductive, since a copy overwrites the backup of that version. This theorem, and
  `UpdateTyped` for the same invariant, assume one helper at a time (`OneHelper`): the
  code does not enforce that, see section 7.
- `SiteDialog_proof`: `PreviewIsFirst`, what `FetchArticles` collects with a limit comes
  first in what it collects with a higher one, and from it `PreviewsForetell` by `Foretold`
  (the result field shows what a preview collected for the site it names).
  `OneRequestAtATime` by `OneRequest`: busy is the presence of exactly one thread or
  callback of the present generation. `TestsTheAnalysed` is inductive with types. No
  assumption but those of the modules.

Induction. The provers cannot instantiate the library's induction rules, but what a
recursive function computes up to a bound can be reasoned about: if the statement
failed for some number there would be a least one (`WFMin` with
`NatLessThanWellFounded`), and the step from its predecessor contradicts that. The lemma
`UpTo` packs this up; `Firsts` (`ConfigStore`) and `Collecting` (`CssScraper`) are
recursive *functions* for its sake, and `MergeIs` and `PreviewIsFirst` hold for lists and
pages of every length.

What the attempts showed. `SitesCarried` was not inductive at first: a save of the window
that gave up after its last retry made the observer `unsaved` forget an edit that an
earlier refused save had left in memory (`Conflict`), which the bounds of the run never
reach. It remembers now, and the properties that excuse such edits are true.
`FreeMeansFree` is false of a thread that asks and later starts a run, hence
`ObservedAssumption`.

Only model-checked: all liveness (`EveryCallReturns`, `PipelineLockReturned`,
`EventuallyDelivered`, `RowsReachAll`, `EverySaveEnds`, `BusyEnds`, `NewBooksAnswered`,
the liveness part of `SerialRuns`), which is out of the prover's reach. Every safety property
of a passing run is a theorem. The two properties of the violation runs are false.

## 7. Seen while modelling

What the code does and the models show, or had to be told; none of it
has a run of its own beyond the two violations above.

Sync and locks

- A cancel requested while a run pulls the folder is cleared by the run
  (`pipeline/sync_pipeline.py:42`), and all sites are processed.
- Device B failed and A succeeded; A is removed; B is now the only device, and by
  `db/history.py:157` is taken to have everything that has any row, against the retry
  that `sync_pipeline.py:226` announces. In `global_url` mode that retry never happens,
  because the row of the device that succeeded is enough.
- `*` rows stand for deliveries to the primary device but are given to the first key of
  the target list (`sync_pipeline.py:83`): with `x3_ip` blank, to an additional device. The folder
  and an import bring `*` rows of other computers too, which the next run here gives to the
  primary device of *this* one: if theirs is another reader, it is taken to have what it
  never got. `PeerRows` has computers with the same `x3_ip`.
- `digest_articles` is keyed by the site's name (`sync_pipeline.py:171`), which is not
  unique: of two sites of one name one is dropped, and the run reports success.
- An import between `needs_sync` and `resolve_pending_upload_ips` makes a run return
  False although nothing failed.
- Two busy probes that meet make one answer "busy", and a probe can make a run of its
  own process be refused as "another process is syncing" (`core/process_lock.py:118`).
- If the background thread cannot be started, both locks stay taken
  (`pipeline/service.py:275`). `Thread.start` fails only without memory; left out.

Shared folder

- Every push first takes over the folder's rows (`backup/service.py:312`), also the one
  scheduled by a deletion in the history tab: the deleted row comes back, and the article
  is not collected again, although the dialog (`gui/tab_history.py:108`) and
  `docs/USER_GUIDE.md:222` say it will be.
- If that union or the second export fails, the push goes on and writes only the rows of
  this computer over the file (`backup/service.py:316`), where `docs/USER_GUIDE.md:268` says
  histories are united. The others' rows come back with the next push of whoever has them
  (`RowsReachAll`); those of a computer that is gone, and that nobody had taken over, do not.
- In a cloud folder the lock does not reach the other computers: two exports meet, and the
  client keeps one of them. The rows of the other come back in the same way.
- A push replaces `sites.json` without merging (`backup/service.py:291`): that every
  *site* reaches every computer does not hold under weak fairness, turns may alternate.

Configuration

- Saves without an expected revision (theme, updater settings, first-run wizard) write
  the copy in memory: sites that a scheduled run of another process has pulled are
  lost, and the revision may return to a number seen before.
- A failed save has already counted the revision of the copy in memory up.
- Two processes share `config.json.tmp`; `FileWhole` is checked for one process.
- The merge on conflict is a union: a site deleted by the window comes back, and
  `last_sites_push_at` of a push between the two is taken back.
- The same address can be added twice; the next pull removes one and moves the rows.

Selected sync

- An exception in the window's thread leaves the window busy until it is closed
  (`gui/app_core/sync_control.py:42`), and `_last_pipeline_result` stays that of the run
  before (`pipeline/service.py:74`).
- The close pushes with force, also after `auto_export` was switched off; cancel does
  not reach a selected sync. An exit for an update does not push
  (`core/update_service.py:129`): the edit is exported after the next run.

Device files

- With the device list emptied under a question, the device read after it is `""` and
  the request goes to `x3_ip` (`gui/device_files/actions.py:45`); `AskedOfTheRightDevice`
  says "or none" for that reason.
- A single request that failed does not refresh the list, although its work may be
  done; exceptions other than `DeviceClientError` (`upload/device_client.py:290`) leave
  the tab busy; a failed download leaves half a file.

Start and update

- Outside Windows two windows are possible: a start judges a lock file by what it read
  and removes whatever is there by then (`x3_websync.py:80`).
- A start may be refused because another program got the number of a dead process.
- Two updates in quick succession have two helpers, which copy to one backup: TLC
  with two helpers finds half a copy as the only one left. A process started during the
  trial makes the roll-back fail; the program that does not work stays, with its backup
  beside it. A backup left by a failed roll-back or a broken-off copy
  makes every later update from that version be refused. When the restart fails,
  the result says "failed" with the new program installed.
- Nobody reads the result file; staged files and helpers are never cleaned up. The
  update leaves by `sys.exit`, without `flush_backup_push` and under a running sync.

Folder watch

- A book still growing when its time comes is dropped without a word and waits for another
  event (`watch/calibre.py:73`); a writer that pauses gets half its file sent.
- A complete book is dropped too, with a line in the log, when a run keeps a lock for 30
  seconds (`gui/settings_tab/watch.py:84-101`) or its upload fails (`106-113`).
  `NewBooksAnswered` is therefore about the turn of a book, and about books complete when
  their time comes.
- A watcher that fails to start leaves its worker waiting; an event during the stop sets
  a timer whose books go to a queue that has ended.

Site dialog

- Posts without a link share the page's address as their key (`scrapers/css.py:186`), so
  a sync sees one article in them. The limit counts posts that are then skipped.
- After an analysis that failed, the outline and the hint buttons of the page before
  stay and still write its selectors; a test after the address was edited uses the page
  loaded before.

## 8. Not modelled

- Servers (`servers/`): their requests are in `PipelineLock` and `SyncPipeline`. Starting
  and stopping them shares no state with the rest but a socket.
- The task scheduler beyond the process it starts; EPUB rendering, translation,
  summaries and notifications: calls without state between them, of which a run
  sees a result or an exception. Of the scrapers only the one of selectors is
  modelled; how the assistant finds and scores selectors
  (`scrapers/selector_assistant.py`) is a heuristic without a promise to check.
- `ConfigStore`: the creation of a missing file, the filling in of missing keys on load,
  the second try of a pull whose update failed, export of sites. `BackupFolder`:
  `include_history` off, the migration of portable data. `DeviceFiles`: folders as
  objects of a deletion, the tab's own settings, the filter of the shown rows.
- Widgets, logging, wording and layout. Bytes of manifests and signatures are one
  condition. The HTTP exchange with a device beyond "done or not, answered or not".
  Clocks that go backwards. Redirects of a page.
