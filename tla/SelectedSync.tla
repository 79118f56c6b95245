---------------------------- MODULE SelectedSync ----------------------------
(***************************************************************************)
(* What the window does besides a plain sync: the preview and the sync of  *)
(* the articles chosen from it (pipeline/preview.py, selected_sync.py,     *)
(* gui/sync_tab/preview.py, gui/app_core/sync_control.py), and the export  *)
(* of edited sites by a timer or when the window closes (pipeline/         *)
(* service.py).  One thread works for the window at a time; runs of others *)
(* are kept away by the locks of PipelineLock, but between the preview and *)
(* the sync, and in the pulls and pushes around them, the history and the  *)
(* device list may change.  A row names the device itself here: keys,      *)
(* aliases and old '*' rows are in SyncPipeline; the files of the shared   *)
(* folder are in BackupFolder.                                             *)
(***************************************************************************)
EXTENDS Naturals, FiniteSets

CONSTANTS Article, SiteOf,  \* the articles and the name of the site of each
          Device, Configs,  \* the devices, and the device lists there may be
          MaxOutside        \* bound: what happens beside the window's thread

ASSUME SelectedAssumption == Configs \subseteq SUBSET Device /\ MaxOutside \in Nat

VARIABLES history,    \* rows <<article, device>>
          received,   \* what has reached each device
          devices,    \* the device list in config.json
          uploader,   \* the devices the service's uploader was built for
          elsewhere,  \* a run of somebody else holds the locks
          window,     \* "free", "busy", "dialog", "closed", "left" for an update
          pc,         \* the window's thread
          articles,   \* what the preview found, then what was chosen from it
          run,        \* the locals of sync_selected_articles
          auto,       \* the folder is set and auto_export is on
          timer,      \* _backup_push_timer: "none", "set", "fired"
          edited,     \* a site was edited, with exports on, since the last export
          flushed,    \* history: the export at the close: "no", "ok", "failed"
          outside     \* bounded: the events beside the thread so far

disk == <<history, received, devices>>
export == <<auto, timer, edited, flushed>>
vars == <<disk, uploader, elsewhere, window, pc, articles, run, export, outside>>

\* The settings of a run: digest or sites, a global history or one per device.
Modes == [digest : BOOLEAN, global : BOOLEAN]

\* Groups of articles to send, the group at hand with the devices it lacks,
\* those tried and those that answered, and the groups behind success_count and
\* partial_count.
NoRun == [mode |-> [digest |-> FALSE, global |-> FALSE], targets |-> {}, todo |-> {},
          group |-> {}, pending |-> {}, tried |-> {}, ok |-> {}, done |-> {},
          partial |-> {}]
Runs == [mode : Modes, targets : SUBSET Device, todo : SUBSET SUBSET Article,
         group : SUBSET Article, pending : SUBSET Device, tried : SUBSET Device,
         ok : SUBSET Device, done : SUBSET SUBSET Article,
         partial : SUBSET SUBSET Article]

TypeOK ==
    /\ history \subseteq Article \X Device
    /\ received \in [Device -> SUBSET Article]
    /\ devices \in SUBSET Device /\ uploader \in SUBSET Device
    /\ elsewhere \in BOOLEAN
    /\ window \in {"free", "busy", "dialog", "closed", "left"}
    /\ pc \in {"idle", "sync", "preview", "scan", "shown", "start", "pull", "group",
               "upload", "mark", "push", "finished", "dead"}
    /\ articles \in SUBSET Article
    /\ run \in Runs
    /\ run.ok \subseteq run.tried /\ run.tried \subseteq run.pending
    /\ auto \in BOOLEAN /\ edited \in BOOLEAN
    /\ timer \in {"none", "set", "fired"} /\ flushed \in {"no", "ok", "failed"}
    /\ outside \in 0..MaxOutside

Init ==
    /\ history = {} /\ received = [d \in Device |-> {}]
    /\ devices \in Configs /\ uploader = devices
    /\ elsewhere = FALSE
    /\ window = "free" /\ pc = "idle"
    /\ articles = {} /\ run = NoRun
    /\ auto \in BOOLEAN /\ timer = "none" /\ edited = FALSE /\ flushed = "no"
    /\ outside = 0

-----------------------------------------------------------------------------
Open == window \notin {"closed", "left"}
Locked == elsewhere \/ pc \notin {"idle", "preview", "shown", "start", "finished", "dead"}

Synced(a) == \E d \in Device : <<a, d>> \in history
Single(ds) == Cardinality(ds) = 1

\* needs_sync, under the settings m.
NeedsSync(a, ds, m) ==
    IF m.global \/ ds = {} \/ (Single(ds) /\ Synced(a))
    THEN ~Synced(a)
    ELSE \E d \in ds : <<a, d>> \notin history

\* resolve_pending_upload_ips
Pending(g) ==
    IF (run.mode.global \/ Single(run.targets)) /\ \A a \in g : Synced(a) THEN {}
    ELSE IF run.mode.global THEN run.targets
    ELSE {d \in run.targets : \E a \in g : <<a, d>> \notin history}

Groups(m) ==
    IF m.digest THEN {articles}
    ELSE {{a \in articles : SiteOf[a] = s} : s \in {SiteOf[b] : b \in articles}}

\* Faulty: the devices that were not asked are overlooked.
AllAnswered == run.ok # {} /\ run.ok = run.tried

\* upload_all_ok
AllOk == run.ok # {} /\ run.ok = run.pending

\* Faulty: one success marks every device of the group.
MarksForAll == {<<a, d>> : a \in run.group, d \in run.pending}

\* collect_mark_entries
Marks == {<<a, d>> : a \in run.group, d \in run.ok}

\* Deliveries by others, with their rows, or rows of the shared folder that a pull
\* or a push unites into the history, rows deleted here among them.
Delivered ==
    \E rows \in SUBSET ((Article \X Device) \ history) :
        /\ history' = history \cup rows
        /\ received' = [d \in Device |->
                            received[d] \cup {a \in Article : <<a, d>> \in rows}]

Idle(thread) ==
    /\ window = "free"
    /\ window' = "busy" /\ pc' = thread
    /\ UNCHANGED <<disk, uploader, elsewhere, articles, run, export>>

-----------------------------------------------------------------------------
\* The window's buttons; while it is busy they are disabled.
RunImmediateSync == Idle(IF Locked THEN "finished" ELSE "sync")

OpenPreview == Idle("preview")

\* The answer to the dialog: a choice, which is refused while a run holds the
\* locks, or none.
ChooseArticles ==
    /\ window = "dialog"
    /\ \E choice \in SUBSET articles :
          IF choice = {} \/ Locked
          THEN window' = "free" /\ articles' = {} /\ UNCHANGED pc
          ELSE window' = "busy" /\ pc' = "start" /\ articles' = choice
    /\ UNCHANGED <<disk, uploader, elsewhere, run, export>>

\* The thread's callbacks in the window.
ShowPreviewResults ==
    /\ pc = "shown"
    /\ pc' = "idle"
    /\ window' = IF articles = {} THEN "free" ELSE "dialog"
    /\ UNCHANGED <<disk, uploader, elsewhere, articles, run, export>>

SyncFinishedUi ==
    /\ pc = "finished"
    /\ pc' = "idle" /\ window' = "free" /\ articles' = {}
    /\ UNCHANGED <<disk, uploader, elsewhere, run, export>>

-----------------------------------------------------------------------------
\* The preview: refused without the locks, otherwise the pull (with what it
\* imports), and then what is new under the settings of the moment.
BeginPreview ==
    /\ pc = "preview"
    /\ IF Locked
       THEN pc' = "shown" /\ UNCHANGED <<history, received, uploader>>
       ELSE pc' = "scan" /\ Delivered /\ uploader' = devices
    /\ UNCHANGED <<devices, elsewhere, window, articles, run, export>>

PreviewArticles ==
    /\ pc = "scan"
    /\ \E found \in SUBSET Article, m \in Modes :
          articles' = {a \in found : NeedsSync(a, devices, m)}
    /\ pc' = "shown"
    /\ UNCHANGED <<disk, uploader, elsewhere, window, run, export>>

\* sync_selected_articles: the locks and the pull ...
BeginSelected ==
    /\ pc = "start"
    /\ IF Locked
       THEN pc' = "finished" /\ UNCHANGED <<history, received>>
       ELSE pc' = "pull" /\ Delivered
    /\ UNCHANGED <<devices, uploader, elsewhere, window, articles, run, export>>

\* ... the settings, without a look at what was new for the preview ...
ReadSettings ==
    /\ pc = "pull"
    /\ uploader' = devices
    /\ IF devices = {}
       THEN pc' = "finished" /\ UNCHANGED run
       ELSE /\ pc' = "group"
            /\ \E m \in Modes : run' = [NoRun EXCEPT !.mode = m, !.targets = devices,
                                                     !.todo = Groups(m)]
    /\ UNCHANGED <<disk, elsewhere, window, articles, export>>

\* ... and the groups, one after the other: to which devices,
NextGroup ==
    /\ pc = "group"
    /\ \E g \in run.todo :
          IF Pending(g) = {}
          THEN run' = [run EXCEPT !.todo = @ \ {g}, !.done = @ \cup {g}] /\ UNCHANGED pc
          ELSE /\ run' = [run EXCEPT !.todo = @ \ {g}, !.group = g, !.pending = Pending(g)]
               /\ pc' = "upload"
    /\ UNCHANGED <<disk, uploader, elsewhere, window, articles, export>>

\* which receive the file, with or without an answer, as far as the uploader
\* still knows them,
Upload ==
    /\ pc = "upload"
    /\ LET ips == run.pending \cap uploader
       IN \E good, silent \in SUBSET ips :
             /\ run' = [run EXCEPT !.tried = ips, !.ok = good]
             /\ received' = [d \in Device |-> IF d \in good \cup silent
                                              THEN received[d] \cup run.group ELSE received[d]]
    /\ pc' = "mark"
    /\ UNCHANGED <<history, devices, uploader, elsewhere, window, articles, export>>

\* and what is noted of the answers.
Mark ==
    /\ pc = "mark"
    /\ history' = history \cup Marks
    /\ run' = [run EXCEPT
                  !.done = IF AllOk THEN @ \cup {run.group} ELSE @,
                  !.partial = IF run.ok # {} /\ ~AllOk THEN @ \cup {run.group} ELSE @,
                  !.group = {}, !.pending = {}, !.tried = {}, !.ok = {}]
    /\ pc' = "group"
    /\ UNCHANGED <<received, devices, uploader, elsewhere, window, articles, export>>

\* overall_ok
Success == run.done = Groups(run.mode) /\ run.partial = {}

EndSelected ==
    /\ pc = "group" /\ run.todo = {}
    /\ pc' = "push"
    /\ UNCHANGED <<disk, uploader, elsewhere, window, articles, run, export>>

\* push: done, or failing before or after the sites are written or the rows united.
Push == edited' \in {edited, FALSE} /\ Delivered

\* maybe_backup_push, which does nothing where exports are off.
MaybeBackupPush ==
    /\ IF auto THEN Push ELSE UNCHANGED <<edited, history, received>>
    /\ uploader' = devices

PushAfterRun ==
    /\ pc = "push"
    /\ MaybeBackupPush
    /\ pc' = "finished" /\ run' = NoRun
    /\ UNCHANGED <<devices, elsewhere, window, articles, auto, timer, flushed>>

\* The thread's run of the whole pipeline, which is SyncPipeline.
RunSyncPipeline ==
    /\ pc = "sync"
    /\ Delivered
    /\ uploader' = devices
    /\ pc' = "finished"
    /\ UNCHANGED <<devices, elsewhere, window, articles, run, export>>

\* An EPUB that cannot be written, a database error: the thread dies, the
\* locks are given back, and nobody tells the window.
Dies ==
    /\ pc \in {"preview", "scan", "start", "pull", "group", "upload", "mark", "sync"}
    /\ pc' = "dead" /\ run' = NoRun
    /\ UNCHANGED <<disk, uploader, elsewhere, window, articles, export>>

-----------------------------------------------------------------------------
\* A run of the scheduler, the dashboard or the folder watch.
OtherRun ==
    /\ IF elsewhere
       THEN elsewhere' = FALSE /\ Delivered
       ELSE elsewhere' = TRUE /\ ~Locked /\ UNCHANGED <<history, received>>
    /\ UNCHANGED <<devices, uploader, window, pc, articles, run, export>>

\* The device list is saved; the service does not hear of it.
EditDevices ==
    /\ devices' \in Configs \ {devices}
    /\ UNCHANGED <<history, received, uploader, elsewhere, window, pc, articles, run, export>>

\* schedule_backup_push
ScheduleBackupPush == IF auto THEN timer' = "set" ELSE UNCHANGED timer

\* Articles are deleted in the history tab, each with all its rows; an error after
\* some of them skips the export.
DeleteRows ==
    /\ \E gone \in SUBSET Article : history' = {r \in history : r[1] \notin gone}
    /\ history' # history
    /\ ScheduleBackupPush \/ UNCHANGED timer
    /\ UNCHANGED <<received, devices, uploader, elsewhere, window, pc, articles, run, auto,
                   edited, flushed>>

\* A site is saved in the sites tab.
EditSite ==
    /\ ScheduleBackupPush
    /\ edited' = (edited \/ auto)
    /\ UNCHANGED <<disk, uploader, elsewhere, window, pc, articles, run, auto, flushed>>

SwitchAutoExport ==
    /\ auto' = ~auto
    /\ UNCHANGED <<disk, uploader, elsewhere, window, pc, articles, run, timer, edited,
                   flushed>>

\* The timer's thread.
Expire(reference) ==
    /\ timer = "set"
    /\ timer' = reference
    /\ MaybeBackupPush
    /\ UNCHANGED <<devices, elsewhere, window, pc, articles, run, auto, flushed>>

\* Faulty: the reference is reset whether or not the export succeeded.
FireAndForget == Expire("none")

\* The reference stays.
Fire == Expire("fired")

\* The process ends with its threads,
Leave(how) ==
    /\ window' = how /\ pc' = "idle" /\ timer' = "none"
    /\ articles' = {} /\ run' = NoRun

\* _on_close: after flush_backup_push, which exports also where exports are off by
\* now,
OnClose ==
    /\ Leave("closed")
    /\ IF timer = "none"
       THEN UNCHANGED <<edited, history, received, flushed>>
       ELSE Push /\ flushed' = IF edited' THEN "failed" ELSE "ok"
    /\ UNCHANGED <<devices, uploader, elsewhere, auto>>

\* or launch_update_and_exit: at once.
ExitForUpdate ==
    /\ Leave("left")
    /\ UNCHANGED <<disk, uploader, elsewhere, auto, edited, flushed>>

Thread == BeginPreview \/ PreviewArticles \/ BeginSelected \/ ReadSettings \/ NextGroup
          \/ Upload \/ Mark \/ EndSelected \/ PushAfterRun \/ Dies \/ RunSyncPipeline

Window == RunImmediateSync \/ OpenPreview \/ ChooseArticles \/ ShowPreviewResults
          \/ SyncFinishedUi \/ Fire \/ OnClose \/ ExitForUpdate

Outside == OtherRun \/ EditDevices \/ DeleteRows \/ EditSite \/ SwitchAutoExport

Next ==
    /\ Open
    /\ \/ (Thread \/ Window) /\ UNCHANGED outside
       \/ Outside /\ outside < MaxOutside /\ outside' = outside + 1

Spec == Init /\ [][Next]_vars

-----------------------------------------------------------------------------
\* Every row of the history stands for a delivery: whatever is edited between
\* the preview, the pull and the upload, no device is marked that was not asked
\* or did not answer (collect_mark_entries).
RowsAreDeliveries == \A r \in history : r[1] \in received[r[2]]

\* A run that reports success has brought every selected article to each of its
\* devices, or to one of them where one row counts for all (a global history, a
\* single device), although devices may leave the uploader while it runs.
SelectedDelivered ==
    pc = "push" /\ Success =>
        \A a \in articles :
            IF run.mode.global \/ Single(run.targets)
            THEN \E d \in Device : a \in received[d]
            ELSE \A d \in run.targets : a \in received[d]

\* Edits of the sites leave the window with it when the user closes it: one made
\* while exports are on is exported by the timer, by a run or at the close, unless
\* the last attempt failed (flush_backup_push). It is not so when the program leaves
\* for an update.
EditsExported == window = "closed" /\ edited => flushed = "failed"

\* The history is a log of deliveries here too, and the runs of which only their
\* deliveries are modelled (RunSyncPipeline, OtherRun) do what SyncPipeline does.
HasArrived == {p \in Article \X Device : p[1] \in received[p[2]]}

Log == INSTANCE DeliveryLog WITH arrived <- HasArrived, noted <- history,
                                 MayForget <- TRUE

ImplementsDeliveryLog == Log!Spec
=============================================================================
