----------------------------- MODULE ConfigStore -----------------------------
(***************************************************************************)
(* config.json and the copies of it in memory: ConfigManager's file with   *)
(* its temporary file, lock and revision, service.config of each process,  *)
(* the window's list of sites with its dialogs, and the background threads *)
(* that pull and push the shared data folder.                              *)
(*                                                                         *)
(* A configuration is its revision, the addresses of its sites in order,   *)
(* one setting that stands for every other key the user edits, and the     *)
(* stamp last_sites_push_at that a push records. The lock of ConfigManager *)
(* belongs to a process; the files belong to all.                          *)
(***************************************************************************)
EXTENDS Naturals, Sequences, SequencesExt

CONSTANTS Process, Thread, Home, \* the process of a thread
          Window,                \* the thread of the window, if there is one
          Address,               \* addresses of sites
          FirstSites,            \* the sites at the start
          Unfit,                 \* addresses the validator refuses to save
          MaxOps,                \* bound: operations a thread starts
          Disturbances,          \* which of the troubles below may happen
          None

ASSUME ConfigAssumption ==
  /\ Home \in [Thread -> Process]
  /\ Window \in Thread
  /\ FirstSites \in Seq(Address)
  /\ Unfit \subseteq Address
  /\ MaxOps \in Nat
  /\ Disturbances \subseteq {"fail", "crash", "blind", "twice"}
  /\ None \notin Thread

MaxRetries == 3 \* max_conflict_retries

Half == [rev |-> 0, sites |-> <<>>, setting |-> 0, stamp |-> 0, whole |-> FALSE]
Default == [rev |-> 0, sites |-> FirstSites, setting |-> 0, stamp |-> 0, whole |-> TRUE]
NoWish == [kind |-> "none", site |-> None]

VARIABLES
  file, tmp,   \* config.json and config.json.tmp (None: there is none)
  lock,        \* ConfigManager._lock of each process
  mem,         \* service.config of each process
  shown,       \* the list of sites in the window, whose rows are numbers
  chosen,      \* the row a dialog is open for, and the address it showed
  pc,          \* where a thread is
  work,        \* the configuration a thread is about to save
  tries,       \* conflicts met by the save under way
  own,         \* what the window saves is service.config itself
  unsaved,     \* a save was refused or failed since the list was last drawn
  wish,        \* what the save of the window is for
  ops          \* operations started

files == <<file, tmp>>
window == <<shown, chosen, own, unsaved, wish>>
thread == <<pc, work, tries>>
vars == <<files, lock, mem, window, thread, ops>>

Config == [rev : Nat, sites : Seq(Address), setting : Nat, stamp : Nat,
           whole : BOOLEAN]

Wish == [kind : {"none", "add", "import", "delete", "set", "blind"},
         site : Address \cup {None}]

TypeOK ==
  /\ file \in Config /\ tmp \in Config \cup {None}
  /\ lock \in [Process -> Thread \cup {None}]
  /\ mem \in [Process -> Config]
  /\ shown \in Seq(Address)
  /\ chosen \in [row : Nat, site : Address \cup {None}]
  /\ pc \in [Thread -> {"idle", "ask", "compare", "open", "dump", "replace",
                        "reload"}]
  /\ work \in [Thread -> Config]
  /\ tries \in 0..MaxRetries
  /\ own \in BOOLEAN /\ unsaved \in BOOLEAN
  /\ wish \in Wish
  /\ ops \in [Thread -> 0..MaxOps]

-----------------------------------------------------------------------------
(* merge_sites: the union by address, in the order of the first list.      *)

WithSite(sites, s) == IF s \in ToSet(sites) THEN sites ELSE Append(sites, s)

\* What is left of the first n of a list, for every n.
Firsts(all) ==
  LET first[n \in 0..Len(all)] ==
        IF n = 0 THEN <<>> ELSE WithSite(first[n - 1], all[n])
  IN  first

\* Faulty: the list of the others becomes one more entry.
MergeNested(local, remote) == Append(local, remote)

\* Faulty: what comes from outside goes first.
MergeAhead(local, remote) == Firsts(remote \o local)[Len(remote \o local)]

Merge(local, remote) == Firsts(local \o remote)[Len(local \o remote)]

\* Faulty: memory replaces the sites on disk.
MergeForgetful(disk, memory) == [memory EXCEPT !.rev = disk.rev]

\* Faulty: what is on disk is kept as it is.
MergeDisk(disk, memory) == disk

\* _merge_config_on_conflict: every key of memory, the sites of both.
MergeOnConflict(disk, memory) ==
  [memory EXCEPT !.rev = disk.rev, !.sites = Merge(disk.sites, memory.sites)]

\* _is_fatal_config_error of validate_config
Fatal(config) == \E s \in ToSet(config.sites) : s \in Unfit

Bumped(config) == [config EXCEPT !.rev = @ + 1]

Begun(t) ==
  /\ pc[t] = "idle" /\ ops[t] < MaxOps
  /\ ops' = [ops EXCEPT ![t] = @ + 1]

Goes(t, place) == pc' = [pc EXCEPT ![t] = place]

\* The locals of a thread that is done are gone.
Ends(t) == Goes(t, "idle") /\ work' = [work EXCEPT ![t] = Default]
Closed == chosen' = [row |-> 0, site |-> None]

Init ==
  /\ file = Default /\ tmp = None
  /\ lock = [p \in Process |-> None]
  /\ mem = [p \in Process |-> Default]
  /\ shown = FirstSites /\ chosen = [row |-> 0, site |-> None]
  /\ pc = [t \in Thread |-> "idle"]
  /\ work = [t \in Thread |-> Default]
  /\ tries = 0 /\ own = FALSE /\ unsaved = FALSE /\ wish = NoWish
  /\ ops = [t \in Thread |-> 0]

-----------------------------------------------------------------------------
(* The window: handlers change service.config in place and save it.        *)

Here == mem[Home[Window]]

\* The first lines of _safe_save_config: what the validator refuses stays in
\* memory unsaved, and the list is not drawn again.
SafeSave(config, kind, site) ==
  /\ mem' = [mem EXCEPT ![Home[Window]] = config]
  /\ IF Fatal(config)
     THEN Ends(Window) /\ unsaved' = TRUE /\ UNCHANGED <<tries, own, wish>>
     ELSE /\ Goes(Window, "compare") /\ UNCHANGED unsaved
          /\ work' = [work EXCEPT ![Window] = config]
          /\ tries' = 0 /\ own' = TRUE
          /\ wish' = [kind |-> kind, site |-> site]
  /\ UNCHANGED <<files, lock, shown>>

\* save_site of a new site: no address is refused for being there already.
AddSite(u) ==
  /\ Begun(Window)
  /\ u \notin Unfit
  /\ u \in ToSet(Here.sites) => "twice" \in Disturbances
  /\ SafeSave([Here EXCEPT !.sites = Append(@, u)], "add", u)
  /\ UNCHANGED chosen

\* _save_ui_settings, _toggle_site_enabled and the other dialogs
SaveSettings ==
  /\ Begun(Window)
  /\ SafeSave([Here EXCEPT !.setting = @ + 1], "set", None)
  /\ UNCHANGED chosen

\* A row is selected and the question or the dialog opens.
Choose(row) ==
  /\ Begun(Window)
  /\ chosen' = [row |-> row, site |-> shown[row]]
  /\ Goes(Window, "ask")
  /\ UNCHANGED <<files, lock, mem, shown, own, unsaved, wish, work, tries>>

Decline ==
  /\ pc[Window] = "ask"
  /\ Goes(Window, "idle") /\ Closed
  /\ UNCHANGED <<files, lock, mem, shown, own, unsaved, wish, work, tries, ops>>

\* _delete_site: the row number is looked up in service.config as it is now.
DeleteSite ==
  /\ pc[Window] = "ask"
  /\ chosen.row \in DOMAIN Here.sites
  /\ SafeSave([Here EXCEPT !.sites = RemoveAt(@, chosen.row)], "delete",
              Here.sites[chosen.row])
  /\ Closed
  /\ UNCHANGED ops

\* save_site of the dialog that was opened for a row, with another address.
EditSite(u) ==
  /\ pc[Window] = "ask"
  /\ chosen.row \in DOMAIN Here.sites
  /\ u \notin Unfit \cup ToSet(Here.sites)
  /\ SafeSave([Here EXCEPT !.sites = ReplaceAt(@, chosen.row, u)], "delete",
              Here.sites[chosen.row])
  /\ Closed
  /\ UNCHANGED ops

\* A pull that has ended draws the list again, also behind an open question.
DrawList ==
  /\ pc[Window] \in {"idle", "ask"}
  /\ shown' = Here.sites
  /\ UNCHANGED <<files, lock, mem, chosen, own, unsaved, wish, thread, ops>>

-----------------------------------------------------------------------------
(* ConfigManager.                                                          *)

TakeLock(t) ==
  /\ lock[Home[t]] = None
  /\ lock' = [lock EXCEPT ![Home[t]] = t]

GiveLock(t) == lock' = [lock EXCEPT ![Home[t]] = None]

\* save_config with the revision that was loaded: it is the one on disk. The
\* dictionary that is saved is service.config itself unless it was merged or a
\* reload has put another in its place, and it is counted up before it is
\* written.
Compare ==
  /\ pc[Window] = "compare"
  /\ file.rev = work[Window].rev
  /\ TakeLock(Window)
  /\ work' = [work EXCEPT ![Window] = Bumped(@)]
  /\ mem' = IF own /\ tries = 0
            THEN [mem EXCEPT ![Home[Window]] = Bumped(@)] ELSE mem
  /\ Goes(Window, "open")
  /\ UNCHANGED <<files, window, tries, ops>>

\* The file has another revision: merge and try again, three times.
Conflict ==
  /\ pc[Window] = "compare"
  /\ lock[Home[Window]] = None
  /\ file.rev # work[Window].rev
  /\ IF tries < MaxRetries
     THEN /\ tries' = tries + 1
          /\ work' = [work EXCEPT ![Window] =
                        MergeOnConflict(IF file.whole THEN file ELSE Default, @)]
          /\ UNCHANGED <<pc, unsaved, wish>>
     ELSE Ends(Window) /\ tries' = 0 /\ unsaved' = (unsaved \/ own) /\ wish' = NoWish
  /\ UNCHANGED <<files, lock, mem, shown, chosen, own, ops>>

\* save_config without a revision: theme, updater settings, first-run wizard.
BlindSave ==
  /\ "blind" \in Disturbances
  /\ Begun(Window)
  /\ TakeLock(Window)
  /\ LET config == Bumped([Here EXCEPT !.setting = @ + 1]) IN
       /\ mem' = [mem EXCEPT ![Home[Window]] = config]
       /\ work' = [work EXCEPT ![Window] = config]
  /\ wish' = [kind |-> "blind", site |-> None] /\ own' = TRUE
  /\ Goes(Window, "open")
  /\ UNCHANGED <<files, shown, chosen, unsaved, tries>>

\* update_config: read, change and save under the lock.
Update(t, config) ==
  /\ Begun(t)
  /\ file.whole
  /\ TakeLock(t)
  /\ work' = [work EXCEPT ![t] = Bumped(config)]
  /\ Goes(t, "open")
  /\ UNCHANGED <<files, mem, shown, chosen, unsaved, tries>>

ImportSites(u) ==
  /\ Update(Window, [file EXCEPT !.sites = WithSite(@, u)])
  /\ wish' = [kind |-> "import", site |-> u] /\ own' = FALSE

\* _pull_unlocked and import_local_sidecars take over a site.
PullSite(t, u) ==
  /\ t # Window
  /\ Update(t, [file EXCEPT !.sites = Merge(@, <<u>>)])
  /\ UNCHANGED <<own, wish>>

\* _push_unlocked records that it has exported the sites.
StampPush(t) ==
  /\ t # Window
  /\ Update(t, [file EXCEPT !.stamp = @ + 1])
  /\ UNCHANGED <<own, wish>>

\* _save_config_unlocked: open truncates the temporary file ...
OpenTmp(t) ==
  /\ pc[t] = "open"
  /\ tmp' = Half
  /\ Goes(t, "dump")
  /\ UNCHANGED <<file, lock, mem, window, work, tries, ops>>

\* Faulty: the file itself is written.
DumpInPlace(t) ==
  /\ pc[t] = "dump"
  /\ tmp' = work[t] /\ file' = Half
  /\ Goes(t, "replace")
  /\ UNCHANGED <<lock, mem, window, work, tries, ops>>

\* ... dump and fsync fill it ...
DumpTmp(t) ==
  /\ pc[t] = "dump"
  /\ tmp' = work[t]
  /\ Goes(t, "replace")
  /\ UNCHANGED <<file, lock, mem, window, work, tries, ops>>

\* ... and os.replace puts it in the place of config.json.
Replace(t) ==
  /\ pc[t] = "replace" /\ tmp # None
  /\ file' = tmp /\ tmp' = None
  /\ GiveLock(t)
  /\ IF t = Window /\ wish.kind = "blind"
     THEN Ends(t) ELSE Goes(t, "reload") /\ UNCHANGED work
  /\ UNCHANGED <<mem, window, tries, ops>>

\* Faulty: the lock is not given back.
SaveFailsLocked(t) ==
  /\ pc[t] \in {"open", "dump", "replace"} /\ "fail" \in Disturbances
  /\ tmp' = None
  /\ Ends(t)
  /\ UNCHANGED <<file, lock, mem, window, tries, ops>>

\* The write or the replacement fails, or another process has taken the file.
SaveFails(t) ==
  /\ \/ pc[t] \in {"open", "dump", "replace"} /\ "fail" \in Disturbances
     \/ pc[t] = "replace" /\ tmp = None
  /\ tmp' = None
  /\ GiveLock(t)
  /\ Ends(t)
  /\ IF t = Window
     THEN wish' = NoWish /\ tries' = 0 /\ unsaved' = (unsaved \/ own)
     ELSE UNCHANGED <<wish, tries, unsaved>>
  /\ UNCHANGED <<file, mem, shown, chosen, own, ops>>

\* _reload_config. The handlers of the sites draw the list afterwards.
Reload(t) ==
  /\ pc[t] = "reload"
  /\ lock[Home[t]] = None
  /\ IF file.whole
     THEN mem' = [mem EXCEPT ![Home[t]] = file] ELSE UNCHANGED mem
  /\ IF t = Window
     THEN /\ wish' = NoWish /\ tries' = 0 /\ UNCHANGED own
          /\ IF file.whole /\ wish.kind # "set"
             THEN shown' = file.sites /\ unsaved' = FALSE
             ELSE UNCHANGED <<shown, unsaved>>
     ELSE /\ own' = (own /\ Home[t] # Home[Window])
          /\ UNCHANGED <<shown, unsaved, wish, tries>>
  /\ Ends(t)
  /\ UNCHANGED <<files, lock, chosen, ops>>

\* The process dies and starts again.
Crash(p) ==
  /\ "crash" \in Disturbances
  /\ \E t \in Thread : Home[t] = p /\ pc[t] # "idle"
  /\ lock' = [lock EXCEPT ![p] = None]
  /\ mem' = [mem EXCEPT ![p] = IF file.whole THEN file ELSE @]
  /\ pc' = [t \in Thread |-> IF Home[t] = p THEN "idle" ELSE pc[t]]
  /\ IF p = Home[Window]
     THEN shown' = mem'[p].sites /\ Closed /\ own' = FALSE /\ unsaved' = FALSE /\ wish' = NoWish /\ tries' = 0
     ELSE UNCHANGED <<window, tries>>
  /\ work' = [t \in Thread |-> IF Home[t] = p THEN Default ELSE work[t]]
  /\ UNCHANGED <<files, ops>>

-----------------------------------------------------------------------------
WindowStep ==
  \/ \E u \in Address : AddSite(u) \/ EditSite(u) \/ ImportSites(u)
  \/ SaveSettings \/ BlindSave
  \/ \E row \in DOMAIN shown : Choose(row)
  \/ Decline \/ DeleteSite \/ DrawList
  \/ Compare \/ Conflict

FileStep(t) == OpenTmp(t) \/ DumpTmp(t) \/ Replace(t) \/ SaveFails(t) \/ Reload(t)

WorkerStep(t) == StampPush(t) \/ (\E u \in Address : PullSite(t, u))

Next ==
  \/ WindowStep
  \/ \E t \in Thread : FileStep(t) \/ WorkerStep(t)
  \/ \E p \in Process : Crash(p)

Spec == Init /\ [][Next]_vars

\* Nobody waits for the user in the middle of a save.
Fairness ==
  /\ \A t \in Thread : WF_vars(FileStep(t))
  /\ WF_vars(Compare \/ Conflict)

FairSpec == Spec /\ Fairness

-----------------------------------------------------------------------------
(* Properties.                                                             *)

\* Whoever opens config.json finds a whole configuration, in the middle of a
\* save, after a failed one and after a crash.
FileWhole == file.whole

\* A save that compares revisions loses nothing: a site leaves the file only
\* because the user deleted it or gave it another address. What can drop a site
\* another thread has added is a save without a revision, and one that goes out
\* with what a refused or failed save has left in memory.
ForeignSitesKept ==
  [][\A u \in ToSet(file.sites) \ ToSet(file'.sites) :
       \/ wish = [kind |-> "delete", site |-> u]
       \/ wish.kind = "blind" \/ unsaved]_vars

\* The site a question or a dialog was opened for is the one its row number
\* stands for when it is answered.
RowMeansSite ==
  pc[Window] = "ask" =>
    /\ chosen.row \in DOMAIN Here.sites
    /\ Here.sites[chosen.row] = chosen.site

\* Pulls, merges and other saves do not move the rows under an open question:
\* only a save that was refused or failed, and left its edit in memory, does.
ChosenIsMeant == unsaved \/ RowMeansSite

\* A save the window calls a success has stored what the user wanted. A
\* deletion may be undone, but only by the merge that follows a conflict.
SavedMeansStored ==
  [][pc[Window] = "replace" /\ pc'[Window] = "reload" =>
       CASE wish.kind \in {"add", "import"} -> wish.site \in ToSet(file'.sites)
         [] wish.kind = "set"    -> file'.setting > file.setting
         [] wish.kind = "delete" -> wish.site \notin ToSet(file'.sites) \/ tries > 0
         [] OTHER -> TRUE]_vars

\* Threads of one process do not refuse the window: its retries are enough.
EverySaveEnds == pc[Window] = "compare" ~> pc[Window] = "idle"

\* Threads of one process number the versions of the file: between the comparison of
\* a save and its replacement nobody else replaces it, whatever fails or dies.
Versions == INSTANCE VersionedFile WITH content <- file, First <- Default,
                                        MayBeBlind <- "blind" \in Disturbances

ImplementsVersionedFile == Versions!Spec
=============================================================================
