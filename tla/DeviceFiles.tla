----------------------------- MODULE DeviceFiles -----------------------------
(***************************************************************************)
(* The tab that lists and changes the files on a reader: the device chosen *)
(* in it, the listing it shows, one question at a time, and one job at a   *)
(* time that a thread carries out over X3DeviceClient and whose end comes  *)
(* back to the window as a callback. Meanwhile the device list is edited   *)
(* in another tab and a sync run uploads to the same devices.              *)
(*                                                                         *)
(* A file on a device is a pair <<folder, name>>. An answer of the device  *)
(* may be lost after it has done what it was asked.                        *)
(***************************************************************************)
EXTENDS Naturals, Sequences, FiniteSets, SequencesExt

CONSTANTS Device,
          Dir, Root,   \* folders; every device has Root
          Name,        \* file names, on devices and on the computer
          Old,         \* the sync EPUBs filter_old_sync_epubs picks
          Configs,     \* the device lists the user may save
          FirstFiles,  \* what is on each device at the start
          MaxOps,      \* bound: jobs the user starts
          MaxOutside,  \* bound: edits and uploads of others
          None

ASSUME FilesAssumption ==
  /\ Root \in Dir
  /\ Old \subseteq Name
  /\ Configs \subseteq Seq(Device)
  /\ FirstFiles \in [Device -> SUBSET (Dir \X Name)]
  /\ MaxOps \in Nat /\ MaxOutside \in Nat
  /\ None \notin Device \cup Dir \cup Name

VARIABLES
  sd, folders,  \* the files and folders of each device
  config,       \* the devices of config.json, the one of x3_ip first
  choices,      \* _device_choices: config when the combo box was last filled
  selected,     \* the device in the combo box
  items,        \* the files shown: the device and folder they are from
  at,           \* _current_path
  asking,       \* the question that is open, if any
  busy,         \* _busy
  job,          \* what the thread is doing
  arrived,      \* files that came to a device after an upload looked
  behind,       \* a job that reported success has changed the device since it
                \* was listed
  ops, outside

device == <<sd, folders>>
counts == <<ops, outside>>
vars == <<device, config, choices, selected, items, at, asking, busy, job,
          arrived, behind, counts>>

Kinds == {"none", "list", "delete", "mkdir", "rename", "move", "download",
          "upload"}

\* What a job or a question is about. warned holds the names the user has
\* agreed to overwrite; state goes from "run" to "done" or "dead".
Task == [kind : Kinds, dev : Device \cup {None}, dir : Dir, names : SUBSET Name,
         arg : Dir \cup Name \cup {None}, warned : SUBSET Name,
         failed : BOOLEAN, state : {"run", "done", "dead"}]

NoTask == [kind |-> "none", dev |-> None, dir |-> Root, names |-> {},
           arg |-> None, warned |-> {}, failed |-> FALSE, state |-> "run"]

NoItems == [dev |-> None, dir |-> Root, names |-> {}]

TypeOK ==
  /\ sd \in [Device -> SUBSET (Dir \X Name)]
  /\ folders \in [Device -> SUBSET Dir]
  /\ config \in Configs /\ choices \in Configs
  /\ selected \in Device \cup {None}
  /\ items \in [dev : Device \cup {None}, dir : Dir, names : SUBSET Name]
  /\ at \in Dir
  /\ asking \in Task /\ job \in Task
  /\ busy \in BOOLEAN
  /\ arrived \subseteq Device \X Name
  /\ behind \in BOOLEAN
  /\ ops \in 0..MaxOps /\ outside \in 0..MaxOutside

Init ==
  /\ sd = FirstFiles
  /\ folders = [d \in Device |-> {Root} \cup {f[1] : f \in FirstFiles[d]}]
  /\ config \in Configs /\ choices = config
  /\ selected = IF config = <<>> THEN None ELSE Head(config)
  /\ items = NoItems /\ at = Root
  /\ asking = NoTask /\ busy = FALSE /\ job = NoTask
  /\ arrived = {} /\ behind = FALSE
  /\ ops = 0 /\ outside = 0

-----------------------------------------------------------------------------
(* The tab.                                                                *)

Free == ~busy /\ asking = NoTask /\ ops < MaxOps

\* refresh_device_list: the combo box keeps its text if it is still a choice;
\* the text names the device and says whether it is the default one.
Reselected(dev) ==
  IF config = <<>> THEN None
  ELSE IF dev \in ToSet(config) /\ (dev = Head(config) <=> dev = Head(choices))
       THEN dev ELSE Head(config)

\* _resolve_host of a client made now: no device means the one of x3_ip.
Host(dev) == IF dev # None THEN dev
             ELSE IF config = <<>> THEN None ELSE Head(config)

Starts(task) == busy' = TRUE /\ job' = task

\* refresh, also at the end of a job: without a device only a warning.
Relist(dev, dir) ==
  /\ choices' = config
  /\ selected' = Reselected(dev)
  /\ IF Reselected(dev) = None
     THEN busy' = FALSE /\ job' = NoTask /\ UNCHANGED at
     ELSE /\ at' = dir
          /\ Starts([NoTask EXCEPT !.kind = "list", !.dev = Reselected(dev),
                                   !.dir = dir])

\* refresh button, _go_to_path, _go_parent and a double click on a folder
Refresh(dir) ==
  /\ Free
  /\ ops' = ops + 1
  /\ Relist(selected, dir)
  /\ UNCHANGED <<device, config, items, asking, arrived, behind, outside>>

\* Faulty: another device is chosen and the old listing stays.
ChooseSilently(d) ==
  /\ Free
  /\ d \in ToSet(choices)
  /\ ops' = ops + 1
  /\ selected' = d
  /\ UNCHANGED <<device, config, choices, items, at, asking, busy, job, arrived,
                 behind, outside>>

\* _on_device_changed: the device is listed from its default folder.
ChooseDevice(d) ==
  /\ Free
  /\ d \in ToSet(choices)
  /\ ops' = ops + 1
  /\ Relist(d, Root)
  /\ UNCHANGED <<device, config, items, asking, arrived, behind, outside>>

\* A question or a file dialog opens; it is about files of the listing.
Ask(task) ==
  /\ Free
  /\ ops' = ops + 1
  /\ asking' = task
  /\ UNCHANGED <<device, config, choices, selected, items, at, busy, job, arrived,
                 behind, outside>>

Question(kind, names, arg) ==
  [NoTask EXCEPT !.kind = kind, !.dev = items.dev, !.dir = items.dir,
                 !.names = names, !.arg = arg]

AskDelete(names) == names # {} /\ Ask(Question("delete", names, None))

\* filter_old_sync_epubs goes by the date in the name.
Candidates == items.names \cap Old

\* _cleanup_old_sync_epubs
AskCleanup == Candidates # {} /\ Ask(Question("delete", Candidates, None))

AskMkdir(dir) ==
  selected # None /\ dir # Root
    /\ Ask([NoTask EXCEPT !.kind = "mkdir", !.dev = selected, !.dir = at, !.arg = dir])

AskRename(n, new) == n # new /\ Ask(Question("rename", {n}, new))

AskMove(names, dest) == names # {} /\ Ask(Question("move", names, dest))

AskDownload(names) == names # {} /\ Ask(Question("download", names, None))

AskUpload(names) ==
  selected # None /\ names # {}
    /\ Ask([NoTask EXCEPT !.kind = "upload", !.dev = selected, !.dir = at,
                          !.names = names])

Dismiss ==
  /\ asking # NoTask
  /\ asking' = NoTask
  /\ UNCHANGED <<device, config, choices, selected, items, at, busy, job, arrived,
                 behind, counts>>

\* The user says yes. The device is read now, not when the question came up;
\* paths are those of the question.
Agree ==
  /\ asking.kind \notin {"none", "upload"}
  /\ Starts([asking EXCEPT !.dev = selected])
  /\ asking' = NoTask
  /\ UNCHANGED <<device, config, choices, selected, items, at, arrived, behind, counts>>

\* Faulty: nothing is looked up before an upload.
UploadUnseen ==
  /\ asking.kind = "upload"
  /\ Starts(asking)
  /\ asking' = NoTask /\ arrived' = {}
  /\ UNCHANGED <<device, config, choices, selected, items, at, behind, counts>>

\* The files are chosen; names that are on the device already are named in a
\* second question, and so is a listing that fails.
AgreeUpload ==
  /\ asking.kind = "upload"
  /\ \E unread \in {{}, asking.names} :
       Starts([asking EXCEPT !.warned =
                 {n \in asking.names : <<asking.dir, n>> \in sd[asking.dev]} \cup unread])
  /\ asking' = NoTask /\ arrived' = {}
  /\ UNCHANGED <<device, config, choices, selected, items, at, behind, counts>>

-----------------------------------------------------------------------------
(* The thread and the device.                                              *)

Running(kind) == job.kind = kind /\ job.state = "run"

\* What is left of a job: a callback, or nothing when an exception that is not
\* a DeviceClientError has ended the thread.
Ends(state, failed) == job' = [job EXCEPT !.state = state, !.failed = @ \/ failed]

Quiet == UNCHANGED <<config, choices, selected, items, at, asking, busy, arrived, counts>>

\* get_status and list_files
ListFiles ==
  /\ Running("list")
  /\ \/ /\ job.dir \in folders[job.dev]
        /\ job' = [job EXCEPT !.state = "done",
                     !.names = {n \in Name : <<job.dir, n>> \in sd[job.dev]}]
     \/ Ends("done", TRUE)
  /\ Quiet /\ UNCHANGED <<device, behind>>

\* delete_paths: one request for all the paths; when it fails or its answer is
\* lost, some may be gone.
DeletePaths ==
  /\ Running("delete")
  /\ LET dev == Host(job.dev) IN
       IF dev = None
       THEN Ends("done", TRUE) /\ UNCHANGED <<sd, behind>>
       ELSE \E gone \in SUBSET job.names, heard \in BOOLEAN :
              /\ heard => gone = job.names
              /\ sd' = [sd EXCEPT ![dev] = @ \ ({job.dir} \X gone)]
              /\ behind' = (behind \/ heard)
              /\ Ends("done", ~heard)
  /\ Quiet /\ UNCHANGED folders

Mkdir ==
  /\ Running("mkdir")
  /\ \E made, heard \in BOOLEAN :
       /\ heard => made
       /\ folders' = [folders EXCEPT ![job.dev] = IF made THEN @ \cup {job.arg} ELSE @]
       /\ behind' = (behind \/ heard)
       /\ Ends("done", ~heard)
  /\ Quiet /\ UNCHANGED sd

\* rename: the device refuses a name it has already.
Rename ==
  /\ Running("rename")
  /\ LET dev == Host(job.dev)
         old == {job.dir} \X job.names
         new == <<job.dir, job.arg>>
     IN \/ /\ dev # None
           /\ old \subseteq sd[dev] /\ new \notin sd[dev]
           /\ sd' = [sd EXCEPT ![dev] = (@ \ old) \cup {new}]
           /\ \E heard \in BOOLEAN :
                behind' = (behind \/ heard) /\ Ends("done", ~heard)
        \/ Ends("done", TRUE) /\ UNCHANGED <<sd, behind>>
  /\ Quiet /\ UNCHANGED folders

\* The loops over several files: each succeeds or is counted as an error, and
\* the rest goes on.
Item(n, change, failed) ==
  /\ sd' = [sd EXCEPT ![Host(job.dev)] = change]
  /\ behind' = (behind \/ change # sd[Host(job.dev)])
  /\ job' = [job EXCEPT !.names = @ \ {n}, !.failed = @ \/ failed]
  /\ Quiet /\ UNCHANGED folders

MoveOne(n) ==
  /\ Running("move") /\ n \in job.names /\ Host(job.dev) # None
  /\ LET files == sd[Host(job.dev)]
         there == <<job.arg, n>>
     IN \/ /\ <<job.dir, n>> \in files /\ there \notin files
           /\ job.arg \in folders[Host(job.dev)]
           /\ \E heard \in BOOLEAN :
                Item(n, (files \ {<<job.dir, n>>}) \cup {there}, ~heard)
        \/ Item(n, files, TRUE)

UploadOne(n) ==
  /\ Running("upload") /\ n \in job.names
  /\ \/ \E heard \in BOOLEAN : Item(n, sd[job.dev] \cup {<<job.dir, n>>}, ~heard)
     \/ Item(n, sd[job.dev], TRUE)

\* download: a folder that cannot be created ends the thread.
DownloadOne(n) ==
  /\ Running("download") /\ n \in job.names /\ Host(job.dev) # None
  /\ \/ \E whole \in BOOLEAN :
          /\ whole => <<job.dir, n>> \in sd[Host(job.dev)]
          /\ job' = [job EXCEPT !.names = @ \ {n}, !.failed = @ \/ ~whole]
     \/ Ends("dead", TRUE)
  /\ Quiet /\ UNCHANGED <<device, behind>>

LoopEnds ==
  /\ job.kind \in {"move", "upload", "download"} /\ job.state = "run"
  /\ job.names = {} \/ Host(job.dev) = None
  /\ Ends("done", job.names # {})
  /\ Quiet /\ UNCHANGED <<device, behind>>

-----------------------------------------------------------------------------
(* The callbacks.                                                          *)

\* _refresh_finished
ListFinished ==
  /\ job.kind = "list" /\ job.state = "done"
  /\ items' = IF job.failed THEN NoItems
              ELSE [dev |-> job.dev, dir |-> job.dir, names |-> job.names]
  /\ at' = IF job.failed THEN at ELSE job.dir
  /\ busy' = FALSE /\ job' = NoTask /\ behind' = FALSE
  /\ UNCHANGED <<device, config, choices, selected, asking, arrived, counts>>

\* Faulty: the listing is not renewed.
JobFinishedQuietly ==
  /\ job.kind \notin {"none", "list"} /\ job.state = "done"
  /\ busy' = FALSE /\ job' = NoTask
  /\ UNCHANGED <<device, config, choices, selected, at, items, asking, arrived,
                 behind, counts>>

\* Faulty: the tab is only set free by the listing that follows.
JobFinishedBusy ==
  /\ job.kind \notin {"none", "list"} /\ job.state = "done"
  /\ IF job.kind # "download" /\ ~job.failed
     THEN Relist(selected, at)
     ELSE job' = NoTask /\ UNCHANGED <<busy, choices, selected, at>>
  /\ UNCHANGED <<device, config, items, asking, arrived, behind, counts>>

\* Faulty: the tab goes to where the job has put something.
JobFinishedThere ==
  /\ job.kind \notin {"none", "list"} /\ job.state = "done"
  /\ Relist(selected, job.arg)
  /\ UNCHANGED <<device, config, items, asking, arrived, behind, counts>>

\* _delete_finished, _mkdir_finished, _op_finished, _multi_op_finished and
\* _download_finished: loops always list again, single requests only when they
\* succeeded, downloads never.
JobFinished ==
  /\ job.kind \notin {"none", "list"} /\ job.state = "done"
  /\ IF job.kind \in {"move", "upload"} \/ (job.kind # "download" /\ ~job.failed)
     THEN Relist(selected, at)
     ELSE busy' = FALSE /\ job' = NoTask /\ UNCHANGED <<choices, selected, at>>
  /\ UNCHANGED <<device, config, items, asking, arrived, behind, counts>>

-----------------------------------------------------------------------------
(* Outside of the tab.                                                     *)

Outside == outside < MaxOutside /\ outside' = outside + 1

\* The device list is edited in the sync tab, where no question of this tab can
\* be open; the combo box is not told.
EditDevices ==
  /\ Outside
  /\ asking = NoTask
  /\ config' \in Configs
  /\ UNCHANGED <<device, choices, selected, items, at, asking, busy, job, arrived,
                 behind, ops>>

\* A sync run uploads to a device.
SyncUpload(d, n) ==
  /\ Outside
  /\ <<Root, n>> \notin sd[d]
  /\ sd' = [sd EXCEPT ![d] = @ \cup {<<Root, n>>}]
  /\ arrived' = arrived \cup {<<d, n>>}
  /\ UNCHANGED <<folders, config, choices, selected, items, at, asking, busy, job,
                 behind, ops>>

-----------------------------------------------------------------------------
User ==
  \/ \E dir \in Dir : Refresh(dir) \/ AskMkdir(dir)
  \/ \E d \in Device : ChooseDevice(d)
  \/ \E names \in SUBSET items.names :
       \/ AskDelete(names) \/ AskDownload(names)
       \/ \E dest \in Dir : AskMove(names, dest)
  \/ AskCleanup
  \/ \E n \in items.names, new \in Name : AskRename(n, new)
  \/ \E names \in SUBSET Name : AskUpload(names)
  \/ Dismiss \/ Agree \/ AgreeUpload

Program ==
  \/ ListFiles \/ DeletePaths \/ Mkdir \/ Rename
  \/ \E n \in Name : MoveOne(n) \/ UploadOne(n) \/ DownloadOne(n)
  \/ LoopEnds \/ ListFinished \/ JobFinished

Next ==
  \/ User \/ Program \/ EditDevices
  \/ \E d \in Device, n \in Name : SyncUpload(d, n)

Spec == Init /\ [][Next]_vars

\* Requests have timeouts and the event loop runs callbacks.
FairSpec == Spec /\ WF_vars(Program)

-----------------------------------------------------------------------------
(* Properties.                                                             *)

\* A question about files goes to the device they were listed from, however the
\* device list has been edited since. (With no device selected the request goes
\* to the one behind x3_ip instead.)
AskedOfTheRightDevice ==
  asking.kind \in {"delete", "rename", "move", "download"} =>
    selected \in {asking.dev, None}

\* With the warning on, an upload replaces a file only if its name was in a
\* question, or it has come to the device after the check.
NoSilentOverwrite ==
  [][job.kind = "upload" /\ job'.kind = "upload" =>
       \A n \in job.names \ job'.names :
         <<job.dir, n>> \in sd[job.dev] =>
           n \in job.warned \/ <<job.dev, n>> \in arrived]_vars

\* Whatever a job has reported as done is in the listing, or about to be: a
\* device changed behind a listing keeps the tab busy, unless the device list
\* has been emptied and nothing can be listed.
ListingKeepsUp == behind => busy \/ selected = None

\* The tab does not stay busy, unless a thread has died of an exception that
\* the task does not catch.
BusyEnds == busy ~> (~busy \/ job.state = "dead")
=============================================================================
