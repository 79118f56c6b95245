------------------------- MODULE SelectedSync_proof -------------------------
(***************************************************************************)
(* Proofs about SelectedSync for every set of articles, devices and device *)
(* lists and any number of events beside the window's thread.              *)
(***************************************************************************)
EXTENDS SelectedSync, TLAPS

\* What every step can rely on.
USE DEF disk, export, vars

-----------------------------------------------------------------------------
(* Types. The locals of a run are a large record and have steps of their   *)
(* own; that what was tried is part of what is pending needs Quiet.        *)

RunTyped ==
    /\ run \in Runs
    /\ run.ok \subseteq run.tried /\ run.tried \subseteq run.pending

\* Where nothing is under way the thread is idle, and only an upload leaves
\* answers behind.
Quiet ==
    /\ window # "busy" => pc = "idle"
    /\ pc # "mark" => run.tried = {}

LEMMA NoRunTyped ==
    /\ NoRun \in Runs
    /\ NoRun.ok = {} /\ NoRun.tried = {} /\ NoRun.done = {} /\ NoRun.todo = {}
BY DEF NoRun, Runs, Modes

\* run is EXCEPTed field by field: the new record, and what it keeps.
LEMMA StepRun ==
  ASSUME TypeOK, Quiet, [Next]_vars PROVE RunTyped' /\ Quiet'
<1>. /\ RunTyped /\ articles \in SUBSET Article
     /\ devices \in SUBSET Device /\ uploader \in SUBSET Device
  BY DEF TypeOK, RunTyped
<1>. USE DEF RunTyped
<1>1. CASE UNCHANGED <<run, pc, window>> BY <1>1 DEF Quiet
<1>2. CASE RunImmediateSync \/ OpenPreview
  BY <1>2 DEF RunImmediateSync, OpenPreview, Idle, Quiet
<1>3. CASE ChooseArticles BY <1>3 DEF ChooseArticles, Quiet
<1>4. CASE ShowPreviewResults \/ SyncFinishedUi
  BY <1>4 DEF ShowPreviewResults, SyncFinishedUi, Quiet
<1>5. CASE BeginPreview \/ PreviewArticles \/ BeginSelected \/ RunSyncPipeline \/ EndSelected
  BY <1>5
  DEF BeginPreview, PreviewArticles, BeginSelected, RunSyncPipeline, EndSelected, Quiet
<1>6. CASE PushAfterRun \/ Dies \/ OnClose \/ ExitForUpdate
  BY <1>6, NoRunTyped DEF PushAfterRun, Dies, OnClose, ExitForUpdate, Leave, Quiet
<1>7. CASE ReadSettings
  <2>1. CASE devices = {} BY <1>7, <2>1 DEF ReadSettings, Quiet
  <2>2. CASE devices # {}
    <3>1. PICK m \in Modes : run' = [NoRun EXCEPT !.mode = m, !.targets = devices,
                                                  !.todo = Groups(m)]
      BY <1>7, <2>2 DEF ReadSettings
    <3>2. Groups(m) \in SUBSET SUBSET Article BY DEF Groups
    <3>3. run' = [mode |-> m, targets |-> devices, todo |-> Groups(m), group |-> {},
                  pending |-> {}, tried |-> {}, ok |-> {}, done |-> {}, partial |-> {}]
      BY <3>1 DEF NoRun
    <3>4. run' \in Runs BY <3>2, <3>3 DEF Runs
    <3>. QED BY <1>7, <3>3, <3>4 DEF ReadSettings, Quiet
  <2>. QED BY <2>1, <2>2
<1>8. CASE NextGroup
  <2>1. PICK g \in run.todo :
          IF Pending(g) = {}
          THEN run' = [run EXCEPT !.todo = @ \ {g}, !.done = @ \cup {g}] /\ UNCHANGED pc
          ELSE /\ run' = [run EXCEPT !.todo = @ \ {g}, !.group = g, !.pending = Pending(g)]
               /\ pc' = "upload"
    BY <1>8 DEF NextGroup
  <2>2. /\ Pending(g) \in SUBSET Device /\ g \in SUBSET Article
        /\ run.todo \ {g} \in SUBSET SUBSET Article
        /\ run.done \cup {g} \in SUBSET SUBSET Article
    BY DEF Pending, Runs
  <2>3. run' \in Runs
    <3>1. CASE Pending(g) = {}
      <4>. DEFINE todo == run.todo \ {g}  done == run.done \cup {g}
      <4>1. run' = [run EXCEPT !.todo = todo, !.done = done] BY <2>1, <3>1
      <4>2. todo \in SUBSET SUBSET Article /\ done \in SUBSET SUBSET Article BY <2>2
      <4>. HIDE DEF todo, done
      <4>. QED BY <4>1, <4>2 DEF Runs
    <3>2. CASE Pending(g) # {}
      <4>. DEFINE todo == run.todo \ {g}  lacking == Pending(g)
      <4>1. run' = [run EXCEPT !.todo = todo, !.group = g, !.pending = lacking]
        BY <2>1, <3>2
      <4>2. todo \in SUBSET SUBSET Article /\ lacking \in SUBSET Device BY <2>2
      <4>. HIDE DEF todo, lacking
      <4>. QED BY <2>2, <4>1, <4>2 DEF Runs
    <3>. QED BY <3>1, <3>2
  <2>4. run'.tried = run.tried /\ run'.ok = run.ok BY <2>1 DEF Runs
  <2>. QED BY <1>8, <2>3, <2>4 DEF NextGroup, Quiet
<1>9. CASE Upload
  <2>1. PICK good \in SUBSET (run.pending \cap uploader) :
          run' = [run EXCEPT !.tried = run.pending \cap uploader, !.ok = good]
    BY <1>9 DEF Upload
  <2>2. run' \in Runs BY <2>1 DEF Runs
  <2>3. /\ run'.ok = good /\ run'.tried = run.pending \cap uploader
        /\ run'.pending = run.pending
    BY <2>1 DEF Runs
  <2>. QED BY <1>9, <2>2, <2>3 DEF Upload, Quiet
<1>10. CASE Mark
  <2>1. run' \in Runs BY <1>10 DEF Mark, Runs
  <2>2. run'.tried = {} /\ run'.ok = {} BY <1>10 DEF Mark, Runs
  <2>. QED BY <1>10, <2>1, <2>2 DEF Mark, Quiet
<1>. QED
  BY <1>1, <1>2, <1>3, <1>4, <1>5, <1>6, <1>7, <1>8, <1>9, <1>10
  DEF Next, Thread, Window, Outside, OtherRun, EditDevices, DeleteRows, EditSite,
      SwitchAutoExport, Fire, Expire

\* What arrives from elsewhere comes with its rows.
LEMMA DeliveredTyped ==
  ASSUME history \subseteq Article \X Device, received \in [Device -> SUBSET Article],
         Delivered
  PROVE  /\ history' \subseteq Article \X Device
         /\ received' \in [Device -> SUBSET Article]
         /\ \A d \in Device : received[d] \subseteq received'[d]
         /\ RowsAreDeliveries => RowsAreDeliveries'
<1>1. PICK rows \in SUBSET ((Article \X Device) \ history) :
        /\ history' = history \cup rows
        /\ received' = [d \in Device |->
                            received[d] \cup {a \in Article : <<a, d>> \in rows}]
  BY DEF Delivered
<1>2. rows \subseteq Article \X Device OBVIOUS
<1>3. \A r \in rows : r[1] \in received'[r[2]] BY <1>1, <1>2
<1>4. \A d \in Device : received[d] \subseteq received'[d] BY <1>1
<1>. QED BY <1>1, <1>2, <1>3, <1>4 DEF RowsAreDeliveries

\* A push changes the history only by what it takes over from the folder.
LEMMA PushesImport ==
  ASSUME PushAfterRun \/ Fire \/ OnClose
  PROVE  Delivered \/ UNCHANGED <<history, received>>
BY DEF PushAfterRun, Fire, Expire, OnClose, MaybeBackupPush, Push

\* The history and the devices.
LEMMA StepDisk ==
  ASSUME TypeOK, [Next]_vars
  PROVE  /\ history' \subseteq Article \X Device
         /\ received' \in [Device -> SUBSET Article]
         /\ \A d \in Device : received[d] \subseteq received'[d]
<1>. /\ history \subseteq Article \X Device
     /\ received \in [Device -> SUBSET Article]
     /\ run \in Runs /\ run.ok \subseteq Device
  BY DEF TypeOK, Runs
<1>1. CASE UNCHANGED <<history, received>> BY <1>1
<1>2. CASE BeginPreview \/ BeginSelected \/ RunSyncPipeline \/ OtherRun
  BY <1>2, DeliveredTyped DEF BeginPreview, BeginSelected, RunSyncPipeline, OtherRun
<1>3. CASE Upload BY <1>3 DEF Upload, Runs
<1>4. CASE Mark
  <2>1. Marks \subseteq Article \X Device BY DEF Marks, Runs
  <2>. QED BY <1>4, <2>1 DEF Mark
<1>5. CASE DeleteRows BY <1>5 DEF DeleteRows
<1>6. CASE PushAfterRun \/ Fire \/ OnClose BY <1>1, <1>6, DeliveredTyped, PushesImport
<1>. QED
  BY <1>1, <1>2, <1>3, <1>4, <1>5, <1>6
  DEF Next, Thread, Window, Outside, RunImmediateSync, OpenPreview, Idle, ChooseArticles,
      ShowPreviewResults, SyncFinishedUi, PreviewArticles, ReadSettings, NextGroup,
      EndSelected, Dies, EditDevices, EditSite, SwitchAutoExport, ExitForUpdate

LEMMA InitTypeOK ==
  ASSUME Init PROVE TypeOK /\ Quiet
<1>. USE SelectedAssumption, NoRunTyped DEF Init
<1>1. history \subseteq Article \X Device /\ received \in [Device -> SUBSET Article]
  OBVIOUS
<1>2. devices \in SUBSET Device /\ uploader \in SUBSET Device OBVIOUS
<1>3. outside \in 0..MaxOutside OBVIOUS
<1>4. run \in Runs /\ run.ok = {} /\ run.tried = {} OBVIOUS
<1>. QED BY <1>1, <1>2, <1>3, <1>4 DEF TypeOK, Quiet

\* The simple variables.
LEMMA StepFlags ==
  ASSUME TypeOK, [Next]_vars
  PROVE  /\ devices' \in SUBSET Device /\ uploader' \in SUBSET Device
         /\ elsewhere' \in BOOLEAN /\ articles' \in SUBSET Article
         /\ auto' \in BOOLEAN /\ edited' \in BOOLEAN
         /\ outside' \in 0..MaxOutside
<1>. /\ devices \in SUBSET Device /\ uploader \in SUBSET Device
     /\ elsewhere \in BOOLEAN /\ articles \in SUBSET Article
     /\ auto \in BOOLEAN /\ edited \in BOOLEAN /\ outside \in 0..MaxOutside
     /\ MaxOutside \in Nat /\ Configs \subseteq SUBSET Device
  BY SelectedAssumption DEF TypeOK
<1>1. outside' \in 0..MaxOutside BY DEF Next
<1>2. CASE Thread
  BY <1>1, <1>2
  DEF Thread, BeginPreview, PreviewArticles, BeginSelected, ReadSettings, NextGroup,
      Upload, Mark, EndSelected, PushAfterRun, MaybeBackupPush, Push, Dies, RunSyncPipeline
<1>3. CASE Window
  BY <1>1, <1>3
  DEF Window, RunImmediateSync, OpenPreview, Idle, ChooseArticles, ShowPreviewResults,
      SyncFinishedUi, Fire, Expire, MaybeBackupPush, Push, OnClose, ExitForUpdate, Leave
<1>4. CASE Outside
  BY <1>1, <1>4
  DEF Outside, OtherRun, EditDevices, DeleteRows, EditSite, ScheduleBackupPush,
      SwitchAutoExport
<1>. QED BY <1>1, <1>2, <1>3, <1>4 DEF Next

LEMMA StepPlaces ==
  ASSUME TypeOK, [Next]_vars
  PROVE  /\ window' \in {"free", "busy", "dialog", "closed", "left"}
         /\ pc' \in {"idle", "sync", "preview", "scan", "shown", "start", "pull", "group",
                     "upload", "mark", "push", "finished", "dead"}
         /\ timer' \in {"none", "set", "fired"} /\ flushed' \in {"no", "ok", "failed"}
<1>. /\ window \in {"free", "busy", "dialog", "closed", "left"}
     /\ pc \in {"idle", "sync", "preview", "scan", "shown", "start", "pull", "group",
                "upload", "mark", "push", "finished", "dead"}
     /\ timer \in {"none", "set", "fired"} /\ flushed \in {"no", "ok", "failed"}
  BY DEF TypeOK
<1>1. CASE Thread
  BY <1>1
  DEF Thread, BeginPreview, PreviewArticles, BeginSelected, ReadSettings, NextGroup,
      Upload, Mark, EndSelected, PushAfterRun, Dies, RunSyncPipeline
<1>2. CASE Window
  BY <1>2
  DEF Window, RunImmediateSync, OpenPreview, Idle, ChooseArticles, ShowPreviewResults,
      SyncFinishedUi, Fire, Expire, OnClose, ExitForUpdate, Leave
<1>3. CASE Outside
  BY <1>3
  DEF Outside, OtherRun, EditDevices, DeleteRows, EditSite, ScheduleBackupPush,
      SwitchAutoExport
<1>. QED BY <1>1, <1>2, <1>3 DEF Next

Typed == TypeOK /\ Quiet

LEMMA StepTyped ==
  ASSUME Typed, [Next]_vars PROVE Typed'
BY StepRun, StepDisk, StepFlags, StepPlaces DEF Typed, RunTyped, TypeOK

LEMMA AlwaysTyped == Spec => []Typed
<1>1. Init => Typed BY InitTypeOK DEF Typed
<1>2. Typed /\ [Next]_vars => Typed' BY StepTyped
<1>. QED BY <1>1, <1>2, PTL DEF Spec

\* Type correctness: among the rest, a run asks only devices it has found to
\* lack something, and only those answer (sync_selected_articles).
THEOREM TypeCorrect == Spec => []TypeOK
<1>1. Typed => TypeOK BY DEF Typed
<1>. QED BY <1>1, AlwaysTyped, PTL

-----------------------------------------------------------------------------
(* Rows are deliveries.                                                    *)

\* What is about to be marked has arrived.
Arrived ==
    /\ RowsAreDeliveries
    /\ pc = "mark" => \A d \in run.ok : run.group \subseteq received[d]

LEMMA StepArrived ==
  ASSUME Typed, Arrived, [Next]_vars PROVE Arrived'
<1>. /\ history \subseteq Article \X Device
     /\ received \in [Device -> SUBSET Article]
     /\ run \in Runs
  BY DEF Typed, TypeOK
<1>1. \A d \in Device : received[d] \subseteq received'[d]
  BY StepDisk DEF Typed
<1>2. CASE UNCHANGED <<history, received>> /\ pc' # "mark"
  BY <1>2 DEF Arrived, RowsAreDeliveries
<1>3. CASE BeginPreview \/ BeginSelected \/ RunSyncPipeline
  BY <1>3, DeliveredTyped
  DEF BeginPreview, BeginSelected, RunSyncPipeline, Arrived, RowsAreDeliveries
<1>4. CASE OtherRun
  <2>1. RowsAreDeliveries'
    BY <1>4, DeliveredTyped DEF OtherRun, Arrived, RowsAreDeliveries
  <2>2. \A d \in run.ok : d \in Device BY DEF Runs
  <2>. QED BY <1>1, <1>4, <2>1, <2>2 DEF OtherRun, Arrived
<1>5. CASE Upload
  <2>1. PICK good, silent \in SUBSET (run.pending \cap uploader) :
          /\ run' = [run EXCEPT !.tried = run.pending \cap uploader, !.ok = good]
          /\ received' = [d \in Device |-> IF d \in good \cup silent
                                           THEN received[d] \cup run.group ELSE received[d]]
    BY <1>5 DEF Upload
  <2>2. run'.ok = good /\ run'.group = run.group /\ good \subseteq Device
    BY <2>1 DEF Runs
  <2>3. \A d \in good : run.group \subseteq received'[d] BY <2>1, <2>2
  <2>4. RowsAreDeliveries'
    BY <1>1, <1>5 DEF Upload, Arrived, RowsAreDeliveries
  <2>. QED BY <2>2, <2>3, <2>4 DEF Arrived
<1>6. CASE Mark
  <2>1. \A r \in Marks : r[1] \in received[r[2]]
    BY <1>6 DEF Mark, Marks, Arrived
  <2>. QED BY <1>6, <2>1 DEF Mark, Arrived, RowsAreDeliveries
<1>7. CASE DeleteRows \/ UNCHANGED <<history, received, run, pc>>
  BY <1>7 DEF DeleteRows, Arrived, RowsAreDeliveries
<1>8. CASE PushAfterRun \/ Fire \/ OnClose
  <2>1. RowsAreDeliveries'
    BY <1>8, DeliveredTyped, PushesImport DEF Arrived, RowsAreDeliveries
  <2>2. pc' # "mark" \/ UNCHANGED <<pc, run>>
    BY <1>8 DEF PushAfterRun, Fire, Expire, OnClose, Leave
  <2>3. \A d \in run.ok : d \in Device BY DEF Runs
  <2>. QED BY <1>1, <2>1, <2>2, <2>3 DEF Arrived
<1>. QED
  BY <1>2, <1>3, <1>4, <1>5, <1>6, <1>7, <1>8
  DEF Next, Thread, Window, Outside, RunImmediateSync, OpenPreview, Idle, ChooseArticles,
      ShowPreviewResults, SyncFinishedUi, PreviewArticles, ReadSettings, NextGroup,
      EndSelected, Dies, EditDevices, EditSite, SwitchAutoExport, ExitForUpdate, Leave

\* No device is ever recorded as having an article it did not receive, whatever
\* is edited, deleted or pulled between the preview and the upload.
THEOREM RowsStandForDeliveries == Spec => []RowsAreDeliveries
<1>1. Init => Arrived BY DEF Init, Arrived, RowsAreDeliveries
<1>2. Typed /\ Arrived /\ [Next]_vars => Arrived' BY StepArrived
<1>3. Arrived => RowsAreDeliveries BY DEF Arrived
<1>. QED BY <1>1, <1>2, <1>3, AlwaysTyped, PTL DEF Spec

-----------------------------------------------------------------------------
(* The history is a log of deliveries.                                     *)

LEMMA ArrivedOnly ==
  ASSUME Typed, Arrived PROVE history \subseteq HasArrived /\ history \subseteq Log!Pairs
BY DEF Typed, TypeOK, Arrived, RowsAreDeliveries, HasArrived, Log!Pairs

LEMMA DeliveredLearns ==
  ASSUME Typed, Delivered
  PROVE  \E ps \in SUBSET Log!Pairs : /\ HasArrived' = HasArrived \cup ps
                                      /\ history' = history \cup ps
<1>1. PICK rows \in SUBSET ((Article \X Device) \ history) :
        /\ history' = history \cup rows
        /\ received' = [d \in Device |->
                            received[d] \cup {a \in Article : <<a, d>> \in rows}]
  BY DEF Delivered
<1>2. ASSUME NEW p \in Article \X Device
      PROVE  p \in HasArrived' <=> p \in HasArrived \/ p \in rows
  BY <1>1, <1>2 DEF HasArrived, Typed, TypeOK
<1>3. HasArrived' = HasArrived \cup rows
  BY <1>2, <1>1 DEF HasArrived
<1>. QED BY <1>1, <1>3 DEF Log!Pairs

LEMMA StepIsLogStep ==
  ASSUME Typed, Arrived, [Next]_vars
  PROVE  Log!Next \/ (HasArrived' = HasArrived /\ history' = history)
<1>. DEFINE Logged == Log!Next \/ (HasArrived' = HasArrived /\ history' = history)
<1>1. CASE UNCHANGED <<history, received>> BY <1>1 DEF HasArrived
<1>2. CASE Delivered
  <2>1. PICK ps \in SUBSET Log!Pairs : /\ HasArrived' = HasArrived \cup ps
                                       /\ history' = history \cup ps
    BY <1>2, DeliveredLearns
  <2>. QED BY <2>1 DEF Log!Next, Log!Learn, HasArrived
<1>3. CASE Upload
  <2>1. HasArrived \subseteq HasArrived' /\ history' = history
    BY <1>3, StepDisk DEF Upload, HasArrived, Typed
  <2>2. HasArrived' = HasArrived \cup HasArrived' /\ HasArrived' \in SUBSET Log!Pairs
    BY <2>1 DEF HasArrived, Log!Pairs
  <2>. QED BY <2>1, <2>2 DEF Log!Next, Log!Arrive, HasArrived
<1>4. CASE Mark
  <2>1. history' \subseteq HasArrived' /\ history' \in SUBSET Log!Pairs
    BY StepTyped, StepArrived, ArrivedOnly
    DEF Typed, TypeOK, Arrived, RowsAreDeliveries, HasArrived, Log!Pairs
  <2>2. HasArrived' = HasArrived /\ history' = history \cup history'
    BY <1>4 DEF Mark, HasArrived
  <2>. QED BY <2>1, <2>2 DEF Log!Next, Log!Note, HasArrived
<1>5. CASE DeleteRows
  <2>1. PICK gone \in SUBSET Article : history' = {r \in history : r[1] \notin gone}
    BY <1>5 DEF DeleteRows
  <2>2. history' = history \ (history \ history') BY <2>1
  <2>3. history \ history' \in SUBSET Log!Pairs BY ArrivedOnly
  <2>4. HasArrived' = HasArrived BY <1>5 DEF DeleteRows, HasArrived
  <2>. QED BY <2>2, <2>3, <2>4 DEF Log!Next, Log!Forget, HasArrived
<1>6. CASE PushAfterRun \/ Fire \/ OnClose
  BY <1>1, <1>2, <1>6, PushesImport
<1>. QED
  BY <1>1, <1>2, <1>3, <1>4, <1>5, <1>6
  DEF Next, Thread, Window, Outside, RunImmediateSync, OpenPreview, Idle, ChooseArticles,
      ShowPreviewResults, SyncFinishedUi, BeginPreview, PreviewArticles, BeginSelected,
      ReadSettings, NextGroup, EndSelected, Dies, RunSyncPipeline, OtherRun, EditDevices,
      EditSite, SwitchAutoExport, ExitForUpdate

\* Whatever the window, its thread, its timer and the runs of others do, the history
\* is written behind the deliveries: nothing is noted before it has arrived, and a
\* note goes only with a deletion in the history tab.
THEOREM SelectedImplementsLog == Spec => ImplementsDeliveryLog
<1>1. Init => Log!Init BY DEF Init, Log!Init, Log!Pairs, HasArrived
<1>2. Init => Arrived BY DEF Init, Arrived, RowsAreDeliveries
<1>3. Typed /\ Arrived /\ [Next]_vars => Arrived' BY StepArrived
<1>4. Typed /\ Arrived /\ [Next]_vars => [Log!Next]_<<HasArrived, history>>
  BY StepIsLogStep
<1>. QED
  BY <1>1, <1>2, <1>3, <1>4, AlwaysTyped, PTL
  DEF Spec, ImplementsDeliveryLog, Log!Spec, HasArrived

-----------------------------------------------------------------------------
(* Edits are exported.                                                     *)

\* An edit waits for its timer, and once that has fired for the close.
Waiting ==
    /\ Open /\ edited => timer # "none"
    /\ EditsExported

LEMMA StepWaiting ==
  ASSUME Typed, Waiting, [Next]_vars PROVE Waiting'
<1>. USE DEF Waiting, EditsExported, Open
<1>1. edited \in BOOLEAN /\ edited' \in BOOLEAN
  BY StepFlags DEF Typed, TypeOK
<1>2. CASE /\ UNCHANGED <<timer, edited, flushed>>
           /\ Open' => Open
           /\ window' = "closed" => window = "closed"
  BY <1>2
<1>3. CASE PushAfterRun BY <1>1, <1>3 DEF PushAfterRun, MaybeBackupPush, Push
<1>4. CASE Open /\ Fire BY <1>1, <1>4 DEF Fire, Expire, MaybeBackupPush, Push
<1>5. CASE Open /\ (EditSite \/ DeleteRows)
  BY <1>1, <1>5 DEF EditSite, DeleteRows, ScheduleBackupPush
<1>6. CASE Open /\ (OnClose \/ ExitForUpdate)
  BY <1>1, <1>6 DEF OnClose, ExitForUpdate, Leave, Push
<1>. QED
  BY <1>2, <1>3, <1>4, <1>5, <1>6
  DEF Next, Thread, Window, Outside, RunImmediateSync, OpenPreview, Idle, ChooseArticles,
      ShowPreviewResults, SyncFinishedUi, BeginPreview, PreviewArticles, BeginSelected,
      ReadSettings, NextGroup, Upload, Mark, EndSelected, Dies, RunSyncPipeline, OtherRun,
      EditDevices, SwitchAutoExport

\* Whatever happens in between, no edit of a site made while exports are on is left
\* behind when the user closes the window, unless the last attempt to export it
\* failed (flush_backup_push).
THEOREM NoEditLeftBehind == Spec => []EditsExported
<1>1. Init => Waiting BY DEF Init, Waiting, EditsExported, Open
<1>2. Typed /\ Waiting /\ [Next]_vars => Waiting' BY StepWaiting
<1>3. Waiting => EditsExported BY DEF Waiting
<1>. QED BY <1>1, <1>2, <1>3, AlwaysTyped, PTL DEF Spec

-----------------------------------------------------------------------------
(* A success is complete.                                                  *)

OneForAll == run.mode.global \/ Single(run.targets)

Brought(g) ==
    \A a \in g : IF OneForAll THEN \E d \in Device : a \in received[d]
                 ELSE \A d \in run.targets : a \in received[d]

\* The groups counted as done are where they belong, and so is the group at hand
\* on the devices that were not found to lack it.
Kept ==
    /\ pc \in {"group", "upload", "mark", "push"} => run.targets # {}
    /\ \A g \in run.done : Brought(g)
    /\ pc \in {"upload", "mark"} /\ ~OneForAll =>
          \A d \in run.targets \ run.pending : run.group \subseteq received[d]

\* Nothing leaves a device.
LEMMA BroughtStays ==
  ASSUME Typed, [Next]_vars, run'.mode = run.mode, run'.targets = run.targets
  PROVE  /\ OneForAll' = OneForAll
         /\ \A g : Brought(g) => Brought(g)'
         /\ \A d \in Device : received[d] \subseteq received'[d]
<1>1. \A d \in Device : received[d] \subseteq received'[d]
  BY StepDisk DEF Typed
<1>2. run.targets \subseteq Device BY DEF Typed, TypeOK, Runs
<1>3. OneForAll' = OneForAll BY DEF OneForAll, Single
<1>4. ASSUME NEW g, Brought(g) PROVE Brought(g)'
  BY <1>1, <1>2, <1>3, <1>4 DEF Brought
<1>. QED BY <1>1, <1>3, <1>4

\* A group that nobody lacks is where it belongs: each of its rows stands for a
\* delivery, and there are targets.
LEMMA NothingPending ==
  ASSUME Typed, Arrived, NEW g \in run.todo, run.targets # {}
  PROVE  /\ Pending(g) = {} => Brought(g)
         /\ ~OneForAll => \A d \in run.targets \ Pending(g) : g \subseteq received[d]
<1>. /\ run.targets \subseteq Device /\ g \subseteq Article
     /\ history \subseteq Article \X Device
     /\ \A r \in history : r[1] \in received[r[2]]
  BY DEF Typed, TypeOK, Runs, Arrived, RowsAreDeliveries
<1>1. \A a \in g, d \in Device : <<a, d>> \in history => a \in received[d] OBVIOUS
<1>2. CASE OneForAll
  <2>1. ASSUME Pending(g) = {}, NEW a \in g PROVE Synced(a)
    <3>1. PICK d \in run.targets : TRUE OBVIOUS
    <3>2. \/ \A b \in g : Synced(b)
          \/ {e \in run.targets : \E b \in g : <<b, e>> \notin history} = {}
      BY <1>2, <2>1 DEF Pending, OneForAll
    <3>3. (\A b \in g : Synced(b)) \/ <<a, d>> \in history BY <3>2
    <3>. QED BY <3>3 DEF Synced
  <2>. QED BY <1>1, <1>2, <2>1 DEF Synced, Brought
<1>3. CASE ~OneForAll
  <2>1. Pending(g) = {d \in run.targets : \E a \in g : <<a, d>> \notin history}
    BY <1>3 DEF Pending, OneForAll
  <2>. QED BY <1>1, <1>3, <2>1 DEF Brought
<1>. QED BY <1>2, <1>3

LEMMA StepKept ==
  ASSUME Typed, Arrived, Kept, [Next]_vars PROVE Kept'
<1>. run \in Runs /\ run.targets \subseteq Device /\ run.ok \subseteq Device
  BY DEF Typed, TypeOK, Runs
<1>1. CASE /\ UNCHANGED run
           /\ \/ UNCHANGED pc \/ pc' \notin {"group", "upload", "mark", "push"}
              \/ pc = "group" /\ pc' = "push"
  <2>1. \A g \in run'.done : Brought(g)' BY <1>1, BroughtStays DEF Kept
  <2>2. OneForAll' = OneForAll /\ \A d \in Device : received[d] \subseteq received'[d]
    BY <1>1, BroughtStays
  <2>3. CASE UNCHANGED pc BY <1>1, <2>1, <2>2, <2>3 DEF Kept
  <2>4. CASE pc' \notin {"group", "upload", "mark", "push"} BY <2>1, <2>4 DEF Kept
  <2>5. CASE pc = "group" /\ pc' = "push" BY <1>1, <2>1, <2>5 DEF Kept
  <2>. QED BY <1>1, <2>3, <2>4, <2>5
<1>2. CASE PushAfterRun \/ Dies \/ OnClose \/ ExitForUpdate
  BY <1>2, NoRunTyped DEF PushAfterRun, Dies, OnClose, ExitForUpdate, Leave, Kept
<1>3. CASE ReadSettings
  <2>1. CASE devices = {} BY <1>1, <1>3, <2>1 DEF ReadSettings
  <2>2. CASE devices # {}
    <3>1. /\ run'.done = {} /\ run'.targets = devices /\ pc' = "group"
      BY <1>3, <2>2 DEF ReadSettings, NoRun
    <3>. QED BY <2>2, <3>1 DEF Kept
  <2>. QED BY <2>1, <2>2
<1>4. CASE NextGroup
  <2>1. PICK g \in run.todo :
          IF Pending(g) = {}
          THEN run' = [run EXCEPT !.todo = @ \ {g}, !.done = @ \cup {g}] /\ UNCHANGED pc
          ELSE /\ run' = [run EXCEPT !.todo = @ \ {g}, !.group = g, !.pending = Pending(g)]
               /\ pc' = "upload"
    BY <1>4 DEF NextGroup
  <2>2. run.targets # {} BY <1>4 DEF NextGroup, Kept
  <2>3. run'.mode = run.mode /\ run'.targets = run.targets BY <2>1 DEF Runs
  <2>4. CASE Pending(g) = {}
    <3>1. run'.done = run.done \cup {g} BY <2>1, <2>4 DEF Runs
    <3>. QED BY <1>4, <2>1, <2>2, <2>3, <2>4, <3>1, NothingPending, BroughtStays
         DEF NextGroup, Kept
  <2>5. CASE Pending(g) # {}
    <3>1. run'.done = run.done /\ run'.group = g /\ run'.pending = Pending(g)
      BY <2>1, <2>5 DEF Runs
    <3>2. UNCHANGED received BY <1>4 DEF NextGroup
    <3>. QED BY <2>2, <2>3, <3>1, <3>2, NothingPending, BroughtStays DEF Kept
  <2>. QED BY <2>4, <2>5
<1>5. CASE Upload
  <2>1. /\ run'.mode = run.mode /\ run'.targets = run.targets /\ run'.done = run.done
        /\ run'.group = run.group /\ run'.pending = run.pending
        /\ pc = "upload" /\ pc' = "mark"
    BY <1>5 DEF Upload, Runs
  <2>2. \A g \in run'.done : Brought(g)' BY <2>1, BroughtStays DEF Kept
  <2>3. OneForAll' = OneForAll /\ \A d \in Device : received[d] \subseteq received'[d]
    BY <2>1, BroughtStays
  <2>. QED BY <2>1, <2>2, <2>3 DEF Kept
<1>6. CASE Mark
  <2>1. /\ run'.mode = run.mode /\ run'.targets = run.targets
        /\ run'.done = IF AllOk THEN run.done \cup {run.group} ELSE run.done
        /\ pc = "mark" /\ pc' = "group"
    BY <1>6 DEF Mark, Runs
  <2>2. AllOk => Brought(run.group)
    BY <2>1 DEF AllOk, Brought, Arrived, Kept
  <2>. QED BY <2>1, <2>2, BroughtStays DEF Kept
<1>. QED
  BY <1>1, <1>2, <1>3, <1>4, <1>5, <1>6
  DEF Next, Thread, Window, Outside, RunImmediateSync, OpenPreview, Idle, ChooseArticles,
      ShowPreviewResults, SyncFinishedUi, BeginPreview, PreviewArticles, BeginSelected,
      EndSelected, RunSyncPipeline, OtherRun, EditDevices, DeleteRows, EditSite,
      SwitchAutoExport, Fire, Expire

\* A selected sync that reports success has brought every chosen article to each
\* of its devices, or to one of them where one row counts for all, although the
\* history, the device list and the uploader may change while it runs.
THEOREM SuccessIsComplete == Spec => []SelectedDelivered
<1>1. Init => Kept BY NoRunTyped DEF Init, Kept
<1>2. Typed /\ Arrived /\ Kept /\ [Next]_vars => Kept' BY StepKept
<1>3. Kept => SelectedDelivered
  <2>. SUFFICES ASSUME Kept, pc = "push", Success, NEW a \in articles
                PROVE  IF OneForAll THEN \E d \in Device : a \in received[d]
                       ELSE \A d \in run.targets : a \in received[d]
    BY DEF SelectedDelivered, OneForAll
  <2>1. \E g \in Groups(run.mode) : a \in g
    <3>1. CASE run.mode.digest BY <3>1 DEF Groups
    <3>2. CASE ~run.mode.digest
      <4>. DEFINE g == {b \in articles : SiteOf[b] = SiteOf[a]}
      <4>. g \in Groups(run.mode) /\ a \in g BY <3>2 DEF Groups
      <4>. QED OBVIOUS
    <3>. QED BY <3>1, <3>2
  <2>. QED BY <2>1 DEF Kept, Success, Brought
<1>4. Init => Arrived BY DEF Init, Arrived, RowsAreDeliveries
<1>5. Typed /\ Arrived /\ [Next]_vars => Arrived' BY StepArrived
<1>. QED BY <1>1, <1>2, <1>3, <1>4, <1>5, AlwaysTyped, PTL DEF Spec
=============================================================================
