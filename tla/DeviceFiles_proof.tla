-------------------------- MODULE DeviceFiles_proof --------------------------
(***************************************************************************)
(* Proofs about DeviceFiles: what a question, a job and a listing of the   *)
(* tab are about, for any devices, names and edits of the device list.     *)
(***************************************************************************)
EXTENDS DeviceFiles, TLAPS

USE FilesAssumption DEF device, counts, vars

\* A task has what its kind needs.
Fits(task) ==
  /\ task \in Task
  /\ task.kind \in {"mkdir", "move"} => task.arg \in Dir
  /\ task.kind = "rename" => task.arg \in Name
  /\ task.kind \in {"upload", "list"} => task.dev \in Device

\* One thing at a time: no question while a job runs, no job left when the tab is
\* free, and a question is not a job that has failed already.
OneAtATime ==
  /\ Fits(asking) /\ Fits(job)
  /\ asking = NoTask \/ ~busy
  /\ busy \/ job = NoTask
  /\ asking.kind # "list" /\ ~asking.failed /\ asking.state = "run"

\* The files shown are those of the device in the combo box, or will be when the
\* listing under way has ended.
ListedHere ==
  /\ items.dev = None => items.names = {}
  /\ IF job.kind = "list" THEN job.dev = selected
     ELSE items.dev = None \/ selected \in {items.dev, None}
  /\ AskedOfTheRightDevice

Single == {"delete", "mkdir", "rename"}

\* Jobs after which the tab does not list again have left no change behind.
Told ==
  /\ ListingKeepsUp
  /\ job.kind \in Single /\ job.state = "run" => ~job.failed
  /\ behind /\ \/ job.kind = "download"
               \/ job.kind \in Single /\ (job.state = "run" \/ job.failed)
     => selected = None

\* A file that an upload is going to replace was in a question, or came later.
Asked ==
  job.kind = "upload" =>
    \A n \in job.names :
      <<job.dir, n>> \in sd[job.dev] =>
        n \in job.warned \/ <<job.dev, n>> \in arrived

-----------------------------------------------------------------------------
(* What the steps do.                                                      *)

LEMMA NoTaskIs ==
  /\ NoTask \in Task /\ Fits(NoTask) /\ NoTask.kind = "none" /\ NoTask.names = {}
  /\ ~NoTask.failed /\ NoTask.state = "run" /\ NoTask.dev = None
BY DEF NoTask, Task, Kinds, Fits

\* The listing starts over, with another device or without one.
Relists ==
  /\ asking = NoTask
  /\ choices' = config /\ selected' \in Device \cup {None}
  /\ \/ selected' = None /\ busy' = FALSE /\ job' = NoTask /\ at' = at
     \/ /\ selected' \in Device /\ busy' = TRUE /\ at' \in Dir
        /\ Fits(job') /\ job'.kind = "list" /\ job'.dev = selected'
        /\ ~job'.failed /\ job'.state = "run"
  /\ UNCHANGED <<device, config, items, asking, arrived, behind, outside>>

AsksFor(task) ==
  /\ asking = NoTask /\ ~busy /\ asking' = task
  /\ Fits(task) /\ task.kind # "list" /\ ~task.failed /\ task.state = "run"
  /\ task.kind \in {"delete", "rename", "move", "download"} =>
       task.dev = items.dev /\ items.names # {}
  /\ UNCHANGED <<device, config, choices, selected, items, at, busy, job, arrived,
                 behind, outside>>

Agrees ==
  /\ ~busy /\ busy' = TRUE /\ asking' = NoTask
  /\ Fits(job') /\ job'.kind \in Kinds \ {"none", "list"}
  /\ ~job'.failed /\ job'.state = "run"
  /\ job'.kind = "upload" =>
       \A n \in job'.names : <<job'.dir, n>> \in sd[job'.dev] => n \in job'.warned
  /\ arrived' = arrived \/ arrived' = {}
  /\ UNCHANGED <<device, config, choices, selected, items, at, behind, counts>>

Works ==
  /\ job.kind # "none" /\ job.state = "run"
  /\ Fits(job') /\ job'.kind = job.kind /\ job'.dev = job.dev /\ job'.dir = job.dir
  /\ job'.warned = job.warned
  /\ job.kind # "list" => job'.names \subseteq job.names
  /\ job.kind = "upload" =>
       \A n \in job'.names :
         <<job.dir, n>> \in sd'[job.dev] => <<job.dir, n>> \in sd[job.dev]
  /\ job.kind \in Single /\ ~job.failed =>
       job'.state # "run" /\ (job'.failed => behind' = behind)
  /\ job.kind = "download" => behind' = behind
  /\ behind' \in BOOLEAN
  /\ sd' \in [Device -> SUBSET (Dir \X Name)]
  /\ folders' \in [Device -> SUBSET Dir]
  /\ UNCHANGED <<config, choices, selected, items, at, asking, busy, arrived, counts>>

Listed ==
  /\ job.kind = "list" /\ busy' = FALSE /\ job' = NoTask /\ behind' = FALSE
  /\ \/ items' = NoItems /\ at' = at
     \/ items' = [dev |-> job.dev, dir |-> job.dir, names |-> job.names] /\ at' = job.dir
  /\ UNCHANGED <<device, config, choices, selected, asking, arrived, counts>>

EndsUnlisted ==
  /\ job.kind = "download" \/ (job.kind \in Single /\ job.failed)
  /\ busy' = FALSE /\ job' = NoTask
  /\ UNCHANGED <<device, config, choices, selected, at, items, asking, arrived,
                 behind, counts>>

LEMMA RelistIs ==
  ASSUME TypeOK, NEW dev \in Device \cup {None}, NEW dir \in Dir, Relist(dev, dir),
         asking = NoTask,
         UNCHANGED <<device, config, items, asking, arrived, behind, outside>>
  PROVE  Relists
<1>1. Reselected(dev) \in Device \cup {None}
  <2>1. config # <<>> => Head(config) \in Device
    BY DEF TypeOK
  <2>. QED BY <2>1 DEF Reselected
<1>2. CASE Reselected(dev) = None
  BY <1>2 DEF Relist, Relists
<1>3. CASE Reselected(dev) # None
  <2>. DEFINE task == [NoTask EXCEPT !.kind = "list", !.dev = Reselected(dev),
                                    !.dir = dir]
  <2>1. /\ Fits(task) /\ task.kind = "list" /\ task.dev = Reselected(dev)
        /\ ~task.failed /\ task.state = "run"
    BY <1>1, <1>3 DEF NoTask, Fits, Task, Kinds
  <2>. QED BY <1>1, <1>3, <2>1 DEF Relist, Relists, Starts
<1>. QED BY <1>2, <1>3

LEMMA QuestionIs ==
  ASSUME TypeOK, NEW kind \in Kinds, NEW names \in SUBSET Name,
         NEW arg \in Dir \cup Name \cup {None}
  PROVE  /\ Question(kind, names, arg) \in Task
         /\ Question(kind, names, arg).kind = kind
         /\ Question(kind, names, arg).arg = arg
         /\ Question(kind, names, arg).dev = items.dev
         /\ ~Question(kind, names, arg).failed
         /\ Question(kind, names, arg).state = "run"
BY DEF TypeOK, Question, NoTask, Task

LEMMA AskIs ==
  ASSUME TypeOK, OneAtATime, NEW task, Ask(task), Fits(task), task.kind # "list",
         ~task.failed, task.state = "run",
         task.kind \in {"delete", "rename", "move", "download"} =>
           task.dev = items.dev /\ items.names # {}
  PROVE  AsksFor(task) /\ ops' \in 0..MaxOps
BY DEF Ask, Free, AsksFor, TypeOK

\* What a step of the user does.
LEMMA UserStep ==
  ASSUME TypeOK, OneAtATime, User
  PROVE  /\ ops' \in 0..MaxOps
         /\ Relists \/ (\E task : AsksFor(task)) \/ Dismiss \/ Agrees
<1>1. ASSUME NEW dir \in Dir, Refresh(dir) PROVE Relists /\ ops' \in 0..MaxOps
  BY <1>1, RelistIs DEF Refresh, Free, TypeOK
<1>2. ASSUME NEW d \in Device, ChooseDevice(d) PROVE Relists /\ ops' \in 0..MaxOps
  BY <1>2, RelistIs DEF ChooseDevice, Free, TypeOK
<1>3. ASSUME NEW dir \in Dir, AskMkdir(dir)
      PROVE  (\E task : AsksFor(task)) /\ ops' \in 0..MaxOps
  <2>. DEFINE task == [NoTask EXCEPT !.kind = "mkdir", !.dev = selected, !.dir = at, !.arg = dir]
  <2>1. Fits(task) /\ ~task.failed /\ task.state = "run" /\ task.kind = "mkdir"
    BY DEF TypeOK, Fits, Task, Kinds, NoTask
  <2>2. Ask(task) BY <1>3 DEF AskMkdir
  <2>. HIDE DEF task
  <2>. QED BY <2>1, <2>2, AskIs
<1>4. ASSUME NEW kind \in {"delete", "rename", "move", "download"},
             NEW names \in SUBSET items.names, names # {},
             NEW arg \in Dir \cup Name \cup {None},
             kind = "move" => arg \in Dir, kind = "rename" => arg \in Name,
             Ask(Question(kind, names, arg))
      PROVE  (\E task : AsksFor(task)) /\ ops' \in 0..MaxOps
  <2>1. names \in SUBSET Name /\ kind \in Kinds BY DEF TypeOK, Kinds
  <2>2. Fits(Question(kind, names, arg)) BY <1>4, <2>1, QuestionIs DEF Fits
  <2>. QED BY <1>4, <2>1, <2>2, QuestionIs, AskIs
<1>5. ASSUME NEW names \in SUBSET items.names, AskDelete(names) \/ AskDownload(names)
      PROVE  (\E task : AsksFor(task)) /\ ops' \in 0..MaxOps
  BY <1>4, <1>5 DEF AskDelete, AskDownload
<1>6. ASSUME NEW names \in SUBSET items.names, NEW dest \in Dir, AskMove(names, dest)
      PROVE  (\E task : AsksFor(task)) /\ ops' \in 0..MaxOps
  BY <1>4, <1>6 DEF AskMove
<1>7. CASE AskCleanup
  BY <1>4, <1>7 DEF AskCleanup, Candidates
<1>8. ASSUME NEW n \in items.names, NEW new \in Name, AskRename(n, new)
      PROVE  (\E task : AsksFor(task)) /\ ops' \in 0..MaxOps
  BY <1>4, <1>8 DEF AskRename
<1>9. ASSUME NEW names \in SUBSET Name, AskUpload(names)
      PROVE  (\E task : AsksFor(task)) /\ ops' \in 0..MaxOps
  <2>. DEFINE task == [NoTask EXCEPT !.kind = "upload", !.dev = selected, !.dir = at,
                                    !.names = names]
  <2>1. Fits(task) /\ ~task.failed /\ task.state = "run" /\ task.kind = "upload"
    BY <1>9, ZenonT(60) DEF AskUpload, TypeOK, Fits, Task, Kinds, NoTask
  <2>2. Ask(task) BY <1>9 DEF AskUpload
  <2>. HIDE DEF task
  <2>. QED BY <2>1, <2>2, AskIs
<1>10. ASSUME asking # NoTask PROVE ~busy
  BY <1>10 DEF OneAtATime
<1>11. CASE Agree
  <2>1. asking # NoTask /\ selected \in Device \cup {None}
    BY <1>11, NoTaskIs DEF Agree, TypeOK
  <2>. DEFINE task == [asking EXCEPT !.dev = selected]
  <2>2. asking.kind \in Kinds \ {"none", "upload"}
    BY <1>11 DEF Agree, OneAtATime, Fits, Task
  <2>3. /\ Fits(task) /\ task.kind = asking.kind /\ task.kind # "list"
        /\ ~task.failed /\ task.state = "run"
    BY <2>1, <2>2 DEF OneAtATime, Fits, Task
  <2>. QED BY <1>10, <1>11, <2>1, <2>2, <2>3 DEF Agree, Starts, Agrees, TypeOK
<1>12. CASE AgreeUpload
  <2>1. PICK unread \in {{}, asking.names} :
          Starts([asking EXCEPT !.warned =
                 {n \in asking.names : <<asking.dir, n>> \in sd[asking.dev]} \cup unread])
    BY <1>12 DEF AgreeUpload
  <2>. DEFINE task == [asking EXCEPT !.warned =
                 {n \in asking.names : <<asking.dir, n>> \in sd[asking.dev]} \cup unread]
  <2>2. /\ Fits(task) /\ task.kind = "upload" /\ ~task.failed /\ task.state = "run"
        /\ task.names = asking.names /\ task.dir = asking.dir /\ task.dev = asking.dev
        /\ \A n \in task.names : <<task.dir, n>> \in sd[task.dev] => n \in task.warned
    BY <1>12 DEF AgreeUpload, OneAtATime, Fits, Task
  <2>3. asking # NoTask BY <1>12, NoTaskIs DEF AgreeUpload
  <2>4. job' = task /\ busy' = TRUE BY <2>1 DEF Starts
  <2>. HIDE DEF task
  <2>. QED BY <1>10, <1>12, <2>2, <2>3, <2>4 DEF AgreeUpload, Agrees, TypeOK, Kinds
<1>13. CASE Dismiss
  BY <1>13 DEF Dismiss, TypeOK
<1>. QED
  BY <1>1, <1>2, <1>3, <1>5, <1>6, <1>7, <1>8, <1>9, <1>11, <1>12, <1>13 DEF User

\* What a step of the thread does.
LEMMA WorkStep ==
  ASSUME TypeOK, OneAtATime,
         ListFiles \/ DeletePaths \/ Mkdir \/ Rename \/ LoopEnds
         \/ \E n \in Name : MoveOne(n) \/ UploadOne(n) \/ DownloadOne(n)
  PROVE  Works
<1>. USE DEF Running, Ends, Quiet
<1>0. /\ job \in Task /\ Fits(job)
      /\ sd \in [Device -> SUBSET (Dir \X Name)] /\ folders \in [Device -> SUBSET Dir]
      /\ behind \in BOOLEAN
      /\ job.dir \in Dir /\ job.names \subseteq Name /\ job.dev \in Device \cup {None}
  BY DEF TypeOK, OneAtATime, Fits, Task
<1>a. Host(job.dev) \in Device \cup {None} /\ (job.dev \in Device => Host(job.dev) = job.dev)
  <2>1. config # <<>> => Head(config) \in Device BY DEF TypeOK
  <2>. QED BY <1>0, <2>1 DEF Host
\* A job that goes on or ends.
<1>b. ASSUME NEW names \in SUBSET Name, NEW failed \in BOOLEAN,
             NEW state \in {"run", "done", "dead"},
             job' = [job EXCEPT !.names = names, !.failed = failed, !.state = state]
      PROVE  /\ Fits(job') /\ job'.kind = job.kind /\ job'.dev = job.dev /\ job'.dir = job.dir
             /\ job'.warned = job.warned /\ job'.names = names
             /\ job'.failed = failed /\ job'.state = state
  BY <1>0, <1>b DEF Fits, Task
<1>c. ASSUME NEW failed \in BOOLEAN, NEW state \in {"done", "dead"},
             Ends(state, failed)
      PROVE  /\ Fits(job') /\ job'.kind = job.kind /\ job'.dev = job.dev /\ job'.dir = job.dir
             /\ job'.warned = job.warned /\ job'.names = job.names
             /\ job'.failed = (job.failed \/ failed) /\ job'.state = state
  BY <1>0, <1>c DEF Fits, Task
<1>1. CASE ListFiles
  <2>1. CASE Ends("done", TRUE)
    BY <1>0, <1>1, <1>c, <2>1 DEF ListFiles, Works, Single
  <2>2. CASE job' = [job EXCEPT !.state = "done",
                       !.names = {n \in Name : <<job.dir, n>> \in sd[job.dev]}]
    <3>1. /\ Fits(job') /\ job'.kind = job.kind /\ job'.dev = job.dev
          /\ job'.dir = job.dir /\ job'.warned = job.warned
      BY <1>0, <2>2 DEF Fits, Task
    <3>. QED BY <1>0, <1>1, <3>1 DEF ListFiles, Works, Single
  <2>. QED BY <1>1, <2>1, <2>2 DEF ListFiles
<1>2. CASE DeletePaths
  <2>1. CASE Host(job.dev) = None
    BY <1>0, <1>2, <1>c, <2>1 DEF DeletePaths, Works
  <2>2. CASE Host(job.dev) # None
    <3>1. PICK gone \in SUBSET job.names, heard \in BOOLEAN :
            /\ sd' = [sd EXCEPT ![Host(job.dev)] = @ \ ({job.dir} \X gone)]
            /\ behind' = (behind \/ heard)
            /\ Ends("done", ~heard)
      BY <1>2, <2>2 DEF DeletePaths
    <3>2. sd' \in [Device -> SUBSET (Dir \X Name)]
      BY <1>0, <1>a, <2>2, <3>1
    <3>. QED BY <1>0, <1>2, <1>c, <3>1, <3>2 DEF DeletePaths, Works
  <2>. QED BY <2>1, <2>2
<1>3. CASE Mkdir
  <2>1. PICK made \in BOOLEAN, heard \in BOOLEAN :
          /\ folders' = [folders EXCEPT ![job.dev] = IF made THEN @ \cup {job.arg} ELSE @]
          /\ behind' = (behind \/ heard)
          /\ Ends("done", ~heard)
    BY <1>3 DEF Mkdir
  <2>2. folders' \in [Device -> SUBSET Dir]
    BY <1>0, <1>3, <2>1 DEF Mkdir, Fits
  <2>. QED BY <1>0, <1>3, <1>c, <2>1, <2>2 DEF Mkdir, Works
<1>4. CASE Rename
  <2>1. CASE Ends("done", TRUE) /\ UNCHANGED <<sd, behind>>
    BY <1>0, <1>4, <1>c, <2>1 DEF Rename, Works
  <2>2. CASE ~(Ends("done", TRUE) /\ UNCHANGED <<sd, behind>>)
    <3>1. PICK heard \in BOOLEAN :
            /\ Host(job.dev) # None
            /\ sd' = [sd EXCEPT ![Host(job.dev)] =
                        (@ \ ({job.dir} \X job.names)) \cup {<<job.dir, job.arg>>}]
            /\ behind' = (behind \/ heard)
            /\ Ends("done", ~heard)
      BY <1>4, <2>2 DEF Rename
    <3>2. job.arg \in Name BY <1>0, <1>4 DEF Rename, Fits
    <3>3. sd' \in [Device -> SUBSET (Dir \X Name)]
      BY <1>0, <1>a, <3>1, <3>2
    <3>. QED BY <1>0, <1>4, <1>c, <3>1, <3>3 DEF Rename, Works
  <2>. QED BY <2>1, <2>2
<1>5. CASE LoopEnds
  BY <1>0, <1>5, <1>c DEF LoopEnds, Works, Single
\* One file of several.
<1>d. ASSUME NEW n \in job.names, NEW change \in SUBSET (Dir \X Name), NEW failed \in BOOLEAN,
             job.state = "run", job.kind \in {"move", "upload"}, Host(job.dev) # None,
             Item(n, change, failed),
             job.kind = "upload" => change \subseteq sd[job.dev] \cup {<<job.dir, n>>}
      PROVE  Works
  <2>1. job' = [job EXCEPT !.names = @ \ {n}, !.failed = @ \/ failed]
    BY <1>d DEF Item
  <2>2. /\ Fits(job') /\ job'.kind = job.kind /\ job'.dev = job.dev /\ job'.dir = job.dir
        /\ job'.warned = job.warned /\ job'.names = job.names \ {n}
    BY <1>0, <2>1 DEF Fits, Task
  <2>3. sd' = [sd EXCEPT ![Host(job.dev)] = change] /\ sd' \in [Device -> SUBSET (Dir \X Name)]
    BY <1>0, <1>a, <1>d DEF Item
  <2>4. job.kind = "upload" =>
          \A m \in job'.names : <<job.dir, m>> \in sd'[job.dev] => <<job.dir, m>> \in sd[job.dev]
    <3>. SUFFICES ASSUME job.kind = "upload", NEW m \in job'.names,
                         <<job.dir, m>> \in sd'[job.dev]
                  PROVE  <<job.dir, m>> \in sd[job.dev]
      OBVIOUS
    <3>1. job.dev \in Device /\ sd'[job.dev] = change
      BY <1>0, <1>a, <2>3 DEF Fits
    <3>2. <<job.dir, m>> # <<job.dir, n>> BY <2>2
    <3>. QED BY <1>d, <3>1, <3>2
  <2>. QED BY <1>0, <1>d, <2>2, <2>3, <2>4 DEF Item, Works, Single
<1>6. ASSUME NEW n \in Name, MoveOne(n) PROVE Works
  <2>. DEFINE held == sd[Host(job.dev)]
              moved == (held \ {<<job.dir, n>>}) \cup {<<job.arg, n>>}
  <2>0. /\ job.kind = "move" /\ job.state = "run" /\ n \in job.names /\ Host(job.dev) # None
        /\ job.arg \in Dir
    BY <1>0, <1>6 DEF MoveOne, Fits
  <2>1. held \in SUBSET (Dir \X Name) BY <1>0, <1>a, <2>0
  <2>2. moved \in SUBSET (Dir \X Name) BY <2>0, <2>1
  <2>3. \/ \E heard \in BOOLEAN : Item(n, moved, ~heard)
        \/ Item(n, held, TRUE)
    BY <1>6 DEF MoveOne
  <2>. HIDE DEF moved, held
  <2>. QED BY <1>d, <2>0, <2>1, <2>2, <2>3
<1>7. ASSUME NEW n \in Name, UploadOne(n) PROVE Works
  <2>. DEFINE held == sd[job.dev]
              sent == held \cup {<<job.dir, n>>}
  <2>0. /\ job.kind = "upload" /\ job.state = "run" /\ n \in job.names
        /\ Host(job.dev) = job.dev /\ Host(job.dev) # None /\ job.dev \in Device
    BY <1>0, <1>a, <1>7 DEF UploadOne, Fits
  <2>1. held \in SUBSET (Dir \X Name) /\ sent \in SUBSET (Dir \X Name)
    BY <1>0, <2>0
  <2>2. \/ \E heard \in BOOLEAN : Item(n, sent, ~heard)
        \/ Item(n, held, TRUE)
    BY <1>7 DEF UploadOne
  <2>3. held \subseteq sd[job.dev] \cup {<<job.dir, n>>} /\ sent = sd[job.dev] \cup {<<job.dir, n>>}
    OBVIOUS
  <2>. HIDE DEF sent, held
  <2>. QED BY <1>d, <2>0, <2>1, <2>2, <2>3
<1>8. ASSUME NEW n \in Name, DownloadOne(n) PROVE Works
  <2>1. CASE Ends("dead", TRUE)
    BY <1>0, <1>8, <1>c, <2>1 DEF DownloadOne, Works, Single
  <2>2. CASE \E whole \in BOOLEAN :
               job' = [job EXCEPT !.names = @ \ {n}, !.failed = @ \/ ~whole]
    <3>1. PICK whole \in BOOLEAN :
            job' = [job EXCEPT !.names = @ \ {n}, !.failed = @ \/ ~whole]
      BY <2>2
    <3>2. /\ Fits(job') /\ job'.kind = job.kind /\ job'.dev = job.dev /\ job'.dir = job.dir
          /\ job'.warned = job.warned /\ job'.names = job.names \ {n}
      BY <1>0, <3>1 DEF Fits, Task
    <3>. QED BY <1>0, <1>8, <3>2 DEF DownloadOne, Works, Single
  <2>. QED BY <1>8, <2>1, <2>2 DEF DownloadOne
<1>. QED BY <1>1, <1>2, <1>3, <1>4, <1>5, <1>6, <1>7, <1>8

\* What a callback does.
LEMMA CallbackStep ==
  ASSUME TypeOK, OneAtATime, ListFinished \/ JobFinished
  PROVE  (Relists \/ Listed \/ EndsUnlisted) /\ UNCHANGED counts
<1>1. CASE ListFinished
  <2>1. Listed BY <1>1 DEF ListFinished, Listed
  <2>. QED BY <1>1, <2>1 DEF ListFinished
<1>2. CASE JobFinished
  <2>0. asking = NoTask /\ UNCHANGED counts
    BY <1>2, NoTaskIs DEF JobFinished, OneAtATime, Relist
  <2>1. CASE Relist(selected, at)
    BY <1>2, <2>0, <2>1, RelistIs DEF JobFinished, TypeOK
  <2>2. CASE ~Relist(selected, at)
    BY <1>2, <2>0, <2>2 DEF JobFinished, EndsUnlisted, OneAtATime, Fits, Task, Kinds, Single
  <2>. QED BY <2>0, <2>1, <2>2
<1>. QED BY <1>1, <1>2

\* A step of the tab, and nothing else.
TabStep ==
  \/ Relists \/ (\E task : AsksFor(task)) \/ Dismiss \/ Agrees
  \/ Works \/ Listed \/ EndsUnlisted

LEMMA StepIs ==
  ASSUME TypeOK, OneAtATime, [Next]_vars
  PROVE  \/ TabStep /\ ops' \in 0..MaxOps /\ outside' = outside
         \/ EditDevices
         \/ \E d \in Device, n \in Name : SyncUpload(d, n)
         \/ UNCHANGED vars
<1>1. CASE User
  <2>1. /\ ops' \in 0..MaxOps
        /\ Relists \/ (\E task : AsksFor(task)) \/ Dismiss \/ Agrees
    BY <1>1, UserStep
  <2>2. outside' = outside BY <2>1 DEF Relists, AsksFor, Dismiss, Agrees
  <2>. QED BY <2>1, <2>2 DEF TabStep
<1>2. CASE Program
  <2>1. CASE ListFinished \/ JobFinished
    BY <2>1, CallbackStep DEF TabStep, TypeOK
  <2>2. CASE ~(ListFinished \/ JobFinished)
    <3>1. Works BY <1>2, <2>2, WorkStep DEF Program
    <3>2. UNCHANGED counts BY <3>1 DEF Works
    <3>. QED BY <3>1, <3>2 DEF TabStep, TypeOK
  <2>. QED BY <2>1, <2>2
<1>. QED BY <1>1, <1>2 DEF Next

-----------------------------------------------------------------------------
(* Types, and one thing at a time.                                         *)

LEMMA StepTypeOK ==
  ASSUME TypeOK, OneAtATime, [Next]_vars PROVE TypeOK'
<1>. USE DEF TypeOK
<1>0. /\ NoTask \in Task /\ NoItems \in [dev : Device \cup {None}, dir : Dir, names : SUBSET Name]
      /\ asking \in Task /\ job \in Task
      /\ job.dir \in Dir /\ job.dev \in Device \cup {None} /\ job.names \in SUBSET Name
  BY NoTaskIs DEF NoItems, Task
<1>1. ASSUME TabStep, ops' \in 0..MaxOps, outside' = outside PROVE TypeOK'
  <2>1. CASE Relists BY <1>0, <1>1, <2>1 DEF Relists, Fits
  <2>2. ASSUME NEW task, AsksFor(task) PROVE TypeOK'
    BY <1>1, <2>2 DEF AsksFor, Fits
  <2>3. CASE Dismiss BY <1>0, <2>3 DEF Dismiss
  <2>4. CASE Agrees BY <1>0, <2>4 DEF Agrees, Fits
  <2>5. CASE Works
    <3>1. /\ job' \in Task /\ behind' \in BOOLEAN
          /\ sd' \in [Device -> SUBSET (Dir \X Name)]
          /\ folders' \in [Device -> SUBSET Dir]
      BY <2>5 DEF Works, Fits
    <3>2. UNCHANGED <<config, choices, selected, items, at, asking, busy, arrived, counts>>
      BY <2>5 DEF Works
    <3>. QED BY <3>1, <3>2
  <2>6. CASE Listed
    <3>1. /\ items' \in [dev : Device \cup {None}, dir : Dir, names : SUBSET Name]
          /\ at' \in Dir
      BY <1>0, <2>6 DEF Listed
    <3>2. /\ busy' = FALSE /\ job' = NoTask /\ behind' = FALSE
          /\ UNCHANGED <<device, config, choices, selected, asking, arrived, counts>>
      BY <2>6 DEF Listed
    <3>. QED BY <1>0, <3>1, <3>2
  <2>7. CASE EndsUnlisted BY <1>0, <2>7 DEF EndsUnlisted
  <2>. QED BY <1>1, <2>1, <2>2, <2>3, <2>4, <2>5, <2>6, <2>7 DEF TabStep
<1>2. CASE EditDevices
  BY <1>2 DEF EditDevices, Outside
<1>3. ASSUME NEW d \in Device, NEW n \in Name, SyncUpload(d, n) PROVE TypeOK'
  BY <1>3 DEF SyncUpload, Outside
<1>4. CASE UNCHANGED vars BY <1>4
<1>. QED BY <1>1, <1>2, <1>3, <1>4, StepIs

LEMMA StepOneAtATime ==
  ASSUME TypeOK, OneAtATime, [Next]_vars PROVE OneAtATime'
<1>. USE DEF OneAtATime
<1>0. Fits(NoTask) /\ NoTask.kind # "list" /\ ~NoTask.failed /\ NoTask.state = "run"
  BY NoTaskIs
<1>1. CASE TabStep
  <2>1. CASE Relists BY <1>0, <2>1 DEF Relists
  <2>2. ASSUME NEW task, AsksFor(task) PROVE OneAtATime'
    BY <2>2 DEF AsksFor
  <2>3. CASE Dismiss BY <1>0, <2>3 DEF Dismiss
  <2>4. CASE Agrees BY <1>0, <2>4 DEF Agrees
  <2>5. CASE Works BY <2>5, NoTaskIs DEF Works
  <2>6. CASE Listed BY <1>0, <2>6 DEF Listed
  <2>7. CASE EndsUnlisted BY <1>0, <2>7 DEF EndsUnlisted
  <2>. QED BY <1>1, <2>1, <2>2, <2>3, <2>4, <2>5, <2>6, <2>7 DEF TabStep
<1>2. CASE EditDevices
  BY <1>2 DEF EditDevices
<1>3. ASSUME NEW d \in Device, NEW n \in Name, SyncUpload(d, n) PROVE OneAtATime'
  BY <1>3 DEF SyncUpload
<1>4. CASE UNCHANGED vars BY <1>4
<1>. QED BY <1>1, <1>2, <1>3, <1>4, StepIs

LEMMA InitTyped == ASSUME Init PROVE TypeOK /\ OneAtATime
<1>1. /\ NoTask \in Task /\ Fits(NoTask) /\ NoTask.kind # "list"
      /\ ~NoTask.failed /\ NoTask.state = "run"
  BY NoTaskIs
<1>2. NoItems \in [dev : Device \cup {None}, dir : Dir, names : SUBSET Name]
  BY DEF NoItems
<1>3. folders \in [Device -> SUBSET Dir]
  <2>1. \A d \in Device : {Root} \cup {f[1] : f \in FirstFiles[d]} \in SUBSET Dir
    OBVIOUS
  <2>. QED BY <2>1 DEF Init
<1>4. selected \in Device \cup {None}
  <2>1. config \in Seq(Device) BY DEF Init
  <2>. QED BY <2>1 DEF Init
<1>5. OneAtATime
  BY <1>1 DEF Init, OneAtATime
<1>6. /\ sd \in [Device -> SUBSET (Dir \X Name)] /\ config \in Configs /\ choices \in Configs
      /\ busy \in BOOLEAN /\ at \in Dir
      /\ arrived \subseteq Device \X Name /\ behind \in BOOLEAN
  BY DEF Init
<1>7. /\ items \in [dev : Device \cup {None}, dir : Dir, names : SUBSET Name]
      /\ asking \in Task /\ job \in Task
  BY <1>1, <1>2 DEF Init
<1>8. ops \in 0..MaxOps /\ outside \in 0..MaxOutside
  BY DEF Init
<1>. QED BY <1>3, <1>4, <1>5, <1>6, <1>7, <1>8 DEF TypeOK

\* Every variable keeps its type: jobs have the device, the folder and the name
\* their kind needs.
THEOREM FilesTyped == Spec => []TypeOK
<1>1. Init => TypeOK /\ OneAtATime BY InitTyped
<1>2. TypeOK /\ OneAtATime /\ [Next]_vars => TypeOK' /\ OneAtATime'
  BY StepTypeOK, StepOneAtATime
<1>. QED BY <1>1, <1>2, PTL DEF Spec

-----------------------------------------------------------------------------
(* Questions about the files of the right device.                          *)

LEMMA StepListedHere ==
  ASSUME TypeOK, OneAtATime, ListedHere, [Next]_vars PROVE ListedHere'
<1>. USE DEF ListedHere, AskedOfTheRightDevice
<1>0. NoTask.kind = "none" /\ NoItems.dev = None /\ NoItems.names = {}
  BY NoTaskIs DEF NoItems
<1>a. asking = NoTask \/ job = NoTask
  BY DEF OneAtATime
<1>1. CASE TabStep
  <2>1. CASE Relists BY <1>0, <2>1 DEF Relists
  <2>2. ASSUME NEW task, AsksFor(task) PROVE ListedHere'
    BY <1>0, <2>2 DEF AsksFor, OneAtATime
  <2>3. CASE Dismiss BY <1>0, <2>3 DEF Dismiss
  <2>4. CASE Agrees BY <1>0, <2>4 DEF Agrees, OneAtATime
  <2>5. CASE Works BY <2>5 DEF Works
  <2>6. CASE Listed
    <3>1. job.kind = "list" /\ job.dev \in Device /\ job.dev = selected
      BY <2>6 DEF Listed, OneAtATime, Fits
    <3>2. asking = NoTask BY <1>0, <1>a, <3>1
    <3>. QED BY <1>0, <2>6, <3>1, <3>2 DEF Listed
  <2>7. CASE EndsUnlisted
    BY <1>0, <2>7 DEF EndsUnlisted, Single
  <2>. QED BY <1>1, <2>1, <2>2, <2>3, <2>4, <2>5, <2>6, <2>7 DEF TabStep
<1>2. CASE EditDevices
  BY <1>2 DEF EditDevices
<1>3. ASSUME NEW d \in Device, NEW n \in Name, SyncUpload(d, n) PROVE ListedHere'
  BY <1>3 DEF SyncUpload
<1>4. CASE UNCHANGED vars BY <1>4
<1>. QED BY <1>1, <1>2, <1>3, <1>4, StepIs

\* A yes to a question about files goes to the device they were listed from,
\* whatever happens to the device list meanwhile (_on_device_changed,
\* refresh_device_list, _resolve_host).
THEOREM RightDeviceAsked == Spec => []AskedOfTheRightDevice
<1>1. ASSUME Init PROVE TypeOK /\ OneAtATime /\ ListedHere
  <2>1. asking.kind = "none" /\ job.kind = "none" /\ items = NoItems
    BY <1>1, NoTaskIs DEF Init
  <2>2. ListedHere
    BY <2>1 DEF ListedHere, AskedOfTheRightDevice, NoItems
  <2>. QED BY <1>1, <2>2, InitTyped
<1>2. TypeOK /\ OneAtATime /\ ListedHere /\ [Next]_vars =>
        TypeOK' /\ OneAtATime' /\ ListedHere'
  BY StepTypeOK, StepOneAtATime, StepListedHere
<1>3. ListedHere => AskedOfTheRightDevice BY DEF ListedHere
<1>. QED BY <1>1, <1>2, <1>3, PTL DEF Spec

-----------------------------------------------------------------------------
(* What a job reports as done is listed.                                   *)

LEMMA StepTold ==
  ASSUME TypeOK, OneAtATime, Told, [Next]_vars PROVE Told'
<1>. USE DEF Told, ListingKeepsUp, Single
<1>0. NoTask.kind = "none" /\ ~NoTask.failed
  BY NoTaskIs
<1>1. CASE TabStep
  <2>1. CASE Relists BY <1>0, <2>1 DEF Relists
  <2>2. ASSUME NEW task, AsksFor(task) PROVE Told'
    BY <2>2 DEF AsksFor
  <2>3. CASE Dismiss BY <2>3 DEF Dismiss
  <2>4. CASE Agrees BY <2>4 DEF Agrees
  <2>5. CASE Works
    <3>1. busy /\ busy' = busy /\ selected' = selected
      BY <1>0, <2>5 DEF Works, OneAtATime
    <3>. QED BY <2>5, <3>1 DEF Works
  <2>6. CASE Listed BY <1>0, <2>6 DEF Listed
  <2>7. CASE EndsUnlisted BY <1>0, <2>7 DEF EndsUnlisted
  <2>. QED BY <1>1, <2>1, <2>2, <2>3, <2>4, <2>5, <2>6, <2>7 DEF TabStep
<1>2. CASE EditDevices
  BY <1>2 DEF EditDevices
<1>3. ASSUME NEW d \in Device, NEW n \in Name, SyncUpload(d, n) PROVE Told'
  BY <1>3 DEF SyncUpload
<1>4. CASE UNCHANGED vars BY <1>4
<1>. QED BY <1>1, <1>2, <1>3, <1>4, StepIs

\* A change that a job has reported is in the listing once the tab is free, unless
\* no device is left to be listed (_delete_finished, _op_finished and the rest).
THEOREM ListingsKeepUp == Spec => []ListingKeepsUp
<1>1. Init => TypeOK /\ OneAtATime /\ Told
  BY InitTyped, NoTaskIs DEF Init, Told, ListingKeepsUp
<1>2. TypeOK /\ OneAtATime /\ Told /\ [Next]_vars => TypeOK' /\ OneAtATime' /\ Told'
  BY StepTypeOK, StepOneAtATime, StepTold
<1>3. Told => ListingKeepsUp BY DEF Told
<1>. QED BY <1>1, <1>2, <1>3, PTL DEF Spec

-----------------------------------------------------------------------------
(* Uploads.                                                                *)

LEMMA StepAsked ==
  ASSUME TypeOK, OneAtATime, Asked, [Next]_vars PROVE Asked'
<1>. USE DEF Asked
<1>0. NoTask.kind = "none"
  BY NoTaskIs
<1>1. CASE TabStep
  <2>1. CASE Relists BY <1>0, <2>1 DEF Relists
  <2>2. ASSUME NEW task, AsksFor(task) PROVE Asked'
    BY <2>2 DEF AsksFor
  <2>3. CASE Dismiss BY <2>3 DEF Dismiss
  <2>4. CASE Agrees BY <2>4 DEF Agrees
  <2>5. CASE Works BY <2>5 DEF Works
  <2>6. CASE Listed BY <1>0, <2>6 DEF Listed
  <2>7. CASE EndsUnlisted BY <1>0, <2>7 DEF EndsUnlisted
  <2>. QED BY <1>1, <2>1, <2>2, <2>3, <2>4, <2>5, <2>6, <2>7 DEF TabStep
<1>2. CASE EditDevices
  BY <1>2 DEF EditDevices
<1>3. ASSUME NEW d \in Device, NEW n \in Name, SyncUpload(d, n) PROVE Asked'
  <2>. SUFFICES ASSUME job.kind = "upload", NEW m \in job.names,
                       <<job.dir, m>> \in sd'[job.dev]
                PROVE  m \in job.warned \/ <<job.dev, m>> \in arrived'
    BY <1>3 DEF SyncUpload
  <2>1. job.dev \in Device BY DEF OneAtATime, Fits
  <2>2. CASE <<job.dir, m>> \in sd[job.dev] BY <1>3, <2>2 DEF SyncUpload
  <2>3. CASE <<job.dir, m>> \notin sd[job.dev]
    <3>1. job.dev = d /\ <<job.dir, m>> = <<Root, n>>
      BY <1>3, <2>1, <2>3 DEF SyncUpload, TypeOK
    <3>2. m = n BY <3>1
    <3>. QED BY <1>3, <3>1, <3>2 DEF SyncUpload
  <2>. QED BY <2>2, <2>3
<1>4. CASE UNCHANGED vars BY <1>4
<1>. QED BY <1>1, <1>2, <1>3, <1>4, StepIs

\* An upload replaces a file only if its name was in the question, or if the file
\* has come to the device after it was looked up (_upload_files).
THEOREM OverwritesAreAsked == Spec => NoSilentOverwrite
<1>. DEFINE Step ==
       job.kind = "upload" /\ job'.kind = "upload" =>
         \A n \in job.names \ job'.names :
           <<job.dir, n>> \in sd[job.dev] =>
             n \in job.warned \/ <<job.dev, n>> \in arrived
<1>1. Init => TypeOK /\ OneAtATime /\ Asked
  BY InitTyped, NoTaskIs DEF Init, Asked
<1>2. TypeOK /\ OneAtATime /\ Asked /\ [Next]_vars => TypeOK' /\ OneAtATime' /\ Asked'
  BY StepTypeOK, StepOneAtATime, StepAsked
<1>3. Asked => Step BY DEF Asked
<1>4. TypeOK /\ OneAtATime /\ Asked /\ [Next]_vars => [Step]_vars BY <1>3
<1>. HIDE DEF Step
<1>5. Spec => [][Step]_vars
  BY <1>1, <1>2, <1>4, PTL DEF Spec
<1>. QED BY <1>5 DEF NoSilentOverwrite, Step
=============================================================================
