-------------------------- MODULE BackupFolder_proof --------------------------
(***************************************************************************)
(* Proofs about the shared folder, for any computers, processes, sites,    *)
(* rows and copies of the folder, and any number of edits, seconds and     *)
(* faults.                                                                 *)
(***************************************************************************)
EXTENDS FolderRows, TLAPS

LEMMA MergeTyped ==
  ASSUME NEW mine \in SiteList, NEW theirs \in SiteList, NEW wins \in BOOLEAN
  PROVE  Merge(mine, theirs, wins) \in SiteList
BY DEF Merge, SiteList

LEMMA AtCopy == ASSUME TypeOK, NEW p \in Process PROVE At(p) \in Copy
BY FolderAssumption DEF TypeOK, At

LEMMA FinishTyped ==
  ASSUME TypeOK, NEW p \in Process, Finish(p)
  PROVE  /\ lock' \in [Copy -> Process \cup {None}]
         /\ pc' \in [Process -> {"idle", "pull_load", "pull_lock", "push_load",
                                 "push_lock"} \cup Locked]
         /\ seen' \in [Process -> [sites : SiteList, last : 0..MaxTime]]
         /\ posts' \in [Process -> SUBSET Row]
         /\ stamp' \in [Process -> 0..MaxTime]
         /\ blind' \in [Process -> BOOLEAN]
<1>1. Nothing \in [sites : SiteList, last : 0..MaxTime]
  BY FolderAssumption DEF Nothing, Empty, SiteList
<1>2. lock' \in [Copy -> Process \cup {None}]
  BY DEF TypeOK, Finish
<1>. QED BY <1>1, <1>2, FolderAssumption DEF TypeOK, Finish

LEMMA InitTypeOK == Init => TypeOK
BY FolderAssumption
   DEF Init, TypeOK, SiteList, Empty, Nothing, Locked

LEMMA FaultTyped ==
  ASSUME TypeOK, NEW kind, Fault(kind) PROVE faults' \in 0..MaxFaults
BY FolderAssumption DEF TypeOK, Fault

LEMMA StepTypeOK ==
  ASSUME TypeOK, [Next]_vars PROVE TypeOK'
<1>. USE FolderAssumption
<1>1. ASSUME NEW p \in Process, StartPull(p) \/ StartPush(p) PROVE TypeOK'
  BY <1>1 DEF TypeOK, StartPull, StartPush, Goto, local, folder, world
<1>2. ASSUME NEW p \in Process, Load(p) PROVE TypeOK'
  <2>1. [sites |-> sites[Home[p]], last |-> lastPush[Home[p]]]
          \in [sites : SiteList, last : 0..MaxTime]
    BY DEF TypeOK
  <2>. QED BY <1>2, <2>1 DEF TypeOK, Load, Goto, local, folder, world
<1>3. ASSUME NEW p \in Process, TakeLock(p) PROVE TypeOK'
  BY <1>3, AtCopy DEF TypeOK, TakeLock, Goto, Locked, local, folder, world
<1>4. ASSUME NEW p \in Process, LockRefused(p) \/ Breaks(p) PROVE TypeOK'
  <2>1. Finish(p) /\ UNCHANGED <<local, folder, clock, edits>>
    BY <1>4 DEF LockRefused, Breaks
  <2>2. faults' \in 0..MaxFaults
    BY <1>4, FaultTyped DEF LockRefused, Breaks
  <2>. QED BY <2>1, <2>2, FinishTyped DEF TypeOK, local, folder
<1>5. ASSUME NEW p \in Process, PullSites(p) PROVE TypeOK'
  <2>1. FolderWins(p) \in BOOLEAN
    BY AtCopy DEF FolderWins, TypeOK
  <2>2. Merge(sites[Home[p]], fileSites[At(p)], FolderWins(p)) \in SiteList
    BY <2>1, MergeTyped, AtCopy DEF TypeOK
  <2>3. sites' \in [Computer -> SiteList]
    BY <1>5, <2>2 DEF PullSites, TypeOK
  <2>4. faults' \in 0..MaxFaults
    BY <1>5, FaultTyped DEF PullSites, TypeOK
  <2>. QED BY <1>5, <2>3, <2>4 DEF TypeOK, PullSites, Goto, Locked, folder
<1>6. ASSUME NEW p \in Process, NEW read \in SUBSET Row, PullRows(p, read)
      PROVE  TypeOK'
  <2>1. faults' \in 0..MaxFaults
    BY <1>6, FaultTyped DEF PullRows, ReadAs, TypeOK
  <2>2. rows' \in [Computer -> SUBSET Row]
    BY <1>6 DEF PullRows, TypeOK
  <2>. QED BY <1>6, <2>1, <2>2, FinishTyped DEF TypeOK, PullRows, folder
<1>7. ASSUME NEW p \in Process, PushSites(p) PROVE TypeOK'
  <2>1. /\ fileSites' \in [Copy -> SiteList] /\ fileAt' \in [Copy -> 0..MaxTime]
        /\ clock' \in 1..MaxTime /\ stamp' \in [Process -> 0..MaxTime]
    BY <1>7, AtCopy DEF TypeOK, PushSites
  <2>. QED BY <1>7, <2>1 DEF TypeOK, PushSites, Goto, Locked, local
<1>8. ASSUME NEW p \in Process, NEW read \in SUBSET Row, PushRows(p, read)
      PROVE  TypeOK'
  <2>1. faults' \in 0..MaxFaults
    BY <1>8, FaultTyped DEF PushRows, ReadAs, TypeOK
  <2>2. rows' \in [Computer -> SUBSET Row]
    BY <1>8 DEF PushRows, TypeOK
  <2>3. posts' \in [Process -> SUBSET Row]
    BY <1>8, <2>2 DEF PushRows, TypeOK
  <2>4. blind' \in [Process -> BOOLEAN]
    <3>1. (read # fileRows[At(p)]) \in BOOLEAN OBVIOUS
    <3>. QED BY <1>8, <3>1 DEF PushRows, TypeOK
  <2>. QED BY <1>8, <2>1, <2>2, <2>3, <2>4
      DEF TypeOK, PushRows, Goto, Locked, folder
<1>9. ASSUME NEW p \in Process, PushWrite(p) PROVE TypeOK'
  <2>1. newer' \subseteq Copy \X Copy
    BY <1>9, AtCopy, FolderAssumption DEF TypeOK, PushWrite, Used
  <2>2. fileRows' \in [Copy -> SUBSET Row] BY <1>9, AtCopy DEF TypeOK, PushWrite
  <2>. QED BY <1>9, <2>1, <2>2 DEF TypeOK, PushWrite, Goto, Locked, local, world
<1>10. ASSUME NEW p \in Process, PushMeta(p) PROVE TypeOK'
  <2>1. lastPush' \in [Computer -> 0..MaxTime]
    BY <1>10 DEF PushMeta, TypeOK
  <2>. QED BY <1>10, <2>1, FinishTyped DEF TypeOK, PushMeta, folder, world
<1>11. ASSUME NEW c \in Computer, NEW s \in Site, SaveSite(c, s) PROVE TypeOK'
  BY <1>11 DEF TypeOK, SiteList, SaveSite, folder, service
<1>12. ASSUME NEW c \in Computer, NEW s \in Site, DeleteSite(c, s) PROVE TypeOK'
  BY <1>12, FaultTyped DEF TypeOK, SiteList, DeleteSite, folder, service
<1>13. ASSUME NEW c \in Computer, NEW r \in Row, Record(c, r) \/ DeleteEntries(c, r)
       PROVE  TypeOK'
  <2>1. rows' \in [Computer -> SUBSET Row]
    BY <1>13 DEF TypeOK, Record, DeleteEntries
  <2>2. faults' \in 0..MaxFaults
    BY <1>13, FaultTyped DEF TypeOK, Record, DeleteEntries, world
  <2>. QED BY <1>13, <2>1, <2>2 DEF TypeOK, Record, DeleteEntries, folder, world, service
<1>14. ASSUME NEW k \in Copy, NEW l \in Copy, Carry(k, l) PROVE TypeOK'
  <2>1. faults' \in 0..MaxFaults
    BY <1>14, FaultTyped DEF Carry, TypeOK
  <2>2. /\ fileRows' \in [Copy -> SUBSET Row] /\ newer' \subseteq Copy \X Copy
        /\ blind' \in [Process -> BOOLEAN]
    BY <1>14 DEF Carry, TypeOK
  <2>. QED BY <1>14, <2>1, <2>2 DEF TypeOK, Carry, local
<1>15. ASSUME NEW k \in Copy, NEW l \in Copy, CarrySites(k, l) PROVE TypeOK'
  <2>1. fileSites' \in [Copy -> SiteList] /\ fileAt' \in [Copy -> 0..MaxTime]
    BY <1>15 DEF CarrySites, TypeOK
  <2>. QED BY <1>15, <2>1 DEF TypeOK, CarrySites, local, world, service
<1>16. CASE UNCHANGED vars
  BY <1>16 DEF TypeOK, vars, local, folder, world, service
<1>. QED BY <1>1, <1>2, <1>3, <1>4, <1>5, <1>6, <1>7, <1>8, <1>9, <1>10, <1>11,
            <1>12, <1>13, <1>14, <1>15, <1>16 DEF Next, Step

\* Type correctness, for any instance.
THEOREM TypeCorrect == Spec => []TypeOK
<1>1. TypeOK /\ [Next]_vars => TypeOK'
  BY StepTypeOK
<1>. QED BY InitTypeOK, <1>1, PTL DEF Spec

-----------------------------------------------------------------------------
(* The rows of the folder.                                                 *)

\* Who reads or writes a copy of the folder has its lock, and what is about to
\* replace synced_posts.json contains it, if it was read and taken over.
Prepared ==
  /\ TypeOK
  /\ \A p \in Process : pc[p] \in Locked => lock[At(p)] = p
  /\ \A p \in Process :
       pc[p] = "push_write" /\ ~blind[p] => fileRows[At(p)] \subseteq posts[p]

LEMMA InitPrepared == Init => Prepared
BY InitTypeOK DEF Init, Prepared, Locked

LEMMA StepPrepared ==
  ASSUME Prepared, [Next]_vars PROVE Prepared'
<1>. USE FolderAssumption
<1>1. TypeOK' /\ \A p \in Process : At(p) \in Copy
  BY StepTypeOK, AtCopy DEF Prepared
<1>2. ASSUME NEW p \in Process, StartPull(p) \/ StartPush(p) \/ Load(p)
      PROVE  Prepared'
  <2>1. /\ UNCHANGED <<place, fileRows, lock, posts, blind>>
        /\ pc' \in {[pc EXCEPT ![p] = to] :
                     to \in {"pull_load", "push_load", "pull_lock", "push_lock"}}
    BY <1>2 DEF StartPull, StartPush, Load, Goto, folder
  <2>2. \A q \in Process : At(q)' = At(q) BY <2>1 DEF At
  <2>3. \A q \in Process : pc'[q] \in Locked => pc'[q] = pc[q]
    BY <2>1 DEF Prepared, TypeOK, Locked
  <2>. QED BY <1>1, <2>1, <2>2, <2>3 DEF Prepared, Locked
<1>3. ASSUME NEW p \in Process, TakeLock(p) PROVE Prepared'
  <2>1. /\ lock' = [lock EXCEPT ![At(p)] = p] /\ lock[At(p)] = None
        /\ pc' \in {[pc EXCEPT ![p] = "pull_sites"], [pc EXCEPT ![p] = "push_sites"]}
        /\ UNCHANGED <<place, fileRows, posts, blind>>
    BY <1>3 DEF TakeLock, Goto, folder
  <2>2. \A q \in Process : At(q)' = At(q) BY <2>1 DEF At
  <2>3. \A q \in Process : pc'[q] \in Locked => lock'[At(q)] = q
    BY <1>1, <2>1 DEF Prepared, TypeOK, Locked
  <2>4. \A q \in Process : pc'[q] = "push_write" => pc[q] = "push_write"
    BY <2>1 DEF Prepared, TypeOK
  <2>. QED BY <1>1, <2>1, <2>2, <2>3, <2>4 DEF Prepared
<1>4. ASSUME NEW p \in Process, Finish(p), UNCHANGED <<place, fileRows>> PROVE Prepared'
  <2>1. \A q \in Process : At(q)' = At(q) BY <1>4 DEF At
  <2>2. \A q \in Process \ {p} :
          pc'[q] = pc[q] /\ posts'[q] = posts[q] /\ blind'[q] = blind[q]
    BY <1>4 DEF Finish, Prepared, TypeOK
  <2>3. pc'[p] = "idle" BY <1>4 DEF Finish, Prepared, TypeOK
  <2>4. \A q \in Process \ {p} : lock[At(q)] = q => lock'[At(q)] = q
    BY <1>1, <1>4 DEF Finish, Prepared, TypeOK
  <2>. QED BY <1>1, <1>4, <2>1, <2>2, <2>3, <2>4 DEF Prepared, Locked
<1>5. ASSUME NEW p \in Process, LockRefused(p) \/ Breaks(p) \/ PushMeta(p)
      PROVE  Prepared'
  BY <1>4, <1>5 DEF LockRefused, Breaks, PushMeta, folder
<1>6. ASSUME NEW p \in Process, NEW read \in SUBSET Row, PullRows(p, read)
      PROVE  Prepared'
  BY <1>4, <1>6 DEF PullRows, folder
<1>7. ASSUME NEW p \in Process, PullSites(p) \/ PushSites(p) PROVE Prepared'
  <2>1. /\ UNCHANGED <<place, fileRows, lock, posts, blind>>
        /\ pc[p] \in {"pull_sites", "push_sites"}
        /\ pc' \in {[pc EXCEPT ![p] = to] : to \in {"pull_rows", "push_rows"}}
    BY <1>7 DEF PullSites, PushSites, Goto, folder
  <2>2. \A q \in Process : At(q)' = At(q) BY <2>1 DEF At
  <2>3. \A q \in Process :
          /\ pc'[q] \in Locked => pc[q] \in Locked
          /\ pc'[q] = "push_write" => pc[q] = "push_write"
    BY <2>1 DEF Prepared, TypeOK, Locked
  <2>. QED BY <1>1, <2>1, <2>2, <2>3 DEF Prepared
<1>8. ASSUME NEW p \in Process, NEW read \in SUBSET Row, PushRows(p, read)
      PROVE  Prepared'
  <2>1. \A q \in Process : At(q)' = At(q) BY <1>8 DEF PushRows, At, folder
  <2>2. ~blind'[p] => fileRows[At(p)] \subseteq posts'[p]
    <3>1. CASE rows' = [rows EXCEPT ![Home[p]] = @ \cup read]
               /\ posts' = [posts EXCEPT ![p] = rows'[Home[p]]]
               /\ blind' = [blind EXCEPT ![p] = read # fileRows[At(p)]]
      BY <3>1 DEF Prepared, TypeOK
    <3>2. CASE blind' = [blind EXCEPT ![p] = TRUE]
      BY <3>2 DEF Prepared, TypeOK
    <3>. QED BY <1>8, <3>1, <3>2 DEF PushRows
  <2>3. /\ UNCHANGED <<lock, fileRows>>
        /\ pc[p] = "push_rows" /\ pc'[p] = "push_write"
        /\ \A q \in Process \ {p} :
             pc'[q] = pc[q] /\ posts'[q] = posts[q] /\ blind'[q] = blind[q]
    BY <1>8 DEF PushRows, Goto, Prepared, TypeOK, folder
  <2>4. \A q \in Process : pc'[q] \in Locked => lock'[At(q)] = q
    BY <2>3 DEF Prepared, Locked
  <2>5. \A q \in Process :
          pc'[q] = "push_write" /\ ~blind'[q] => fileRows'[At(q)] \subseteq posts'[q]
    BY <2>2, <2>3 DEF Prepared
  <2>. QED BY <1>1, <2>1, <2>4, <2>5 DEF Prepared
<1>9. ASSUME NEW p \in Process, PushWrite(p) PROVE Prepared'
  <2>1. \A q \in Process : At(q)' = At(q) BY <1>9 DEF PushWrite, At
  <2>2. /\ pc[p] = "push_write" /\ pc' = [pc EXCEPT ![p] = "push_meta"]
        /\ fileRows' = [fileRows EXCEPT ![At(p)] = posts[p]]
        /\ UNCHANGED <<lock, posts, blind>>
    BY <1>9 DEF PushWrite, Goto
  <2>3. \A q \in Process : pc'[q] \in Locked => pc[q] \in Locked
    BY <2>2 DEF Prepared, TypeOK, Locked
  <2>4. \A q \in Process : pc'[q] = "push_write" => At(q) # At(p) /\ pc[q] = "push_write"
    BY <2>2 DEF Prepared, TypeOK, Locked
  <2>5. \A q \in Process : pc'[q] = "push_write" => fileRows'[At(q)] = fileRows[At(q)]
    BY <1>1, <2>2, <2>4 DEF Prepared, TypeOK
  <2>. QED BY <1>1, <2>1, <2>2, <2>3, <2>4, <2>5 DEF Prepared
<1>10. ASSUME NEW k \in Copy, NEW l \in Copy, Carry(k, l) PROVE Prepared'
  <2>1. \A q \in Process : At(q)' = At(q) BY <1>10 DEF Carry, At
  <2>2. \A q \in Process :
          pc[q] = "push_write" /\ ~blind'[q] =>
            ~blind[q] /\ fileRows'[At(q)] = fileRows[At(q)]
    BY <1>1, <1>10 DEF Carry, Prepared, TypeOK
  <2>. QED BY <1>1, <1>10, <2>1, <2>2 DEF Prepared, Carry
<1>11. CASE UNCHANGED <<service, place, fileRows>>
  BY <1>1, <1>11 DEF Prepared, Locked, At, service
<1>12. ASSUME NEW c \in Computer,
              \/ \E s \in Site : SaveSite(c, s) \/ DeleteSite(c, s)
              \/ \E r \in Row : Record(c, r) \/ DeleteEntries(c, r)
       PROVE  Prepared'
  BY <1>11, <1>12 DEF SaveSite, DeleteSite, Record, DeleteEntries, folder
<1>13. CASE UNCHANGED vars \/ \E k, l \in Copy : CarrySites(k, l)
  BY <1>11, <1>13 DEF CarrySites, vars, folder
<1>. QED BY <1>2, <1>3, <1>5, <1>6, <1>7, <1>8, <1>9, <1>10, <1>12, <1>13 DEF Next, Step

\* A push that read and took over the file keeps the rows of the other computers.
THEOREM FolderKeepsRows == Spec => FileKeepsRows
<1>. DEFINE Kept == (\E p \in Process : pc'[p] # pc[p]) =>
              \A k \in Copy :
                \/ fileRows[k] \subseteq fileRows'[k]
                \/ \E p \in Process : blind[p] /\ pc[p] = "push_write" /\ At(p) = k
<1>1. ASSUME Prepared, Next PROVE Kept
  <2>1. ASSUME NEW p \in Process, PushWrite(p) PROVE Kept
    <3>1. pc[p] = "push_write" /\ fileRows' = [fileRows EXCEPT ![At(p)] = posts[p]]
      BY <2>1 DEF PushWrite, Goto
    <3>2. CASE blind[p]
      BY <1>1, <3>1, <3>2 DEF Prepared, TypeOK
    <3>3. CASE ~blind[p]
      <4>1. fileRows[At(p)] \subseteq posts[p]
        BY <1>1, <3>1, <3>3 DEF Prepared
      <4>. QED BY <1>1, <3>1, <4>1 DEF Prepared, TypeOK
    <3>. QED BY <3>2, <3>3
  <2>2. CASE UNCHANGED fileRows BY <2>2
  <2>3. CASE UNCHANGED pc BY <2>3
  <2>. QED BY <1>1, <2>1, <2>2, <2>3 DEF Next, Step, StartPull, StartPush, Load,
     TakeLock, LockRefused, PullSites, PullRows, PushSites, PushRows, PushMeta, Breaks,
     SaveSite, DeleteSite, Record, DeleteEntries, Carry, CarrySites, folder, service
<1>2. Prepared /\ [Next]_vars => Prepared' /\ [Kept]_vars
  BY <1>1, StepPrepared
<1>. QED BY InitPrepared, <1>2, PTL DEF Spec, FileKeepsRows

\* A pull takes no site from a computer's list, however old the list is that it
\* has loaded.
THEOREM LocalSitesStay == Spec => LocalSitesKept
<1>. DEFINE Stay ==
       \A p \in Process : pc[p] \in Locked /\ pc'[p] # pc[p] =>
         \A c \in Computer, s \in Site : sites[c][s] # 0 => sites'[c][s] # 0
<1>1. ASSUME TypeOK, Next PROVE Stay
  <2>1. ASSUME NEW p \in Process, PullSites(p)
        PROVE  \A c \in Computer, s \in Site : sites[c][s] # 0 => sites'[c][s] # 0
    <3>. DEFINE merged == Merge(sites[Home[p]], fileSites[At(p)], FolderWins(p))
    <3>1. sites' \in {sites, [sites EXCEPT ![Home[p]] = merged]}
      BY <2>1 DEF PullSites
    <3>2. \A s \in Site : sites[Home[p]][s] # 0 => merged[s] # 0
      BY DEF Merge
    <3>3. sites \in [Computer -> SiteList] BY <1>1 DEF TypeOK
    <3>. HIDE DEF merged
    <3>. QED BY <3>1, <3>2, <3>3
  <2>2. CASE \E p \in Process : PullSites(p)
    BY <2>1, <2>2
  <2>3. CASE UNCHANGED sites
    BY <2>3
  <2>4. CASE UNCHANGED pc
    BY <2>4
  <2>. QED BY <1>1, <2>2, <2>3, <2>4 DEF Next, Step, StartPull, StartPush, Load,
     TakeLock, LockRefused, PullRows, PushSites, PushRows, PushWrite, PushMeta,
     Breaks, SaveSite, DeleteSite, Record, DeleteEntries, Carry, CarrySites, local,
     service
<1>2. TypeOK /\ [Next]_vars => TypeOK' /\ [Stay]_vars
  BY <1>1, StepTypeOK
<1>. QED BY InitTypeOK, <1>2, PTL DEF Spec, LocalSitesKept

-----------------------------------------------------------------------------
(* The folder implements SharedRows.                                       *)

\* Every row in a database, in the folder or on its way into the folder has been
\* recorded, files are carried between copies in use, and a push lacks rows of the
\* folder only where reading or taking over may fail.
AllRecorded ==
  /\ Prepared
  /\ \A c \in Computer : rows[c] \subseteq recorded
  /\ \A k \in Copy : fileRows[k] \subseteq recorded
  /\ \A p \in Process : posts[p] \subseteq recorded
  /\ newer \subseteq {e \in Used \X Used : e[1] # e[2]}
  /\ \A p \in Process : blind[p] => Disturbances \cap {"blind", "fail", "swap"} # {}

\* What a step does to the databases, the files and the rows of a push.
RowsGo ==
  /\ UNCHANGED place
  /\ \/ UNCHANGED <<rows, fileRows>> /\ \A p \in Process : posts'[p] \in {{}, posts[p]}
     \/ \E c \in Computer, r \in Row :
          UNCHANGED <<fileRows, service>> /\ rows' = [rows EXCEPT ![c] = @ \cup {r}]
     \/ \E c \in Computer, gone \in SUBSET Row :
          UNCHANGED <<fileRows, service>> /\ rows' = [rows EXCEPT ![c] = @ \ gone]
     \/ \E c \in Computer :
          /\ rows' \in {rows, [rows EXCEPT ![c] = @ \cup fileRows[place[c]]]}
          /\ UNCHANGED fileRows
          /\ \A p \in Process : posts'[p] \in {{}, posts[p], rows[c], rows'[c]}
     \/ \E p \in Process :
          /\ fileRows' = [fileRows EXCEPT ![At(p)] = posts[p]] /\ pc[p] = "push_write"
          /\ UNCHANGED <<rows, posts>>
     \/ \E c, d \in Computer :
          /\ place[c] # place[d]
          /\ fileRows' = [fileRows EXCEPT ![place[d]] = fileRows[place[c]]]
          /\ UNCHANGED <<rows, posts>>

\* If what the computers know is recorded already, nothing new is.
LEMMA NothingNew ==
  ASSUME Remember, \A c \in Computer : rows'[c] \subseteq recorded
  PROVE  recorded' = recorded
BY DEF Remember

LEMMA PostsAfterFinish ==
  ASSUME TypeOK, NEW q \in Process, Finish(q)
  PROVE  \A p \in Process : posts'[p] \in {{}, posts[p]}
BY DEF Finish, TypeOK

\* A failed reading gives no rows, which is as if it had not been done.
LEMMA TakenOver ==
  ASSUME TypeOK, NEW p \in Process, NEW read \in SUBSET Row,
         ReadAs(read, fileRows[At(p)]), rows' = [rows EXCEPT ![Home[p]] = @ \cup read]
  PROVE  rows' \in {rows, [rows EXCEPT ![Home[p]] = @ \cup fileRows[place[Home[p]]]]}
<1>1. CASE read = fileRows[At(p)] BY <1>1 DEF At
<1>2. CASE read = {}
  <2>1. rows' = rows BY <1>2 DEF TypeOK
  <2>. QED BY <2>1
<1>. QED BY <1>1, <1>2 DEF ReadAs

\* The client carries the file from one copy in use to another.
LEMMA CarriedBetween ==
  ASSUME AllRecorded, NEW k \in Copy, NEW l \in Copy, Carry(k, l)
  PROVE  \E c, d \in Computer : k = place[c] /\ l = place[d] /\ k # l
<1>1. <<k, l>> \in {e \in Used \X Used : e[1] # e[2]} BY DEF Carry, AllRecorded
<1>. QED BY <1>1 DEF Used

LEMMA StepsRows == ASSUME AllRecorded, [Next]_vars PROVE RowsGo
<1>. USE FolderAssumption
<1>0. TypeOK BY DEF AllRecorded, Prepared
<1>1. ASSUME NEW p \in Process, StartPull(p) \/ StartPush(p) \/ Load(p) \/ TakeLock(p)
      PROVE  RowsGo
  BY <1>1 DEF StartPull, StartPush, Load, TakeLock, RowsGo, local, folder
<1>2. ASSUME NEW p \in Process, LockRefused(p) \/ Breaks(p) \/ PushMeta(p)
      PROVE  RowsGo
  <2>1. Finish(p) /\ UNCHANGED <<rows, place, fileRows>>
    BY <1>2 DEF LockRefused, Breaks, PushMeta, local, folder
  <2>. QED BY <1>0, <2>1, PostsAfterFinish DEF RowsGo
<1>3. ASSUME NEW p \in Process, PullSites(p) \/ PushSites(p) PROVE RowsGo
  BY <1>3 DEF PullSites, PushSites, RowsGo, local, folder
<1>4. ASSUME NEW p \in Process, NEW read \in SUBSET Row, PullRows(p, read)
      PROVE  RowsGo
  <2>1. rows' \in {rows, [rows EXCEPT ![Home[p]] = @ \cup fileRows[place[Home[p]]]]}
    BY <1>0, <1>4, TakenOver DEF PullRows
  <2>2. UNCHANGED <<place, fileRows>> /\ Finish(p) BY <1>4 DEF PullRows, folder
  <2>3. \A q \in Process : posts'[q] \in {{}, posts[q]}
    BY <1>0, <2>2, PostsAfterFinish
  <2>. QED BY <2>1, <2>2, <2>3 DEF RowsGo
<1>5. ASSUME NEW p \in Process, NEW read \in SUBSET Row, PushRows(p, read)
      PROVE  RowsGo
  <2>1. rows' \in {rows, [rows EXCEPT ![Home[p]] = @ \cup fileRows[place[Home[p]]]]}
    <3>1. CASE ReadAs(read, fileRows[At(p)]) /\ rows' = [rows EXCEPT ![Home[p]] = @ \cup read]
      BY <1>0, <3>1, TakenOver
    <3>2. CASE /\ read = fileRows[At(p)]
               /\ rows' \in {rows, [rows EXCEPT ![Home[p]] = @ \cup read]}
      BY <3>2 DEF At
    <3>. QED BY <1>5, <3>1, <3>2 DEF PushRows
  <2>2. UNCHANGED <<place, fileRows>> BY <1>5 DEF PushRows, folder
  <2>3. \A q \in Process : posts'[q] \in {posts[q], rows[Home[p]], rows'[Home[p]]}
    BY <1>0, <1>5 DEF PushRows, TypeOK
  <2>. QED BY <2>1, <2>2, <2>3 DEF RowsGo
<1>6. ASSUME NEW p \in Process, PushWrite(p) PROVE RowsGo
  BY <1>6 DEF PushWrite, Goto, RowsGo, local
<1>7. ASSUME NEW c \in Computer, NEW s \in Site, SaveSite(c, s) \/ DeleteSite(c, s)
      PROVE  RowsGo
  BY <1>7 DEF SaveSite, DeleteSite, RowsGo, folder, service
<1>8. ASSUME NEW c \in Computer, NEW r \in Row, Record(c, r)
      PROVE  RowsGo
  BY <1>8 DEF Record, RowsGo, folder
<1>9. ASSUME NEW c \in Computer, NEW r \in Row, DeleteEntries(c, r)
      PROVE  RowsGo
  <2>1. PICK gone \in {{q \in Row : q[1] = r[1]}, Row} : rows' = [rows EXCEPT ![c] = @ \ gone]
    BY <1>9 DEF DeleteEntries
  <2>2. gone \in SUBSET Row BY <2>1
  <2>. QED BY <1>9, <2>1, <2>2 DEF DeleteEntries, RowsGo, folder
<1>10. ASSUME NEW k \in Copy, NEW l \in Copy, Carry(k, l) PROVE RowsGo
  <2>1. PICK c \in Computer, d \in Computer : k = place[c] /\ l = place[d] /\ k # l
    BY <1>10, CarriedBetween
  <2>. QED BY <1>10, <2>1 DEF Carry, RowsGo, local
<1>11. ASSUME NEW k \in Copy, NEW l \in Copy, CarrySites(k, l) PROVE RowsGo
  BY <1>11 DEF CarrySites, RowsGo, local, service
<1>12. CASE UNCHANGED vars
  BY <1>12 DEF vars, RowsGo, local, folder, service
<1>. QED BY <1>1, <1>2, <1>3, <1>4, <1>5, <1>6, <1>7, <1>8, <1>9, <1>10, <1>11, <1>12
         DEF Next, Step

\* Files stay between copies in use.
LEMMA NewerBetween ==
  ASSUME AllRecorded, [Next]_vars
  PROVE  (newer \subseteq {e \in Used \X Used : e[1] # e[2]})'
<1>. DEFINE Between == {e \in Used \X Used : e[1] # e[2]}
<1>1. UNCHANGED place BY StepsRows DEF RowsGo
<1>2. Between' = Between BY <1>1 DEF Used
<1>3. newer \subseteq Between BY DEF AllRecorded
<1>4. ASSUME NEW p \in Process, PushWrite(p) PROVE newer' \subseteq Between
  BY <1>3, <1>4, FolderAssumption DEF PushWrite, Used, At
<1>5. ASSUME NEW k \in Copy, NEW l \in Copy, Carry(k, l) PROVE newer' \subseteq Between
  <2>1. k \in Used /\ l \in Used BY <1>5, CarriedBetween DEF Used
  <2>2. SUFFICES ASSUME NEW e \in newer' PROVE e \in Between
    OBVIOUS
  <2>3. PICK a \in Copy, b \in Copy :
          /\ e = <<a, b>> /\ <<IF a = l THEN k ELSE a, IF b = l THEN k ELSE b>> \in newer
    BY <1>5 DEF Carry
  <2>4. <<IF a = l THEN k ELSE a, IF b = l THEN k ELSE b>> \in Between BY <1>3, <2>3
  <2>5. a \in Used /\ b \in Used /\ a # b BY <2>1, <2>4
  <2>6. <<a, b>> \in Between BY <2>5
  <2>. HIDE DEF Between
  <2>. QED BY <2>3, <2>6
<1>6. ASSUME UNCHANGED newer PROVE newer' \subseteq Between BY <1>3, <1>6
<1>. QED BY <1>2, <1>4, <1>5, <1>6 DEF Next, Step, StartPull, StartPush, Load, TakeLock,
   LockRefused, PullSites, PullRows, PushSites, PushRows, PushMeta, Breaks, SaveSite,
   DeleteSite, Record, DeleteEntries, CarrySites, folder, vars

\* Only a push whose reading or taking over failed, or that the cloud client came
\* before, is blind.
LEMMA BlindAllowed ==
  ASSUME TypeOK, [Next]_vars, NEW Allowed,
         Allowed = (Disturbances \cap {"blind", "fail", "swap"} # {}),
         \A p \in Process : blind[p] => Allowed
  PROVE  \A p \in Process : blind'[p] => Allowed
<1>1. ASSUME NEW p \in Process, Finish(p) PROVE \A q \in Process : blind'[q] => blind[q]
  BY <1>1 DEF Finish, TypeOK
<1>2. ASSUME NEW p \in Process, NEW read \in SUBSET Row, PushRows(p, read)
      PROVE  \A q \in Process : blind'[q] => blind[q] \/ Allowed
  BY <1>2 DEF PushRows, ReadAs, Fault, TypeOK
<1>3. ASSUME NEW k \in Copy, NEW l \in Copy, Carry(k, l)
      PROVE  \A q \in Process : blind'[q] => blind[q] \/ Allowed
  <2>1. CASE Calm({k, l}) BY <1>3, <2>1 DEF Carry, Calm
  <2>2. CASE ~Calm({k, l}) BY <1>3, <2>2 DEF Carry, Fault
  <2>. QED BY <2>1, <2>2
<1>4. CASE UNCHANGED blind BY <1>4
<1>. QED BY <1>1, <1>2, <1>3, <1>4 DEF Next, Step, StartPull, StartPush, Load, TakeLock,
   LockRefused, PullSites, PullRows, PushSites, PushWrite, PushMeta, Breaks, SaveSite,
   DeleteSite, Record, DeleteEntries, CarrySites, service, vars

LEMMA InitAllRecorded == Init /\ recorded = {} => AllRecorded
BY InitPrepared DEF Init, AllRecorded

\* A step of the folder is a step of SharedRows or leaves its variables alone.
LEMMA StepIsRowsStep ==
  ASSUME AllRecorded, [Next]_vars, Remember
  PROVE  /\ AllRecorded'
         /\ Rows!Next \/ UNCHANGED <<place, rows, fileRows, recorded>>
<1>1. /\ TypeOK /\ Prepared' /\ RowsGo /\ UNCHANGED place
      /\ (newer \subseteq {e \in Used \X Used : e[1] # e[2]})'
      /\ \A p \in Process : blind'[p] => Disturbances \cap {"blind", "fail", "swap"} # {}
  BY StepPrepared, StepsRows, NewerBetween, BlindAllowed DEF AllRecorded, Prepared, RowsGo
<1>2. /\ rows \in [Computer -> SUBSET Row] /\ fileRows \in [Copy -> SUBSET Row]
      /\ \A c \in Computer : place[c] \in Copy
  BY <1>1, FolderAssumption DEF TypeOK
<1>3. ASSUME recorded' = recorded,
             \A c \in Computer : rows'[c] \subseteq recorded,
             \A k \in Copy : fileRows'[k] \subseteq recorded,
             \A p \in Process : posts'[p] \subseteq recorded
      PROVE  AllRecorded'
  BY <1>1, <1>3 DEF AllRecorded
<1>4. CASE /\ UNCHANGED <<rows, fileRows>>
           /\ \A p \in Process : posts'[p] \in {{}, posts[p]}
  <2>1. recorded' = recorded BY <1>4, NothingNew DEF AllRecorded
  <2>2. \A p \in Process : posts'[p] \subseteq recorded BY <1>4 DEF AllRecorded
  <2>. QED BY <1>1, <1>3, <1>4, <2>1, <2>2 DEF AllRecorded
<1>5. ASSUME NEW c \in Computer, NEW r \in Row, UNCHANGED <<fileRows, service>>,
             rows' = [rows EXCEPT ![c] = @ \cup {r}]
      PROVE  AllRecorded' /\ Rows!Record(c, r)
  <2>1. recorded' = recorded \cup UNION {rows'[d] : d \in Computer}
    BY <1>5 DEF Remember
  <2>2. /\ rows'[c] = rows[c] \cup {r}
        /\ \A d \in Computer : rows'[d] \subseteq rows[d] \cup {r}
    BY <1>2, <1>5
  <2>3. recorded' = recorded \cup {r} BY <2>1, <2>2 DEF AllRecorded
  <2>4. AllRecorded' BY <1>1, <1>5, <2>2, <2>3 DEF AllRecorded, service
  <2>. QED BY <1>1, <1>5, <2>3, <2>4 DEF Rows!Record
<1>6. ASSUME NEW c \in Computer, NEW gone \in SUBSET Row, UNCHANGED <<fileRows, service>>,
             rows' = [rows EXCEPT ![c] = @ \ gone]
      PROVE  AllRecorded' /\ Rows!Forget(c, gone)
  <2>1. \A d \in Computer : rows'[d] \subseteq recorded
    BY <1>2, <1>6 DEF AllRecorded
  <2>2. recorded' = recorded BY <2>1, NothingNew
  <2>3. AllRecorded' BY <1>3, <1>6, <2>1, <2>2 DEF AllRecorded, service
  <2>. QED BY <1>1, <1>6, <2>2, <2>3 DEF Rows!Forget
<1>7. ASSUME NEW c \in Computer,
             rows' \in {rows, [rows EXCEPT ![c] = @ \cup fileRows[place[c]]]},
             UNCHANGED fileRows,
             \A p \in Process : posts'[p] \in {{}, posts[p], rows[c], rows'[c]}
      PROVE  /\ AllRecorded'
             /\ Rows!TakeOver(c) \/ UNCHANGED <<place, rows, fileRows, recorded>>
  <2>1. \A d \in Computer : rows'[d] \subseteq recorded
    BY <1>2, <1>7 DEF AllRecorded
  <2>2. recorded' = recorded BY <2>1, NothingNew
  <2>3. \A p \in Process : posts'[p] \subseteq recorded
    BY <1>7, <2>1 DEF AllRecorded
  <2>4. AllRecorded' BY <1>3, <1>7, <2>1, <2>2, <2>3 DEF AllRecorded
  <2>. QED BY <1>1, <1>7, <2>2, <2>4 DEF Rows!TakeOver
<1>8. ASSUME NEW p \in Process, fileRows' = [fileRows EXCEPT ![At(p)] = posts[p]],
             pc[p] = "push_write", UNCHANGED <<rows, posts>>
      PROVE  /\ AllRecorded'
             /\ posts[p] \in SUBSET recorded
             /\ Home[p] \in Computer
             /\ Rows!Publish(Home[p], posts[p]) \/ Rows!Replace(Home[p], posts[p])
  <2>1. recorded' = recorded BY <1>8, NothingNew DEF AllRecorded
  <2>2. posts[p] \in SUBSET recorded BY DEF AllRecorded
  <2>3. Home[p] \in Computer /\ At(p) = place[Home[p]] /\ At(p) \in Copy
    BY <1>2, FolderAssumption DEF At
  <2>4. \A k \in Copy : fileRows'[k] \subseteq recorded
    BY <1>2, <1>8, <2>2, <2>3 DEF AllRecorded
  <2>5. AllRecorded' BY <1>3, <1>8, <2>1, <2>4 DEF AllRecorded
  <2>6. ASSUME blind[p] PROVE Rows!Replace(Home[p], posts[p])
    <3>1. Disturbances \cap {"blind", "fail", "swap"} # {} BY <2>6 DEF AllRecorded
    <3>. QED BY <1>1, <1>8, <2>1, <2>3, <3>1 DEF Rows!Replace
  <2>7. ASSUME ~blind[p] PROVE Rows!Publish(Home[p], posts[p])
    <3>1. fileRows[At(p)] \subseteq posts[p] BY <1>8, <2>7 DEF AllRecorded, Prepared
    <3>2. fileRows' = [fileRows EXCEPT ![At(p)] = @ \cup posts[p]] BY <1>2, <1>8, <2>3, <3>1
    <3>. QED BY <1>1, <1>8, <2>1, <2>3, <3>2 DEF Rows!Publish
  <2>. QED BY <2>2, <2>3, <2>5, <2>6, <2>7
<1>9. ASSUME NEW c \in Computer, NEW d \in Computer, place[c] # place[d],
             fileRows' = [fileRows EXCEPT ![place[d]] = fileRows[place[c]]],
             UNCHANGED <<rows, posts>>
      PROVE  AllRecorded' /\ Rows!Exchange(c, d)
  <2>1. recorded' = recorded BY <1>9, NothingNew DEF AllRecorded
  <2>2. \A k \in Copy : fileRows'[k] \subseteq recorded BY <1>2, <1>9 DEF AllRecorded
  <2>3. AllRecorded' BY <1>3, <1>9, <2>1, <2>2 DEF AllRecorded
  <2>. QED BY <1>1, <1>9, <2>1, <2>3 DEF Rows!Exchange
<1>. QED BY <1>1, <1>4, <1>5, <1>6, <1>7, <1>8, <1>9 DEF RowsGo, Rows!Next

LEMMA EachRowsStep ==
  ASSUME AllRecorded, [Next /\ Remember]_<<vars, recorded>>
  PROVE  AllRecorded' /\ [Rows!Next]_<<place, rows, fileRows, recorded>>
<1>1. CASE UNCHANGED <<vars, recorded>>
  BY <1>1, StepPrepared DEF AllRecorded, Used, vars, local, folder, service
<1>. QED BY <1>1, StepIsRowsStep

\* The calls of any number of processes on any number of computers, interrupted
\* anywhere, are together shared sets of rows, one for each copy of the folder:
\* pulls take them over and pushes add to them. One loses rows only to the copy the
\* cloud client puts in its place, or through a push that could not read or take it
\* over, or under which the client replaced it.
THEOREM FolderImplementsSharedRows == RowsSpec => ImplementsSharedRows
<1>1. Init /\ recorded = {} => Rows!Init
  BY DEF Init, Rows!Init
<1>2. AllRecorded /\ [Next /\ Remember]_<<vars, recorded>>
        => AllRecorded' /\ [Rows!Next]_<<place, rows, fileRows, recorded>>
  BY EachRowsStep
<1>. QED BY InitAllRecorded, <1>1, <1>2, PTL DEF RowsSpec, ImplementsSharedRows, Rows!Spec

\* No row turns up in a database or in the folder that no run has recorded.
THEOREM RowsNotInvented == RowsSpec => []Rows!NothingInvented
<1>1. AllRecorded => Rows!NothingInvented
  BY DEF AllRecorded, Rows!NothingInvented
<1>2. AllRecorded /\ [Next /\ Remember]_<<vars, recorded>> => AllRecorded'
  BY EachRowsStep
<1>. QED BY InitAllRecorded, <1>1, <1>2, PTL DEF RowsSpec
=============================================================================
