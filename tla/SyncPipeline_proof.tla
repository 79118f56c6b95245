------------------------- MODULE SyncPipeline_proof -------------------------
(***************************************************************************)
(* Proofs about SyncPipeline, and then about what SyncPromises observes of *)
(* run after run, for every set of sites, articles, devices and device     *)
(* lists, and for all of the outside events together.                      *)
(***************************************************************************)
EXTENDS SyncPromises, TLAPS

\* What every step can rely on.
USE DEF disk, counters, batch, run, vars

LEMMA InitTypeOK ==
  ASSUME Init PROVE TypeOK
BY SyncAssumption DEF Init, TypeOK, NoResult, Statuses

\* The history stays a set of rows whatever is added to it.
LEMMA PeerRowsTyped ==
  ASSUME TypeOK, NEW rows \in SUBSET (Url \X Key), PeerRows(rows)
  PROVE  history' \subseteq Url \X Key /\ received' \in [Device -> SUBSET Url]
<1>1. history' \subseteq Url \X Key
  BY SyncAssumption DEF TypeOK, PeerRows
<1>2. received' \in [Device -> SUBSET Url]
  BY DEF TypeOK, PeerRows
<1>. QED BY <1>1, <1>2

LEMMA ReturnTyped ==
  ASSUME NEW status \in Statuses, NEW success \in BOOLEAN,
         Return(status, success)
  PROVE  /\ result' \in [status : Statuses, success : BOOLEAN]
         /\ pc' = "push"
BY DEF Return

LEMMA ReleaseTyped ==
  ASSUME TypeOK, NEW loaded \in SUBSET Device, Release(loaded),
         UNCHANGED disk, cancel' \in BOOLEAN
  PROVE  TypeOK'
BY DEF TypeOK, Release, EndBatch, NoResult, Statuses

LEMMA StepTypeOK ==
  ASSUME TypeOK, [Next]_vars PROVE TypeOK'
<1>. USE SyncAssumption
<1>1. CASE Acquire BY <1>1 DEF TypeOK, Acquire
<1>2. CASE Pull
  <2>1. PICK rows \in SUBSET (Url \X Key) : PeerRows(rows)
    BY <1>2 DEF Pull, PeerKeys
  <2>. QED BY <1>2, <2>1, PeerRowsTyped DEF TypeOK, Pull
<1>3. CASE Begin
  <2>1. PICK enabled \in SUBSET Site : BeginWith(enabled)
    BY <1>3 DEF Begin
  <2>2. CASE enabled = {} \/ devices = {}
    <3>1. \E status \in Statuses : Return(status, FALSE)
      BY <2>1, <2>2 DEF BeginWith, Statuses
    <3>. QED BY <1>3, <2>1, <2>2, <3>1, ReturnTyped DEF TypeOK, Begin, BeginWith
  <2>3. CASE ~(enabled = {} \/ devices = {})
    <3>1. \A first \in Device : Remapped(first) \subseteq Url \X Key
      BY DEF TypeOK, Remapped
    <3>2. history' \subseteq Url \X Key
      BY <2>1, <2>3, <3>1 DEF BeginWith, TypeOK
    <3>. QED BY <1>3, <2>1, <2>3, <3>2 DEF TypeOK, Begin, BeginWith
  <2>. QED BY <2>2, <2>3
<1>4. CASE Cancelled BY <1>4 DEF TypeOK, Cancelled, Return, Statuses
<1>5. ASSUME NEW s \in Site, Collect(s) PROVE TypeOK'
  <2>1. CASE SiteFails(s) BY <2>1 DEF TypeOK, SiteFails
  <2>2. CASE SiteEmpty(s) BY <2>2 DEF TypeOK, SiteEmpty
  <2>3. ASSUME NEW articles \in SUBSET UrlsOf[s] \ {{}}, SiteRead(s, articles)
        PROVE  TypeOK'
    <3>. DEFINE new == {u \in articles : NeedsSync(u, targets)}
    <3>1. new \subseteq Url
      BY <1>5
    <3>2. CASE new = {}
      BY <2>3, <3>2 DEF TypeOK, SiteRead
    <3>3. CASE new # {} /\ MergeMode = "daily_digest"
      BY <2>3, <3>1, <3>3, <1>5 DEF TypeOK, SiteRead
    <3>4. CASE new # {} /\ MergeMode # "daily_digest"
      BY <2>3, <3>1, <3>4, <1>5 DEF TypeOK, SiteRead
    <3>. QED BY <3>2, <3>3, <3>4
  <2>. QED BY <1>5, <2>1, <2>2, <2>3 DEF Collect
<1>6. CASE DbError BY <1>6 DEF TypeOK, DbError, Return, Statuses
<1>7. CASE StartDigest BY <1>7 DEF TypeOK, StartDigest
<1>8. CASE Resolve
  <2>1. Pending(fresh) \subseteq Device
    BY DEF TypeOK, Pending
  <2>. QED BY <1>8, <2>1 DEF TypeOK, Resolve, EndBatch
<1>9. CASE UploadSome BY <1>9 DEF TypeOK, UploadSome, Upload
<1>10. CASE BatchRaises BY <1>10 DEF TypeOK, BatchRaises, EndBatch
<1>11. CASE Mark
  <2>1. Marks \subseteq Url \X Key
    BY DEF TypeOK, Marks
  <2>. QED BY <1>11, <2>1 DEF TypeOK, Mark, EndBatch
<1>12. CASE Verdict
  <2>1. \E status \in Statuses, success \in BOOLEAN : Return(status, success)
    <3>. DEFINE onlyDigest == digested = "ok" /\ errors = {}
                allSites == done = work /\ errors = {}
    <3>2. \/ Return("completed", onlyDigest) \/ Return("completed", allSites)
          \/ Return("errors", FALSE) \/ Return("empty_fetch", FALSE)
          \/ Return("no_new", TRUE)
      BY <1>12 DEF Verdict
    <3>3. onlyDigest \in BOOLEAN /\ allSites \in BOOLEAN
      OBVIOUS
    <3>. HIDE DEF onlyDigest, allSites
    <3>. QED BY <3>2, <3>3 DEF Statuses
  <2>. QED BY <1>12, <2>1, ReturnTyped DEF TypeOK, Verdict
<1>13. CASE Push BY <1>13, ReleaseTyped DEF TypeOK, Push
<1>14. CASE Abort BY <1>14, ReleaseTyped DEF TypeOK, Abort
<1>15. CASE RequestCancel BY <1>15 DEF TypeOK, RequestCancel
<1>16. CASE EditDevices BY <1>16 DEF TypeOK, EditDevices
<1>17. CASE Reload BY <1>17 DEF TypeOK, Reload
<1>18. CASE Import
  <2>1. PICK r \in Url \X Key : PeerRows({r})
    BY <1>18 DEF Import, PeerKeys
  <2>. QED BY <1>18, <2>1, PeerRowsTyped DEF TypeOK, Import
<1>19. ASSUME NEW u \in Url, DeleteEntry(u) PROVE TypeOK'
  BY <1>19 DEF TypeOK, DeleteEntry
<1>20. CASE Crash BY <1>20, ReleaseTyped DEF TypeOK, Crash
<1>21. CASE UNCHANGED vars BY <1>21 DEF TypeOK
<1>. QED
  BY <1>1, <1>2, <1>3, <1>4, <1>5, <1>6, <1>7, <1>8, <1>9, <1>10, <1>11, <1>12,
     <1>13, <1>14, <1>15, <1>16, <1>17, <1>18, <1>19, <1>20, <1>21
  DEF Next, RunStep, Outside

\* Every step of a run and of what surrounds it keeps the variables in their
\* types.
THEOREM TypeCorrect == Spec => []TypeOK
BY InitTypeOK, StepTypeOK, PTL DEF Spec

-----------------------------------------------------------------------------
(* The history tells the truth.                                            *)

\* Rows with '*' exist only where every device list holds the device behind
\* x3_ip, whose deliveries they record: the remap then names that device.
StarHasHome ==
  \/ StarUrls = {} /\ "star" \notin Disturbances
  \/ \A ds \in Configs : ds = {} \/ Primary \in ds

\* An article that may have a '*' row, from before or from another computer.
MayBeStar(u) == u \in StarUrls \/ "star" \in Disturbances

\* What HonestHistory takes to be inductive: the '*' rows, which the remap turns
\* into rows of the primary device, are true of it, and what waits to be marked
\* has arrived.
Honest ==
  /\ TypeOK
  /\ devices \in Configs
  /\ HonestHistory
  /\ \A u \in Url : <<u, Star>> \in history =>
       MayBeStar(u) /\ u \in received[Primary]
  /\ pc = "mark" => \A d \in ok : fresh \subseteq received[d]

\* The key of one device is nobody else's, and not '*'.
LEMMA KeysApart ==
  \A d, e \in Device : /\ KeyOf[d] \in AliasOf[e] => d = e
                       /\ KeyOf[d] # Star
BY SyncAssumption, AliasAssumption

LEMMA InitHonest ==
  ASSUME Init PROVE Honest
<1>1. HonestHistory
  BY SyncAssumption, AliasAssumption DEF Init, HonestHistory, SyncedFor
<1>. QED BY <1>1, InitTypeOK, SyncAssumption DEF Init, Honest, MayBeStar

\* A step that only forgets rows, or adds rows that are true of the devices behind
\* them, keeps the history honest.
LEMMA RowsAdded ==
  ASSUME Honest, TypeOK',
         NEW rows \in SUBSET (Url \X Key),
         history' \subseteq history \cup rows,
         \A d \in Device : received[d] \subseteq received'[d],
         \A u \in Url, k \in Key : <<u, k>> \in rows =>
            /\ \A d \in Behind(k) : u \in received'[d]
            /\ k = Star => "star" \in Disturbances
  PROVE  /\ HonestHistory'
         /\ \A u \in Url : <<u, Star>> \in history' =>
              MayBeStar(u) /\ u \in received'[Primary]
<1>. USE SyncAssumption, AliasAssumption DEF Honest
<1>1. ASSUME NEW u \in Url, NEW d \in Device, SyncedFor(u, d)'
      PROVE  u \in received'[d]
  <2>1. PICK k \in AliasOf[d] : <<u, k>> \in history'
    BY <1>1 DEF SyncedFor
  <2>2. CASE <<u, k>> \in history
    BY <2>1, <2>2 DEF HonestHistory, SyncedFor
  <2>3. CASE <<u, k>> \notin history
    <3>1. <<u, k>> \in rows /\ k \in Key BY <2>1, <2>3
    <3>2. d \in Behind(k) BY <2>1 DEF Behind
    <3>. QED BY <3>1, <3>2
  <2>. QED BY <2>2, <2>3
<1>2. ASSUME NEW u \in Url, <<u, Star>> \in history'
      PROVE  MayBeStar(u) /\ u \in received'[Primary]
  <2>1. Star \in Key /\ Primary \in Behind(Star) BY DEF Behind
  <2>. QED BY <1>2, <2>1 DEF MayBeStar
<1>. QED BY <1>1, <1>2 DEF HonestHistory

LEMMA NothingAdded ==
  ASSUME Honest, TypeOK', history' \subseteq history, UNCHANGED received
  PROVE  /\ HonestHistory'
         /\ \A u \in Url : <<u, Star>> \in history' =>
              MayBeStar(u) /\ u \in received'[Primary]
BY SyncAssumption DEF Honest, HonestHistory, SyncedFor

\* The remap gives the '*' rows to the device they are about.
LEMMA RemapHonest ==
  ASSUME Honest, TypeOK', StarHasHome, NEW first \in devices,
         Primary \in devices => first = Primary,
         history' = Remapped(first), UNCHANGED received
  PROVE  /\ HonestHistory'
         /\ \A u \in Url : <<u, Star>> \notin history'
<1>. USE SyncAssumption, AliasAssumption DEF Honest
<1>1. ASSUME NEW u \in Url, NEW d \in Device, SyncedFor(u, d)'
      PROVE  u \in received'[d]
  <2>1. PICK k \in AliasOf[d] : <<u, k>> \in history'
    BY <1>1 DEF SyncedFor
  <2>2. CASE <<u, k>> \in history
    BY <2>1, <2>2 DEF HonestHistory, SyncedFor
  <2>3. CASE <<u, k>> \notin history
    <3>1. <<u, Star>> \in history /\ k = KeyOf[first]
      BY <2>1, <2>3 DEF Remapped, TypeOK
    <3>2. first = Primary
      BY <3>1 DEF StarHasHome, MayBeStar
    <3>3. d = Primary
      BY <2>1, <3>1, <3>2, KeysApart
    <3>. QED BY <3>1, <3>3
  <2>. QED BY <2>2, <2>3
<1>2. \A u \in Url : <<u, Star>> \notin history'
  BY KeysApart DEF Remapped, TypeOK
<1>. QED BY <1>1, <1>2 DEF HonestHistory

LEMMA StepHonest ==
  ASSUME StarHasHome, Honest, [Next]_vars PROVE Honest'
<1>. USE SyncAssumption, AliasAssumption
<1>1. TypeOK'
  BY StepTypeOK DEF Honest
<1>2. devices' \in Configs
  BY DEF Honest, Next, RunStep, Outside, Acquire, Pull, Begin, Cancelled, Collect,
     SiteFails, SiteEmpty, SiteRead, DbError, StartDigest, Resolve, UploadSome,
     Upload, BatchRaises, Mark, Verdict, Push, Abort, RequestCancel, EditDevices,
     Reload, Import, DeleteEntry, Crash
<1>3. CASE Begin
  <2>1. pc' # "mark" /\ UNCHANGED received
    BY <1>3 DEF Begin, BeginWith, Return
  <2>2. CASE UNCHANGED history
    BY <1>1, <1>2, <2>1, <2>2, NothingAdded DEF Honest
  <2>3. ASSUME NEW first \in devices, Primary \in devices => first = Primary,
               history' = Remapped(first)
        PROVE  Honest'
    BY <1>1, <1>2, <2>1, <2>3, RemapHonest DEF Honest
  <2>. QED BY <1>3, <2>2, <2>3 DEF Begin, BeginWith
<1>4. CASE Pull \/ Import
  <2>1. PICK rows \in SUBSET (Url \X PeerKeys) : PeerRows(rows)
    <3>1. CASE Pull BY <3>1 DEF Pull
    <3>2. CASE Import
      <4>1. PICK r \in Url \X PeerKeys : PeerRows({r})
        BY <3>2 DEF Import
      <4>. QED BY <4>1
    <3>. QED BY <1>4, <3>1, <3>2
  <2>2. rows \in SUBSET (Url \X Key) BY DEF PeerKeys
  <2>3. \A d \in Device : received[d] \subseteq received'[d]
    BY <2>1 DEF PeerRows, Honest, TypeOK
  <2>4. \A u \in Url, k \in Key : <<u, k>> \in rows =>
           /\ \A d \in Behind(k) : u \in received'[d]
           /\ k = Star => "star" \in Disturbances
    <3>1. \A u \in Url, k \in Key : <<u, k>> \in rows =>
             \A d \in Behind(k) \cap Device : u \in received'[d]
      BY <2>1 DEF PeerRows
    <3>2. \A k \in Key : Behind(k) \subseteq Device BY DEF Behind
    <3>3. \A u \in Url, k \in Key :
             <<u, k>> \in rows /\ k = Star => "star" \in Disturbances
      BY DEF PeerKeys
    <3>. QED BY <3>1, <3>2, <3>3
  <2>5. history' \subseteq history \cup rows
    BY <2>1 DEF PeerRows
  <2>6. pc' = "mark" => pc = "mark" /\ UNCHANGED <<fresh, ok>>
    BY <1>4 DEF Pull, Import
  <2>7. pc' = "mark" => \A d \in ok' : fresh' \subseteq received'[d]
    BY <2>3, <2>6 DEF Honest, TypeOK
  <2>. QED BY <1>1, <1>2, <2>2, <2>3, <2>4, <2>5, <2>7, RowsAdded DEF Honest
<1>5. CASE UploadSome
  <2>1. PICK good \in SUBSET (pending \cap uploader),
             silent \in SUBSET (pending \cap uploader) : Upload(good, silent)
    BY <1>5 DEF UploadSome
  <2>2. \A d \in Device : received[d] \subseteq received'[d]
    BY <2>1 DEF Upload, Honest, TypeOK
  <2>3. \A d \in ok' : fresh' \subseteq received'[d]
    BY <2>1 DEF Upload, Honest, TypeOK
  <2>4. history' \subseteq history \cup {}
    BY <2>1 DEF Upload
  <2>. QED BY <1>1, <1>2, <2>2, <2>3, <2>4, RowsAdded DEF Honest
<1>6. CASE Mark
  <2>1. Marks \subseteq Url \X Key
    BY DEF Honest, TypeOK, Marks
  <2>2. ASSUME NEW u \in Url, NEW k \in Key, <<u, k>> \in Marks
        PROVE  k # Star /\ \A d \in Behind(k) : u \in received'[d]
    <3>1. PICK d \in ok : u \in fresh /\ k = KeyOf[d] BY <2>2 DEF Marks
    <3>2. d \in Device BY DEF Honest, TypeOK
    <3>3. k # Star /\ \A e \in Behind(k) : e = d
      BY <3>1, <3>2, KeysApart DEF Behind
    <3>4. u \in received'[d] BY <1>6, <3>1 DEF Mark, Honest
    <3>. QED BY <3>3, <3>4
  <2>3. history' \subseteq history \cup Marks /\ UNCHANGED received /\ pc' # "mark"
    BY <1>6 DEF Mark
  <2>. QED BY <1>1, <1>2, <2>1, <2>2, <2>3, RowsAdded DEF Honest
<1>7. ASSUME NEW u \in Url, DeleteEntry(u) PROVE Honest'
  <2>1. history' \subseteq history /\ UNCHANGED <<received, pc, fresh, ok>>
    BY <1>7 DEF DeleteEntry
  <2>. QED BY <1>1, <1>2, <2>1, NothingAdded DEF Honest
<1>8. ASSUME UNCHANGED <<history, received>>,
             pc' = "mark" => pc = "mark" /\ UNCHANGED <<fresh, ok>>
      PROVE  Honest'
  BY <1>1, <1>2, <1>8, NothingAdded DEF Honest
<1>9. CASE \/ Acquire \/ Cancelled \/ DbError \/ StartDigest \/ Resolve
           \/ BatchRaises \/ Verdict \/ Push \/ Abort
  BY <1>8, <1>9 DEF Acquire, Cancelled, DbError, StartDigest, Resolve,
     BatchRaises, Verdict, Push, Abort, Return, Release, EndBatch
<1>10. ASSUME NEW s \in Site, Collect(s) PROVE Honest'
  BY <1>8, <1>10 DEF Collect, SiteFails, SiteEmpty, SiteRead
<1>11. CASE RequestCancel \/ EditDevices \/ Reload \/ Crash \/ UNCHANGED vars
  BY <1>8, <1>11 DEF RequestCancel, EditDevices, Reload, Crash, Release
<1>. QED
  BY <1>3, <1>4, <1>5, <1>6, <1>7, <1>9, <1>10, <1>11 DEF Next, RunStep, Outside

\* A device is never taken to have an article that did not reach it: rows come
\* from acknowledged uploads, from the deliveries of other computers, and from
\* '*' rows of the device they were about.
THEOREM HistoryIsHonest ==
  ASSUME StarHasHome PROVE Spec => []HonestHistory
<1>1. Init => Honest BY InitHonest
<1>2. Honest /\ [Next]_vars => Honest' BY StepHonest
<1>3. Honest => HonestHistory BY DEF Honest
<1>. QED BY <1>1, <1>2, <1>3, PTL DEF Spec

-----------------------------------------------------------------------------
(* The history is a log of deliveries.                                     *)

LEMMA NotedArrived ==
  ASSUME Honest PROVE IsNoted \subseteq HasArrived /\ IsNoted \in SUBSET Log!Pairs
BY DEF Honest, HonestHistory, IsNoted, HasArrived, Log!Pairs

\* What is noted under other keys than '*' outlasts the remap.
LEMMA RemapKeeps ==
  ASSUME TypeOK, NEW first, history' = Remapped(first) PROVE IsNoted \subseteq IsNoted'
<1>1. ASSUME NEW u \in Url, NEW d \in Device, SyncedFor(u, d) PROVE SyncedFor(u, d)'
  <2>1. PICK k \in AliasOf[d] : <<u, k>> \in history
    BY <1>1 DEF SyncedFor
  <2>2. k # Star BY <2>1, SyncAssumption, AliasAssumption
  <2>3. <<u, k>> \in Remapped(first) BY <2>1, <2>2 DEF Remapped
  <2>. QED BY <2>1, <2>3 DEF SyncedFor
<1>. QED BY <1>1 DEF IsNoted

\* A row taken over from another computer is noted of the device it names, and a
\* '*' row, under which nobody is looked up, of none.
LEMMA PeersLearn ==
  ASSUME TypeOK, NEW u \in Url, NEW k \in Key, PeerRows({<<u, k>>})
  PROVE  Log!Next
<1>. USE SyncAssumption, AliasAssumption DEF PeerRows, TypeOK
<1>. DEFINE ps == {u} \X Behind(k)
<1>1. ps \in SUBSET Log!Pairs BY DEF Behind, Log!Pairs
<1>2. HasArrived' = HasArrived \cup ps
  <2>1. ASSUME NEW v \in Url, NEW d \in Device
        PROVE  v \in received'[d] <=> v \in received[d] \/ (v = u /\ d \in Behind(k))
    OBVIOUS
  <2>2. ASSUME NEW p \in Url \X Device
        PROVE  p \in HasArrived' <=> p \in HasArrived \/ p \in ps
    <3>1. PICK v \in Url, d \in Device : p = <<v, d>> OBVIOUS
    <3>. QED BY <2>1, <3>1 DEF HasArrived
  <2>. QED BY <1>1, <2>2 DEF HasArrived, Log!Pairs
<1>3. ASSUME NEW v \in Url, NEW d \in Device
      PROVE  SyncedFor(v, d)' <=> SyncedFor(v, d) \/ (v = u /\ k \in AliasOf[d])
  BY DEF SyncedFor
<1>4. CASE k = Star
  <2>1. UNCHANGED IsNoted BY <1>3, <1>4 DEF IsNoted
  <2>2. Log!Arrive(ps) BY <1>2, <2>1 DEF Log!Arrive
  <2>. QED BY <1>1, <2>2 DEF Log!Next
<1>5. CASE k # Star
  <2>1. \A d \in Device : k \in AliasOf[d] <=> d \in Behind(k) BY <1>5 DEF Behind
  <2>2. ASSUME NEW p \in Url \X Device PROVE p \in IsNoted' <=> p \in IsNoted \/ p \in ps
    <3>1. PICK v \in Url, d \in Device : p = <<v, d>> OBVIOUS
    <3>. QED BY <1>3, <2>1, <3>1 DEF IsNoted
  <2>3. IsNoted' = IsNoted \cup ps BY <1>1, <2>2 DEF IsNoted, Log!Pairs
  <2>. QED BY <1>1, <1>2, <2>3 DEF Log!Next, Log!Learn
<1>. QED BY <1>4, <1>5

LEMMA StepIsLogStep ==
  ASSUME Honest, Honest', [Next]_vars
  PROVE  Log!Next \/ UNCHANGED <<HasArrived, IsNoted>>
<1>. USE DEF Honest
<1>1. CASE UNCHANGED <<history, received>>
  BY <1>1 DEF HasArrived, IsNoted, SyncedFor
<1>2. ASSUME UNCHANGED received, IsNoted \subseteq IsNoted' PROVE Log!Next
  <2>1. HasArrived' = HasArrived BY <1>2 DEF HasArrived
  <2>2. IsNoted' \subseteq HasArrived /\ IsNoted' \in SUBSET Log!Pairs
    BY <2>1, NotedArrived DEF Honest, HonestHistory, IsNoted, HasArrived, Log!Pairs
  <2>3. IsNoted' = IsNoted \cup IsNoted' BY <1>2
  <2>. QED BY <2>1, <2>2, <2>3 DEF Log!Next, Log!Note
<1>3. ASSUME NEW r \in Url \X PeerKeys, PeerRows({r}) PROVE Log!Next
  <2>1. PICK u \in Url, k \in Key : r = <<u, k>> BY DEF PeerKeys
  <2>. QED BY <1>3, <2>1, PeersLearn
<1>4. CASE Begin
  <2>1. UNCHANGED received BY <1>4 DEF Begin
  <2>2. UNCHANGED history \/ \E first \in devices : history' = Remapped(first)
    BY <1>4 DEF Begin, BeginWith
  <2>. QED BY <1>1, <1>2, <2>1, <2>2, RemapKeeps
<1>5. CASE Mark
  <2>1. IsNoted \subseteq IsNoted' /\ UNCHANGED received
    BY <1>5 DEF Mark, IsNoted, SyncedFor
  <2>. QED BY <1>2, <2>1
<1>6. CASE Pull
  <2>1. PeerRows({}) \/ \E r \in Url \X PeerKeys : PeerRows({r})
    BY <1>6 DEF Pull
  <2>2. PeerRows({}) => UNCHANGED <<history, received>>
    BY DEF PeerRows, TypeOK
  <2>. QED BY <1>1, <1>3, <2>1, <2>2
<1>7. CASE Import
  <2>1. PICK r \in Url \X PeerKeys : PeerRows({r}) BY <1>7 DEF Import
  <2>. QED BY <1>3, <2>1
<1>8. CASE UploadSome
  <2>1. HasArrived \subseteq HasArrived'
    BY <1>8 DEF UploadSome, Upload, HasArrived, TypeOK
  <2>2. HasArrived' = HasArrived \cup HasArrived' /\ HasArrived' \in SUBSET Log!Pairs
    BY <2>1 DEF HasArrived, Log!Pairs
  <2>3. UNCHANGED IsNoted BY <1>8 DEF UploadSome, Upload, IsNoted, SyncedFor
  <2>. QED BY <2>2, <2>3 DEF Log!Next, Log!Arrive
<1>9. ASSUME NEW u \in Url, DeleteEntry(u) PROVE Log!Next
  <2>1. "delete" \in Disturbances /\ UNCHANGED received /\ history' \subseteq history
    BY <1>9 DEF DeleteEntry
  <2>2. UNCHANGED HasArrived BY <2>1 DEF HasArrived
  <2>3. IsNoted' = IsNoted \ (IsNoted \ IsNoted')
    BY <2>1 DEF IsNoted, SyncedFor
  <2>4. IsNoted \ IsNoted' \in SUBSET Log!Pairs BY NotedArrived
  <2>. QED BY <2>1, <2>2, <2>3, <2>4 DEF Log!Next, Log!Forget
<1>10. CASE ~(Begin \/ Mark \/ Pull \/ Import \/ UploadSome
              \/ \E u \in Url : DeleteEntry(u))
  <2>1. UNCHANGED <<history, received>>
    BY <1>10 DEF Next, RunStep, Outside, Acquire, Cancelled, Collect, SiteFails, SiteEmpty,
       SiteRead, DbError, StartDigest, Resolve, BatchRaises, Verdict, Push, Abort,
       RequestCancel, EditDevices, Reload, Crash
  <2>. QED BY <1>1, <2>1
<1>. QED BY <1>4, <1>5, <1>6, <1>7, <1>8, <1>9, <1>10

\* A run, a crash, an import or an edit does to the history only what DeliveryLog
\* allows: what is noted has arrived before, and neither the remap of the '*' rows
\* nor an import takes a note away.
THEOREM SyncImplementsLog ==
  ASSUME StarHasHome PROVE Spec => ImplementsDeliveryLog
<1>1. Init => Honest BY InitHonest
<1>2. Init => Log!Init
  <2>1. HasArrived \subseteq Log!Pairs BY DEF HasArrived, Log!Pairs
  <2>2. ASSUME Init, NEW u \in Url, NEW d \in Device PROVE ~SyncedFor(u, d)
    <3>1. ASSUME NEW k \in AliasOf[d], <<u, k>> \in history PROVE FALSE
      <4>1. k = Star BY <2>2, <3>1 DEF Init
      <4>. QED BY <4>1, AliasAssumption
    <3>. QED BY <3>1 DEF SyncedFor
  <2>3. Init => IsNoted = {} BY <2>2 DEF IsNoted
  <2>. QED BY <2>1, <2>3 DEF Log!Init
<1>3. Honest /\ [Next]_vars => Honest' BY StepHonest
<1>4. Honest /\ Honest' /\ [Next]_vars => [Log!Next]_<<HasArrived, IsNoted>>
  BY StepIsLogStep
<1>. QED BY <1>1, <1>2, <1>3, <1>4, PTL DEF Spec, ImplementsDeliveryLog, Log!Spec

-----------------------------------------------------------------------------
(* Success means delivered.                                                *)

\* In digest mode the articles of a site wait under its name.
NamesApart ==
  MergeMode = "daily_digest" =>
    \A s, r \in Site : NameOf[s] = NameOf[r] => s = r

Sent(us) == \A u \in us : \A d \in targets : Counted(u, d)

Waiting == UNION {digest[n] : n \in Name}

NothingYet ==
  /\ \A s \in Site : news[s] = {}
  /\ \A n \in Name : digest[n] = {}
  /\ done = {} /\ digested = "no"

\* Where the batch at hand comes from.
Source ==
  IF MergeMode = "per_site"
  THEN site \in Site \ todo /\ fresh = news[site]
  ELSE site = None /\ fresh = Waiting /\ digested = "tried"

\* A site that counts as done, and a digest that counts as sent, has reached the
\* targets; what is new is accounted for by one or the other.
SitesSent ==
  /\ digested = "no"
  /\ \A s \in done : s \notin todo /\ Sent(news[s])
  /\ \A s \in Site : news[s] # {} => s \in work

DigestSent ==
  /\ digested # "no" => todo = {}
  /\ digested = "ok" => Sent(Waiting)
  /\ \A s \in Site : news[s] \subseteq digest[NameOf[s]]

Books == IF MergeMode = "per_site" THEN SitesSent ELSE DigestSent

Accounted ==
  /\ Honest
  /\ pc \in {"idle", "pull", "begin"} => NothingYet
  /\ pc \in {"idle", "pull", "begin", "site"} => site = None
  /\ pc # "push" => ~result.success
  /\ pc \in {"resolve", "upload", "mark"} => Source
  /\ Books
  /\ pc \in {"upload", "mark"} =>
       \A u \in fresh : \A d \in targets : d \in pending \/ Counted(u, d)
  /\ SuccessMeansDelivered

LEMMA InitAccounted ==
  ASSUME Init PROVE Accounted
<1>1. Honest BY InitHonest
<1>2. NothingYet BY DEF Init, NothingYet
<1>3. ~result.success BY DEF Init, NoResult
<1>4. SitesSent /\ DigestSent
  BY SyncAssumption DEF Init, SitesSent, DigestSent
<1>. QED BY <1>1, <1>2, <1>3, <1>4
    DEF Accounted, Books, Init, SuccessMeansDelivered

\* What some row says was sent has reached a device.
LEMMA SyncedArrived ==
  ASSUME Honest, NEW u \in Url, Synced(u)
  PROVE  \E e \in Device : u \in received[e]
<1>1. PICK k \in Key : <<u, k>> \in history
  BY DEF Synced
<1>2. CASE k = Star
  BY <1>1, <1>2, SyncAssumption DEF Honest
<1>3. CASE k # Star
  BY <1>1, <1>3, AliasAssumption DEF Honest, HonestHistory, SyncedFor
<1>. QED BY <1>2, <1>3

\* A target that is not pending needs nothing of the batch.
LEMMA OthersServed ==
  ASSUME Honest, NEW u \in fresh, NEW d \in targets, d \notin Pending(fresh)
  PROVE  Counted(u, d)
<1>1. u \in Url /\ d \in Device
  BY DEF Honest, TypeOK
<1>2. CASE Synced(u) /\ (HistoryMode = "global_url" \/ Single(targets))
  BY <1>1, <1>2, SyncedArrived DEF Counted
<1>3. CASE ~(Synced(u) /\ (HistoryMode = "global_url" \/ Single(targets)))
  <2>1. SyncedFor(u, d)
    BY <1>3 DEF Pending
  <2>. QED BY <1>1, <2>1 DEF Counted, Honest, HonestHistory
<1>. QED BY <1>2, <1>3

\* What has been delivered stays delivered.
LEMMA ReceivedGrows ==
  ASSUME TypeOK, [Next]_vars
  PROVE  \A d \in Device : received[d] \subseteq received'[d]
<1>1. ASSUME NEW rows, PeerRows(rows)
      PROVE  \A d \in Device : received[d] \subseteq received'[d]
  BY <1>1 DEF PeerRows
<1>2. CASE Pull \/ Import
  BY <1>1, <1>2 DEF Pull, Import
<1>3. CASE UploadSome
  BY <1>3 DEF UploadSome, Upload
<1>4. CASE ~(Pull \/ Import \/ UploadSome)
  <2>1. UNCHANGED received
    BY <1>4 DEF Next, RunStep, Outside, Acquire, Begin, Cancelled, Collect,
       SiteFails, SiteEmpty, SiteRead, DbError, StartDigest, Resolve,
       BatchRaises, Mark, Verdict, Push, Abort, RequestCancel, EditDevices,
       Reload, DeleteEntry, Crash
  <2>. QED BY <2>1
<1>. QED BY <1>2, <1>3, <1>4

LEMMA CountedStays ==
  ASSUME TypeOK, [Next]_vars, UNCHANGED targets, NEW u, NEW d \in targets,
         Counted(u, d)
  PROVE  Counted(u, d)'
<1>1. d \in Device
  BY DEF TypeOK
<1>. QED BY <1>1, ReceivedGrows DEF Counted, Single

LEMMA SentStays ==
  ASSUME TypeOK, [Next]_vars, UNCHANGED targets, NEW us, Sent(us)
  PROVE  Sent(us)'
BY CountedStays DEF Sent

\* Steps that change nothing of what the verdict is drawn from.
LEMMA BooksStay ==
  ASSUME TypeOK, [Next]_vars, Books,
         UNCHANGED <<targets, news, digest, done, digested>>,
         todo' \subseteq todo, work \subseteq work'
  PROVE  Books'
<1>1. ASSUME SitesSent PROVE SitesSent'
  BY <1>1, CountedStays DEF SitesSent, Sent
<1>2. ASSUME DigestSent PROVE DigestSent'
  BY <1>2, CountedStays DEF DigestSent, Sent, Waiting
<1>. QED BY <1>1, <1>2 DEF Books

\* Steps that do not touch the batch either.
LEMMA BatchStays ==
  ASSUME Accounted, [Next]_vars, Honest',
         UNCHANGED <<pc, site, fresh, pending, targets, news, digest, done,
                     digested, result, todo, work>>
  PROVE  Accounted'
<1>1. TypeOK /\ Books
  BY DEF Accounted, Honest
<1>2. Books'
  BY <1>1, BooksStay
<1>3. NothingYet => NothingYet'
  BY DEF NothingYet
<1>4. Source => Source'
  BY DEF Source, Waiting
<1>5. pc \in {"upload", "mark"} =>
        (\A u \in fresh : \A d \in targets : d \in pending \/ Counted(u, d))'
  BY <1>1, CountedStays DEF Accounted
<1>6. SuccessMeansDelivered'
  BY <1>1, CountedStays DEF Accounted, SuccessMeansDelivered
<1>. QED BY <1>2, <1>3, <1>4, <1>5, <1>6 DEF Accounted

\* Steps that return False.
LEMMA Refused ==
  ASSUME Accounted, [Next]_vars, Honest', NEW status, Return(status, FALSE),
         UNCHANGED <<targets, news, digest, done, digested, todo, work>>
  PROVE  Accounted'
<1>1. TypeOK /\ Books
  BY DEF Accounted, Honest
<1>2. Books'
  BY <1>1, BooksStay
<1>3. pc' = "push" /\ ~result'.success
  BY DEF Return
<1>. QED BY <1>2, <1>3 DEF Accounted, SuccessMeansDelivered

\* With the locks the books are closed.
LEMMA ReleaseAccounted ==
  ASSUME Honest', NEW loaded, Release(loaded)
  PROVE  Accounted'
<1>1. pc' = "idle" /\ ~result'.success /\ site' = None
  BY DEF Release, NoResult, EndBatch
<1>2. NothingYet'
  BY DEF Release, NothingYet
<1>3. SitesSent' /\ DigestSent'
  BY SyncAssumption DEF Release, SitesSent, DigestSent
<1>. QED BY <1>1, <1>2, <1>3 DEF Accounted, Books, SuccessMeansDelivered

LEMMA BeginAccounted ==
  ASSUME Accounted, [Next]_vars, Honest', Begin
  PROVE  Accounted'
<1>1. PICK enabled \in SUBSET Site : BeginWith(enabled)
  BY DEF Begin
<1>2. NothingYet /\ UNCHANGED <<news, digest, done, digested, work>>
  BY DEF Accounted, Begin
<1>3. SitesSent' /\ DigestSent'
  BY <1>2, SyncAssumption DEF NothingYet, SitesSent, DigestSent
<1>4. CASE enabled = {} \/ devices = {}
  BY <1>1, <1>3, <1>4 DEF BeginWith, Return, Accounted, Books,
     SuccessMeansDelivered
<1>5. CASE ~(enabled = {} \/ devices = {})
  <2>1. pc' = "site" /\ UNCHANGED result
    BY <1>1, <1>5 DEF BeginWith
  <2>2. ~result.success /\ site' = None
    BY DEF Accounted, Begin
  <2>. QED BY <1>3, <2>1, <2>2 DEF Accounted, Books, SuccessMeansDelivered
<1>. QED BY <1>4, <1>5

LEMMA ReadAccounted ==
  ASSUME Accounted, [Next]_vars, Honest', NamesApart,
         NEW s \in Site, Collect(s)
  PROVE  Accounted'
<1>1. TypeOK /\ Books /\ ~result.success /\ pc = "site" /\ s \in todo
  BY DEF Accounted, Honest, Collect, SiteFails, SiteEmpty, SiteRead
<1>2. UNCHANGED <<targets, done, digested, result>> /\ todo' = todo \ {s}
      /\ work \subseteq work'
  BY DEF Collect, SiteFails, SiteEmpty, SiteRead
<1>3. CASE UNCHANGED <<pc, news, digest, site>>
  <2>1. Books'
    BY <1>1, <1>2, <1>3, BooksStay
  <2>. QED BY <1>1, <1>2, <1>3, <2>1 DEF Accounted, SuccessMeansDelivered
<1>4. ASSUME NEW articles \in SUBSET UrlsOf[s] \ {{}}, SiteRead(s, articles),
             ~UNCHANGED <<pc, news, digest, site>>
      PROVE  Accounted'
  <2>. DEFINE new == {u \in articles : NeedsSync(u, targets)}
  <2>1. /\ work' = work \cup {s}
        /\ news' = [news EXCEPT ![s] = new]
    BY <1>4 DEF SiteRead
  <2>2. CASE MergeMode = "per_site"
    <3>1. site' = s /\ fresh' = new /\ pc' = "resolve"
      BY <1>4, <2>2 DEF SiteRead
    <3>2. Source'
      BY <1>2, <2>1, <2>2, <3>1, <1>1 DEF Source, TypeOK
    <3>3. SitesSent'
      BY <1>1, <1>2, <2>1, <2>2, CountedStays DEF Books, SitesSent, Sent, TypeOK
    <3>. QED
      BY <1>1, <1>2, <2>2, <3>1, <3>2, <3>3
      DEF Accounted, Books, SuccessMeansDelivered
  <2>3. CASE MergeMode = "daily_digest"
    <3>1. digest' = [digest EXCEPT ![NameOf[s]] = new] /\ pc' = "site"
          /\ UNCHANGED site
      BY <1>4, <2>3 DEF SiteRead
    <3>2. digested = "no"
      BY <1>1, <2>3 DEF Books, DigestSent
    <3>3. \A r \in Site : news'[r] \subseteq digest'[NameOf[r]]
      <4>. SUFFICES ASSUME NEW r \in Site
                    PROVE  news'[r] \subseteq digest'[NameOf[r]]
        OBVIOUS
      <4>1. news[r] \subseteq digest[NameOf[r]]
        BY <1>1, <2>3 DEF Books, DigestSent
      <4>2. NameOf[s] \in Name /\ NameOf[r] \in Name
        BY SyncAssumption
      <4>. HIDE DEF new
      <4>3. CASE r = s
        BY <1>1, <2>1, <3>1, <4>2, <4>3 DEF TypeOK
      <4>4. CASE r # s
        <5>1. NameOf[r] # NameOf[s]
          BY <2>3, <4>4 DEF NamesApart
        <5>2. news'[r] = news[r] /\ digest'[NameOf[r]] = digest[NameOf[r]]
          BY <1>1, <2>1, <3>1, <4>2, <4>4, <5>1 DEF TypeOK
        <5>. QED BY <4>1, <5>2
      <4>. QED BY <4>3, <4>4
    <3>4. DigestSent'
      BY <1>2, <3>2, <3>3 DEF DigestSent
    <3>. QED
      BY <1>1, <1>2, <2>3, <3>1, <3>4 DEF Accounted, Books, SuccessMeansDelivered
  <2>. QED BY <2>2, <2>3, SyncAssumption
<1>. QED BY <1>3, <1>4 DEF Collect, SiteFails, SiteEmpty

LEMMA ResolveAccounted ==
  ASSUME Accounted, [Next]_vars, Honest', Resolve
  PROVE  Accounted'
<1>1. TypeOK /\ Books /\ ~result.success /\ Source
  BY DEF Accounted, Honest, Resolve
<1>2. UNCHANGED <<targets, news, digest, done, result, todo, work>>
  BY DEF Resolve
<1>3. CASE Pending(fresh) = {}
  <2>1. pc' = "site" /\ site' = None
    BY <1>3 DEF Resolve, EndBatch
  <2>2. Sent(fresh)
    BY <1>3, OthersServed DEF Sent, Accounted
  <2>3. CASE MergeMode = "per_site"
    <3>1. UNCHANGED digested
      BY <1>1, <1>3, <2>3, SyncAssumption DEF Resolve, Source, TypeOK
    <3>2. Books'
      BY <1>1, <1>2, <3>1, BooksStay
    <3>. QED BY <1>1, <1>2, <2>1, <3>2 DEF Accounted, SuccessMeansDelivered
  <2>4. CASE MergeMode = "daily_digest"
    <3>1. Sent(Waiting)'
      BY <1>1, <1>2, <2>2, <2>4, CountedStays DEF Sent, Source, Waiting
    <3>2. DigestSent'
      BY <1>1, <1>2, <2>4, <3>1 DEF Books, DigestSent, Source
    <3>. QED
      BY <1>1, <1>2, <2>1, <2>4, <3>2 DEF Accounted, Books, SuccessMeansDelivered
  <2>. QED BY <2>3, <2>4, SyncAssumption
<1>4. CASE Pending(fresh) # {}
  <2>1. /\ pc' = "upload" /\ pending' = Pending(fresh)
        /\ UNCHANGED <<digested, site, fresh>>
    BY <1>4 DEF Resolve
  <2>2. Books'
    BY <1>1, <1>2, <2>1, BooksStay
  <2>3. Source'
    BY <1>1, <1>2, <2>1 DEF Source, Waiting
  <2>4. \A u \in fresh : \A d \in targets : d \in Pending(fresh) \/ Counted(u, d)
    BY OthersServed DEF Accounted
  <2>5. (\A u \in fresh : \A d \in targets : d \in pending \/ Counted(u, d))'
    BY <1>1, <1>2, <2>1, <2>4, CountedStays
  <2>. QED
    BY <1>1, <1>2, <2>1, <2>2, <2>3, <2>5 DEF Accounted, SuccessMeansDelivered
<1>. QED BY <1>3, <1>4

LEMMA UploadAccounted ==
  ASSUME Accounted, [Next]_vars, Honest', UploadSome \/ StartDigest
  PROVE  Accounted'
<1>1. TypeOK /\ Books /\ ~result.success
  BY DEF Accounted, Honest, UploadSome, Upload, StartDigest
<1>2. UNCHANGED <<targets, news, digest, done, result, todo, work>>
  BY DEF UploadSome, Upload, StartDigest
<1>3. CASE UploadSome
  <2>1. UNCHANGED <<digested, site, fresh, pending>> /\ pc = "upload" /\ pc' = "mark"
    BY <1>3 DEF UploadSome, Upload
  <2>2. Books'
    BY <1>1, <1>2, <2>1, BooksStay
  <2>3. Source'
    BY <1>2, <2>1 DEF Accounted, Source, Waiting
  <2>4. (\A u \in fresh : \A d \in targets : d \in pending \/ Counted(u, d))'
    BY <1>1, <1>2, <2>1, CountedStays DEF Accounted
  <2>. QED
    BY <1>1, <1>2, <2>1, <2>2, <2>3, <2>4 DEF Accounted, SuccessMeansDelivered
<1>4. CASE StartDigest
  <2>1. /\ MergeMode = "daily_digest" /\ todo = {} /\ pc' = "resolve"
        /\ digested' = "tried" /\ fresh' = Waiting /\ UNCHANGED site
        /\ pc = "site"
    BY <1>4 DEF StartDigest, Waiting
  <2>2. DigestSent'
    BY <1>1, <1>2, <2>1 DEF Books, DigestSent
  <2>3. site = None
    BY <2>1 DEF Accounted
  <2>4. Source'
    BY <1>2, <2>1, <2>3 DEF Source, Waiting
  <2>. QED
    BY <1>1, <1>2, <2>1, <2>2, <2>4 DEF Accounted, Books, SuccessMeansDelivered
<1>. QED BY <1>3, <1>4

LEMMA MarkAccounted ==
  ASSUME Accounted, [Next]_vars, Honest', Mark
  PROVE  Accounted'
<1>1. TypeOK /\ Books /\ ~result.success /\ Source /\ Honest
  BY DEF Accounted, Honest, Mark
<1>2. UNCHANGED <<targets, news, digest, result, todo, work, received>>
      /\ pc' = "site" /\ site' = None
  BY DEF Mark, EndBatch
<1>3. AllOk => Sent(fresh)
  <2>. SUFFICES ASSUME AllOk, NEW u \in fresh, NEW d \in targets
                PROVE  Counted(u, d)
    BY DEF Sent
  <2>1. d \in ok \/ Counted(u, d)
    BY DEF Accounted, AllOk, Mark
  <2>2. d \in ok => u \in received[d]
    BY <1>1 DEF Honest, Mark
  <2>. QED BY <2>1, <2>2 DEF Counted
<1>4. CASE MergeMode = "per_site"
  <2>1. UNCHANGED digested /\ (done' = done \/ (AllOk /\ done' = done \cup {site}))
    <3>1. site # None
      BY <1>1, <1>4, SyncAssumption DEF Source
    <3>. QED BY <3>1 DEF Mark
  <2>2. \A s \in done' : s \notin todo /\ Sent(news[s])
    BY <1>1, <1>3, <1>4, <2>1 DEF Books, SitesSent, Source
  <2>3. SitesSent'
    BY <1>1, <1>2, <1>4, <2>1, <2>2, CountedStays DEF Books, SitesSent, Sent
  <2>. QED BY <1>1, <1>2, <1>4, <2>3 DEF Accounted, Books, SuccessMeansDelivered
<1>5. CASE MergeMode = "daily_digest"
  <2>1. digested' = "ok" => AllOk
    BY <1>1, <1>5 DEF Mark, Source
  <2>2. digested' = "ok" => Sent(Waiting)
    BY <1>1, <1>3, <1>5, <2>1 DEF Source
  <2>3. todo = {}
    BY <1>1, <1>5 DEF Books, DigestSent, Source
  <2>4. DigestSent'
    BY <1>1, <1>2, <1>5, <2>2, <2>3, CountedStays DEF Books, DigestSent, Sent, Waiting
  <2>. QED BY <1>1, <1>2, <1>5, <2>4 DEF Accounted, Books, SuccessMeansDelivered
<1>. QED BY <1>4, <1>5, SyncAssumption

LEMMA Answer ==
  ASSUME NEW status, NEW success, Return(status, success)
  PROVE  result'.success = success
BY DEF Return

LEMMA VerdictAccounted ==
  ASSUME Accounted, [Next]_vars, Honest', Verdict
  PROVE  Accounted'
<1>1. TypeOK /\ Books
  BY DEF Accounted, Honest
<1>2. /\ UNCHANGED <<targets, news, digest, done, digested, todo, work, received>>
      /\ pc' = "push"
  BY DEF Verdict, Return
<1>3. Books'
  BY <1>1, <1>2, BooksStay
<1>4. result'.success => \A s \in Site : Sent(news[s])
  <2>1. CASE MergeMode = "per_site"
    <3>1. SitesSent
      BY <1>1, <2>1 DEF Books
    <3>2. digested = "no"
      BY <3>1 DEF SitesSent
    <3>3. CASE work = {}
      BY <3>1, <3>3 DEF SitesSent, Sent
    <3>4. CASE work # {} /\ done = work
      BY <3>1, <3>4 DEF SitesSent, Sent
    <3>5. CASE work # {} /\ done # work
      <4>1. Return("completed", done = work /\ errors = {})
        BY <3>2, <3>5 DEF Verdict
      <4>. QED BY <3>5, <4>1, Answer
    <3>. QED BY <3>3, <3>4, <3>5
  <2>2. CASE MergeMode = "daily_digest"
    <3>1. DigestSent
      BY <1>1, <2>2 DEF Books
    <3>2. result'.success => digested = "ok" \/ digested = "no"
      <4>1. CASE digested \notin {"no", "ok"}
        <5>1. Return("completed", digested = "ok" /\ errors = {})
          BY <4>1 DEF Verdict
        <5>. QED BY <4>1, <5>1, Answer
      <4>. QED BY <4>1
    <3>3. digested = "no" => \A n \in Name : digest[n] = {}
      BY <2>2 DEF Verdict
    <3>4. \A s \in Site : NameOf[s] \in Name
      BY SyncAssumption
    <3>. QED BY <3>1, <3>2, <3>3, <3>4 DEF DigestSent, Sent, Waiting
  <2>. QED BY <2>1, <2>2, SyncAssumption
<1>5. SuccessMeansDelivered'
  BY <1>1, <1>2, <1>4, CountedStays DEF SuccessMeansDelivered, Sent
<1>. QED BY <1>2, <1>3, <1>5 DEF Accounted

LEMMA StepAccounted ==
  ASSUME StarHasHome, NamesApart, Accounted, [Next]_vars PROVE Accounted'
<1>1. Honest'
  BY StepHonest DEF Accounted
<1>2. TypeOK /\ Books
  BY DEF Accounted, Honest
<1>3. CASE Begin BY <1>1, <1>3, BeginAccounted
<1>4. ASSUME NEW s \in Site, Collect(s) PROVE Accounted'
  BY <1>1, <1>4, ReadAccounted
<1>5. CASE Resolve BY <1>1, <1>5, ResolveAccounted
<1>6. CASE UploadSome \/ StartDigest BY <1>1, <1>6, UploadAccounted
<1>7. CASE Mark BY <1>1, <1>7, MarkAccounted
<1>8. CASE Verdict BY <1>1, <1>8, VerdictAccounted
<1>9. CASE Cancelled \/ DbError
  <2>1. \E status \in Statuses : Return(status, FALSE)
    BY <1>9 DEF Cancelled, DbError, Statuses
  <2>. QED BY <1>1, <1>9, <2>1, Refused DEF Cancelled, DbError
<1>10. CASE Push \/ Abort \/ Crash
  <2>1. \E loaded \in {devices, uploader} : Release(loaded)
    BY <1>10 DEF Push, Abort, Crash
  <2>. QED BY <1>1, <2>1, ReleaseAccounted
<1>11. CASE Acquire \/ Pull \/ BatchRaises
  <2>1. /\ UNCHANGED <<targets, news, digest, done, digested, result, todo, work>>
        /\ pc' \in {"pull", "begin", "site"} /\ pc # "push"
        /\ pc' \in {"pull", "begin"} => pc \in {"idle", "pull"}
        /\ site' = None
    BY <1>11 DEF Accounted, Acquire, Pull, BatchRaises, EndBatch
  <2>2. Books'
    BY <1>2, <2>1, BooksStay
  <2>. QED
    BY <1>1, <2>1, <2>2 DEF Accounted, NothingYet, SuccessMeansDelivered
<1>12. CASE \/ RequestCancel \/ EditDevices \/ Reload \/ Import
            \/ (\E u \in Url : DeleteEntry(u)) \/ UNCHANGED vars
  BY <1>1, <1>12, BatchStays
  DEF RequestCancel, EditDevices, Reload, Import, DeleteEntry
<1>. QED
  BY <1>3, <1>4, <1>5, <1>6, <1>7, <1>8, <1>9, <1>10, <1>11, <1>12
  DEF Next, RunStep, Outside

\* A run that reports success has left each of its new articles on each of its
\* targets, whatever happened to the device list, the history and the answers
\* of the devices meanwhile.
THEOREM SuccessIsDelivery ==
  ASSUME StarHasHome, NamesApart PROVE Spec => []SuccessMeansDelivered
<1>1. Init => Accounted BY InitAccounted
<1>2. Accounted /\ [Next]_vars => Accounted' BY StepAccounted
<1>3. Accounted => SuccessMeansDelivered BY DEF Accounted
<1>. QED BY <1>1, <1>2, <1>3, PTL DEF Spec

-----------------------------------------------------------------------------
(* What the sync tells its user, over several runs (SyncPromises).         *)

LEMMA PromisesStep ==
  ASSUME [PromisesNext]_<<vars, promises>> PROVE [Next]_vars
BY DEF PromisesNext, promises

\* While a run looks at the cancel event it is set only if somebody asked this
\* run to stop: Begin has cleared what was left of earlier ones.
CancelIsMeant ==
  /\ pc \in {"site", "resolve", "upload", "mark"} /\ cancel => asked
  /\ result.status = "cancelled" => asked /\ pc = "push"

LEMMA StepCancelIsMeant ==
  ASSUME TypeOK, CancelIsMeant, [PromisesNext]_<<vars, promises>>
  PROVE  CancelIsMeant'
<1>1. CASE UNCHANGED <<vars, promises>>
  BY <1>1 DEF CancelIsMeant, promises
<1>2. CASE PromisesNext
  <2>. USE DEF CancelIsMeant
  <2>1. asked' = (pc # "idle" /\ (asked \/ (cancel' /\ ~cancel)))
    BY <1>2 DEF PromisesNext, Observe
  <2>2. CASE Cancelled
    BY <2>1, <2>2 DEF Cancelled, Return
  <2>3. CASE DbError \/ Verdict
    <3>1. \E status \in Statuses \ {"cancelled"} :
             \E success \in BOOLEAN : Return(status, success)
      BY <2>3 DEF DbError, Verdict, Statuses
    <3>. QED BY <2>1, <2>3, <3>1 DEF DbError, Verdict, Return
  <2>4. CASE Begin
    <3>1. PICK enabled \in SUBSET Site : BeginWith(enabled)
      BY <2>4 DEF Begin
    <3>. QED BY <2>1, <2>4, <3>1 DEF Begin, BeginWith, Return
  <2>5. CASE Push \/ Abort \/ Crash
    BY <2>1, <2>5 DEF Push, Abort, Crash, Release, NoResult
  <2>6. CASE RequestCancel
    BY <2>1, <2>6 DEF RequestCancel
  <2>7. ASSUME UNCHANGED <<cancel, result>>, pc # "push", pc' \notin {"idle"},
               \/ pc \in {"site", "resolve", "upload", "mark"}
               \/ pc' \notin {"site", "resolve", "upload", "mark"}
        PROVE  CancelIsMeant'
    BY <2>1, <2>7
  <2>8. CASE Acquire \/ Pull \/ StartDigest \/ Resolve \/ UploadSome \/ BatchRaises \/ Mark
    BY <2>7, <2>8 DEF Acquire, Pull, StartDigest, Resolve, UploadSome, Upload,
       BatchRaises, Mark
  <2>9. ASSUME NEW s \in Site, Collect(s) PROVE CancelIsMeant'
    BY <2>7, <2>9 DEF Collect, SiteFails, SiteEmpty, SiteRead
  <2>10. CASE EditDevices \/ Reload \/ Import \/ \E u \in Url : DeleteEntry(u)
    BY <2>1, <2>10 DEF EditDevices, Reload, Import, DeleteEntry
  <2>. QED
    BY <1>2, <2>2, <2>3, <2>4, <2>5, <2>6, <2>8, <2>9, <2>10
    DEF PromisesNext, Next, RunStep, Outside
<1>. QED BY <1>1, <1>2

\* A run is cancelled only when this run was asked to stop: the request that an
\* earlier run never saw is cleared before the first site.
THEOREM CancelsAreAsked == PromisesSpec => []StaleCancelHarmless
<1>1. Init /\ PromisesInit => TypeOK /\ CancelIsMeant
  <2>1. Init => CancelIsMeant BY DEF Init, CancelIsMeant, NoResult
  <2>. QED BY <2>1, InitTypeOK
<1>2. TypeOK /\ CancelIsMeant /\ [PromisesNext]_<<vars, promises>>
        => TypeOK' /\ CancelIsMeant'
  BY StepCancelIsMeant, PromisesStep, StepTypeOK
<1>3. CancelIsMeant => StaleCancelHarmless
  BY DEF CancelIsMeant, StaleCancelHarmless
<1>. QED BY <1>1, <1>2, <1>3, PTL DEF PromisesSpec

-----------------------------------------------------------------------------
\* Without deletions in the history tab, what a device has confirmed stays
\* recorded under a key of the device, and a batch waiting to be uploaded misses
\* something at each of its devices.
NoDeletions == "delete" \notin Disturbances

Recorded ==
  /\ \A d \in Device : \A u \in acked[d] : u \in Url /\ SyncedFor(u, d)
  /\ pc = "upload" => \A d \in pending : ~(fresh \subseteq acked[d])

LEMMA RowsStay ==
  ASSUME TypeOK, NoDeletions, [Next]_vars, NEW u \in Url, NEW d \in Device,
         SyncedFor(u, d)
  PROVE  SyncedFor(u, d)'
<1>1. PICK k \in AliasOf[d] : <<u, k>> \in history
  BY DEF SyncedFor
<1>2. CASE history \subseteq history'
  BY <1>1, <1>2 DEF SyncedFor
<1>3. CASE Begin
  <2>1. k # Star
    BY <1>1, SyncAssumption, AliasAssumption
  <2>2. \A first \in Device : <<u, k>> \in Remapped(first)
    BY <1>1, <2>1 DEF Remapped
  <2>3. <<u, k>> \in history'
    BY <1>1, <1>3, <2>2 DEF Begin, BeginWith, TypeOK
  <2>. QED BY <2>3 DEF SyncedFor
<1>4. CASE Pull \/ Import \/ Mark
  BY <1>2, <1>4 DEF Pull, Import, PeerRows, Mark
<1>5. CASE ~(Begin \/ Pull \/ Import \/ Mark)
  <2>1. UNCHANGED history
    BY <1>5 DEF NoDeletions, Next, RunStep, Outside, Acquire, Cancelled, Collect,
       SiteFails, SiteEmpty, SiteRead, DbError, StartDigest, Resolve, UploadSome,
       Upload, BatchRaises, Verdict, Push, Abort, RequestCancel, EditDevices,
       Reload, DeleteEntry, Crash
  <2>. QED BY <1>2, <2>1
<1>. QED BY <1>3, <1>4, <1>5

\* Whoever has all of a batch is not among those it is resolved to.
LEMMA PendingMisses ==
  ASSUME TypeOK, Recorded, NEW d \in Pending(fresh), fresh \subseteq acked[d]
  PROVE  FALSE
<1>1. d \in Device
  BY DEF TypeOK, Pending
<1>2. \A u \in fresh : SyncedFor(u, d)
  BY <1>1 DEF Recorded
<1>3. \A u \in fresh : Synced(u)
  BY <1>1, <1>2, SyncAssumption DEF Synced, SyncedFor
<1>4. CASE HistoryMode = "global_url"
  BY <1>3, <1>4 DEF Pending
<1>5. CASE HistoryMode # "global_url"
  BY <1>2, <1>5 DEF Pending
<1>. QED BY <1>4, <1>5

LEMMA StepRecorded ==
  ASSUME NoDeletions, TypeOK, Recorded, acked \in [Device -> SUBSET Url],
         [PromisesNext]_<<vars, promises>>
  PROVE  Recorded' /\ acked' \in [Device -> SUBSET Url]
<1>. USE DEF Recorded
<1>1. [Next]_vars
  BY PromisesStep
<1>2. ASSUME UNCHANGED acked, pc' = "upload" => UNCHANGED <<pc, pending, fresh>>
      PROVE  Recorded' /\ acked' \in [Device -> SUBSET Url]
  BY <1>1, <1>2, RowsStay
<1>3. CASE UNCHANGED <<vars, promises>>
  BY <1>2, <1>3 DEF promises
<1>4. CASE PromisesNext
  <2>1. acked' = [d \in Device |->
                    IF pc = "mark" /\ pc' = "site" /\ Marks \subseteq history' /\ d \in ok
                    THEN acked[d] \cup fresh ELSE acked[d]]
    BY <1>4 DEF PromisesNext, Observe
  <2>2. CASE pc = "mark" /\ pc' = "site"
    <3>1. ASSUME NEW d \in Device, NEW u \in acked'[d] PROVE u \in Url /\ SyncedFor(u, d)'
      <4>1. CASE u \in acked[d]
        BY <1>1, <4>1, RowsStay
      <4>2. CASE u \notin acked[d]
        <5>1. u \in fresh /\ d \in ok /\ Marks \subseteq history'
          BY <2>1, <3>1, <4>2
        <5>2. <<u, KeyOf[d]>> \in history'
          BY <5>1 DEF Marks
        <5>3. KeyOf[d] \in AliasOf[d]
          BY AliasAssumption
        <5>. QED BY <5>1, <5>2, <5>3 DEF SyncedFor, TypeOK
      <4>. QED BY <4>1, <4>2
    <3>2. acked' \in [Device -> SUBSET Url]
      BY <2>1 DEF TypeOK
    <3>. QED BY <2>2, <3>1, <3>2
  <2>3. CASE ~(pc = "mark" /\ pc' = "site")
    <3>1. UNCHANGED acked
      BY <2>1, <2>3
    <3>2. CASE Resolve /\ pc' = "upload"
      <4>1. pending' = Pending(fresh) /\ UNCHANGED fresh
        BY <3>2 DEF Resolve, EndBatch
      <4>2. \A d \in pending' : ~(fresh' \subseteq acked'[d])
        BY <3>1, <4>1, PendingMisses
      <4>. QED BY <1>1, <3>1, <4>2, RowsStay
    <3>3. CASE pc' = "upload" => UNCHANGED <<pc, pending, fresh>>
      BY <1>2, <3>1, <3>3
    <3>4. pc' = "upload" => Resolve \/ UNCHANGED <<pc, pending, fresh>>
      BY <1>4 DEF PromisesNext, Next, RunStep, Outside, Acquire, Pull, Begin, BeginWith,
         Return, Cancelled, Collect, SiteFails, SiteEmpty, SiteRead, DbError, StartDigest,
         UploadSome, Upload, BatchRaises, Mark, Verdict, Push, Abort, Release,
         RequestCancel, EditDevices, Reload, Import, DeleteEntry, Crash
    <3>. QED BY <3>2, <3>3, <3>4
  <2>. QED BY <2>2, <2>3
<1>. QED BY <1>3, <1>4

\* A batch is sent only to devices that miss something of it, in whatever order
\* runs failed, crashed or were cancelled before: what a device has confirmed is
\* recorded, and nothing but a deletion takes the record away.
THEOREM NobodyTwice ==
  ASSUME NoDeletions PROVE PromisesSpec => OnlyMissingDevices
<1>. DEFINE Typed == acked \in [Device -> SUBSET Url]
<1>1. Init /\ PromisesInit => TypeOK /\ Recorded /\ Typed
  <2>1. Init /\ PromisesInit => Recorded /\ Typed
    BY DEF Init, PromisesInit, Recorded
  <2>. QED BY <2>1, InitTypeOK
<1>2. TypeOK /\ Recorded /\ Typed /\ [PromisesNext]_<<vars, promises>>
        => TypeOK' /\ Recorded' /\ Typed'
  BY StepRecorded, PromisesStep, StepTypeOK
<1>3. TypeOK /\ Recorded /\ [PromisesNext]_<<vars, promises>> =>
        [pc = "upload" /\ pc' = "mark" =>
           \A d \in tried' : ~(fresh \subseteq acked[d])]_<<vars, promises>>
  <2>. SUFFICES ASSUME TypeOK, Recorded, PromisesNext, pc = "upload", pc' = "mark"
                PROVE  \A d \in tried' : ~(fresh \subseteq acked[d])
    OBVIOUS
  <2>1. UploadSome
    BY DEF PromisesNext, Next, RunStep, Outside, Acquire, Pull, Begin, BeginWith,
       Return, Cancelled, Collect, SiteFails, SiteEmpty, SiteRead, DbError, StartDigest,
       Resolve, BatchRaises, Mark, Verdict, Push, Abort, Release,
       RequestCancel, EditDevices, Reload, Import, DeleteEntry, Crash
  <2>2. tried' \subseteq pending
    BY <2>1 DEF UploadSome, Upload
  <2>. QED BY <2>2 DEF Recorded
<1>. QED BY <1>1, <1>2, <1>3, PTL DEF PromisesSpec, OnlyMissingDevices

-----------------------------------------------------------------------------
\* The retry is promised by a run whose history distinguishes devices, and a
\* device list does not shrink to one device behind it (an only device is taken
\* to have what any other has).
RetryCounts ==
  /\ HistoryMode = "per_device"
  /\ "edit" \notin Disturbances \/ \A ds \in Configs : ~Single(ds)

\* What a run sends goes to configured devices as long as nobody edits the list.
ListStays ==
  "edit" \notin Disturbances =>
    /\ pc \in {"site", "resolve", "upload", "mark"} => targets = devices
    /\ pc \in {"upload", "mark"} => pending \subseteq targets
    /\ pc = "mark" => ok \subseteq tried /\ tried \subseteq pending

\* Where a run owes something, another device of the list has got it.
DebtShared ==
  /\ owed \subseteq Url \X Device
  /\ owed # {} => ~Single(devices)

LEMMA StepListStays ==
  ASSUME TypeOK, ListStays, [Next]_vars PROVE ListStays'
<1>. SUFFICES ASSUME "edit" \notin Disturbances
              PROVE  /\ pc' \in {"site", "resolve", "upload", "mark"} => targets' = devices'
                     /\ pc' \in {"upload", "mark"} => pending' \subseteq targets'
                     /\ pc' = "mark" => ok' \subseteq tried' /\ tried' \subseteq pending'
  BY DEF ListStays
<1>. USE DEF ListStays
<1>1. CASE Begin
  BY <1>1 DEF Begin, BeginWith, Return
<1>2. CASE Resolve
  <2>1. Pending(fresh) \subseteq targets
    BY DEF Pending
  <2>. QED BY <1>2, <2>1 DEF Resolve
<1>3. CASE UploadSome
  BY <1>3 DEF UploadSome, Upload
<1>4. CASE \/ Acquire \/ Pull \/ Cancelled \/ DbError \/ StartDigest \/ BatchRaises \/ Mark
           \/ Push \/ Abort \/ Crash
  BY <1>4 DEF Acquire, Pull, Cancelled, DbError, StartDigest, BatchRaises, Mark,
     Push, Abort, Crash, Return, Release
<1>5. ASSUME NEW s \in Site, Collect(s) PROVE ListStays'
  BY <1>5 DEF Collect, SiteFails, SiteEmpty, SiteRead
<1>6. CASE Verdict
  BY <1>6 DEF Verdict, Return
<1>7. CASE \/ RequestCancel \/ Reload \/ Import
           \/ (\E u \in Url : DeleteEntry(u)) \/ UNCHANGED vars
  BY <1>7 DEF RequestCancel, Reload, Import, DeleteEntry
<1>. QED
  BY <1>1, <1>2, <1>3, <1>4, <1>5, <1>6, <1>7 DEF Next, RunStep, Outside, EditDevices

LEMMA StepDebtShared ==
  ASSUME RetryCounts, Honest, ListStays, DebtShared, Honest',
         [PromisesNext]_<<vars, promises>>
  PROVE  DebtShared'
<1>1. owed' \subseteq Url \X Device
  <2>1. Said \subseteq Url \X Device
    BY DEF Said, Honest, TypeOK
  <2>. QED BY <2>1 DEF DebtShared, PromisesNext, Observe, promises
<1>2. CASE \A ds \in Configs : ~Single(ds)
  BY <1>2, <1>1 DEF DebtShared, Honest
<1>3. CASE "edit" \notin Disturbances
  <2>1. UNCHANGED devices
    BY <1>3, PromisesStep DEF Next, RunStep, Outside, Acquire, Pull, Begin, Cancelled,
       Collect, SiteFails, SiteEmpty, SiteRead, DbError, StartDigest, Resolve,
       UploadSome, Upload, BatchRaises, Mark, Verdict, Push, Abort, RequestCancel,
       EditDevices, Reload, Import, DeleteEntry, Crash
  <2>2. CASE owed' = owed
    BY <1>1, <2>1, <2>2 DEF DebtShared, Single
  <2>3. CASE owed' # owed
    <3>1. pc = "mark" /\ owed' = owed \cup Said
      BY <2>3 DEF PromisesNext, Observe, promises
    <3>2. PICK p \in Said : TRUE
      BY <2>3, <3>1
    <3>3. PICK d \in tried : d \notin ok /\ ok # {}
      BY <3>2 DEF Said
    <3>4. PICK e \in ok : TRUE
      BY <3>3
    <3>5. d \in devices /\ e \in devices /\ d # e
      BY <1>3, <3>1, <3>3, <3>4 DEF ListStays
    <3>. QED BY <1>1, <2>1, <3>5 DEF DebtShared, Single
  <2>. QED BY <2>2, <2>3
<1>. QED BY <1>2, <1>3 DEF RetryCounts

\* What the log promises a device that failed is still due to it, over any number
\* of later runs: its rows are true, and another device's row does not stand for
\* its own.
THEOREM RetriesAreKept ==
  ASSUME StarHasHome, RetryCounts PROVE PromisesSpec => []RetryPromiseKept
<1>. DEFINE Inv == Honest /\ ListStays /\ DebtShared
<1>1. Init /\ PromisesInit => Inv
  <2>1. Init /\ PromisesInit => ListStays /\ DebtShared
    BY DEF Init, PromisesInit, ListStays, DebtShared
  <2>. QED BY <2>1, InitHonest
<1>2. Inv /\ [PromisesNext]_<<vars, promises>> => Inv'
  <2>. SUFFICES ASSUME Inv, [PromisesNext]_<<vars, promises>> PROVE Inv'
    OBVIOUS
  <2>1. [Next]_vars BY PromisesStep
  <2>2. Honest' BY <2>1, StepHonest
  <2>3. ListStays' BY <2>1, StepListStays DEF Honest
  <2>4. DebtShared' BY <2>2, StepDebtShared
  <2>. QED BY <2>2, <2>3, <2>4
<1>3. Inv => RetryPromiseKept
  <2>. SUFFICES ASSUME Inv, NEW p \in owed, p[2] \in devices,
                       p[1] \notin received[p[2]]
                PROVE  NeedsSync(p[1], devices) /\ ~SyncedFor(p[1], p[2])
    BY DEF RetryPromiseKept
  <2>1. ~SyncedFor(p[1], p[2])
    BY DEF Honest, HonestHistory, TypeOK, DebtShared
  <2>2. ~Single(devices)
    BY DEF DebtShared
  <2>. QED BY <2>1, <2>2 DEF NeedsSync, RetryCounts
<1>. QED BY <1>1, <1>2, <1>3, PTL DEF PromisesSpec
=============================================================================
