---------------------------- MODULE SyncPipeline ----------------------------
(***************************************************************************)
(* One computer's sync runs: run_sync_pipeline_locked between the pull and *)
(* the push of the shared folder, with the history database it reads and   *)
(* writes and the devices it uploads to. Runs are serialised by the locks  *)
(* of PipelineLock; everything else of the program (the history tab, the   *)
(* folder sync, the settings, the cancel button) acts at any time between  *)
(* the steps of a run.                                                     *)
(*                                                                         *)
(* An article is its sync key (Url). A row of the history database is a    *)
(* pair <<url, key>>: a device is looked up under its alias keys and       *)
(* recorded under its history key. The counters of the code (success_count *)
(* and so on) are the sets of the sites they count.                        *)
(***************************************************************************)
EXTENDS Naturals, FiniteSets

CONSTANTS Site, Url,
          UrlsOf,       \* the articles a site may show
          Name, NameOf, \* the display name of a site
          Device,       \* every device there is, configured here or not
          Primary,      \* the device behind x3_ip
          Key, KeyOf,   \* the history key of a device
          AliasOf,      \* the keys under which a device is looked up
          Star,         \* the key '*' of rows from before devices had keys
          StarUrls,     \* the articles with such a row at the start
          Configs,      \* the device lists the user may save
          HistoryMode,  \* "per_device" or "global_url"
          MergeMode,    \* "per_site" or "daily_digest"
          Disturbances, \* which of the outside events below may happen
          None

ASSUME SyncAssumption ==
  /\ UrlsOf \in [Site -> SUBSET Url]
  /\ NameOf \in [Site -> Name]
  /\ Primary \in Device
  /\ KeyOf \in [Device -> Key]
  /\ AliasOf \in [Device -> SUBSET Key]
  /\ Star \in Key
  /\ StarUrls \subseteq Url
  /\ Configs \subseteq SUBSET Device
  /\ HistoryMode \in {"per_device", "global_url"}
  /\ MergeMode \in {"per_site", "daily_digest"}
  /\ Disturbances \subseteq {"cancel", "edit", "reload", "import", "star",
                             "delete", "crash", "db", "exception"}
  /\ None \notin Site

\* Device ids are unique, one address is one device, and only '*' is nobody's.
ASSUME AliasAssumption ==
  /\ \A d \in Device : KeyOf[d] \in AliasOf[d]
  /\ \A d, e \in Device : d # e => AliasOf[d] \cap AliasOf[e] = {}
  /\ \A d \in Device : Star \notin AliasOf[d]
  /\ \A k \in Key : k = Star \/ \E d \in Device : k \in AliasOf[d]

VARIABLES
  history,   \* the rows of synced_posts
  received,  \* what has reached each device
  devices,   \* the device list in config.json
  uploader,  \* the devices service.uploader was built for
  cancel,    \* _cancel_event
  pc,        \* where the run is
  sites, todo, site, \* enabled_sites, those still ahead, the one at hand
  targets,   \* upload_targets
  fresh,     \* new_articles, or all_new_urls of the digest
  pending,   \* pending_ips
  tried, ok, \* upload_results: its devices, and those with True
  digest,    \* digest_articles
  news,      \* new_articles of every site so far
  work, done, partial, failed, errors, empty,  \* the counters
  digested,  \* digest_attempted, digest_success and digest_partial
  result     \* the status the run reports and what it returns

disk == <<history, received, devices>>
counters == <<work, done, partial, failed, errors, empty, digested>>
batch == <<site, fresh, pending, tried, ok>>
run == <<pc, sites, todo, targets, digest, news, counters, batch, result>>
vars == <<disk, uploader, cancel, run>>

NoResult == [status |-> "none", success |-> FALSE]

Statuses == {"none", "no_sites", "no_targets", "cancelled", "db_error",
             "errors", "empty_fetch", "no_new", "completed"}

TypeOK ==
  /\ history \subseteq Url \X Key
  /\ received \in [Device -> SUBSET Url]
  /\ devices \in SUBSET Device /\ uploader \in SUBSET Device
  /\ cancel \in BOOLEAN
  /\ pc \in {"idle", "pull", "begin", "site", "resolve", "upload", "mark",
             "push"}
  /\ sites \subseteq Site /\ todo \subseteq Site /\ site \in Site \cup {None}
  /\ targets \in SUBSET Device /\ fresh \subseteq Url
  /\ pending \in SUBSET Device /\ tried \in SUBSET Device
  /\ ok \in SUBSET Device
  /\ digest \in [Name -> SUBSET Url] /\ news \in [Site -> SUBSET Url]
  /\ work \subseteq Site /\ done \subseteq Site
  /\ partial \subseteq Site /\ failed \subseteq Site
  /\ errors \subseteq Site \cup {None} /\ empty \subseteq Site
  /\ digested \in {"no", "tried", "partial", "ok"}
  /\ result \in [status : Statuses, success : BOOLEAN]

-----------------------------------------------------------------------------
(* The history database and the choice of devices.                         *)

SyncedFor(u, d) == \E k \in AliasOf[d] : <<u, k>> \in history

Synced(u) == \E k \in Key : <<u, k>> \in history

Single(ds) == \E d \in ds : ds = {d}

\* An only device is taken to have what any row says was sent.
NeedsSync(u, ds) ==
  IF HistoryMode = "global_url" \/ (Single(ds) /\ Synced(u))
  THEN ~Synced(u)
  ELSE \E d \in ds : ~SyncedFor(u, d)

\* Faulty: every target again, as if no device could be ahead of another.
PendingAll(us) == targets

\* resolve_pending_upload_ips: a device with one missing article gets the
\* whole batch.
Pending(us) ==
  IF \A u \in us : Synced(u) /\ (HistoryMode = "global_url" \/ Single(targets))
  THEN {}
  ELSE IF HistoryMode = "global_url" THEN targets
  ELSE {d \in targets : \E u \in us : ~SyncedFor(u, d)}

\* Faulty: every pending device has answered, whatever it said.
AllAnswered == tried = pending

\* upload_all_ok
AllOk == ok # {} /\ ok = tried /\ tried = pending

\* Faulty: one success is enough to record all the devices of the batch.
MarkEveryone == {<<u, KeyOf[d]>> : u \in fresh, d \in tried}

\* collect_mark_entries: the batch, under the keys of the devices that said ok.
Marks == {<<u, KeyOf[d]>> : u \in fresh, d \in ok}

-----------------------------------------------------------------------------
Init ==
  /\ history = StarUrls \X {Star}
  /\ received = [d \in Device |-> IF d = Primary THEN StarUrls ELSE {}]
  /\ devices \in Configs
  /\ uploader = devices
  /\ cancel = FALSE
  /\ pc = "idle" /\ sites = {} /\ todo = {} /\ targets = {}
  /\ site = None /\ fresh = {} /\ pending = {} /\ tried = {} /\ ok = {}
  /\ digest = [n \in Name |-> {}] /\ news = [s \in Site |-> {}]
  /\ work = {} /\ done = {} /\ partial = {} /\ failed = {}
  /\ errors = {} /\ empty = {} /\ digested = "no"
  /\ result = NoResult

\* A batch is over; the run goes on with the next site.
EndBatch ==
  /\ site' = None /\ fresh' = {} /\ pending' = {} /\ tried' = {} /\ ok' = {}

Return(status, success) ==
  /\ pc' = "push"
  /\ result' = [status |-> status, success |-> success]

\* The devices a row under a key speaks of.
Behind(k) == IF k = Star THEN {Primary} ELSE {d \in Device : k \in AliasOf[d]}

\* Rows other computers recorded for their own deliveries, under the keys they know
\* the devices by, and '*' rows of computers with the same x3_ip.
PeerKeys == IF "star" \in Disturbances THEN Key ELSE Key \ {Star}

PeerRows(rows) ==
  /\ history' = history \cup rows
  /\ received' = [d \in Device |->
                    received[d] \cup {u \in Url : \E k \in Key :
                                        d \in Behind(k) /\ <<u, k>> \in rows}]

-----------------------------------------------------------------------------
(* The steps of a run.                                                     *)

\* The locks are taken (SerialRuns!Begin).
Acquire ==
  /\ pc = "idle"
  /\ pc' = "pull"
  /\ UNCHANGED <<disk, uploader, cancel, sites, todo, targets, digest, news,
                 counters, batch, result>>

\* maybe_backup_pull: reload, and take over what the shared folder knows.
Pull ==
  /\ pc = "pull"
  /\ \E rows \in IF "import" \in Disturbances
                 THEN {{}} \cup {{r} : r \in Url \X PeerKeys} ELSE {{}} :
       PeerRows(rows)
  /\ uploader' = devices
  /\ pc' = "begin"
  /\ UNCHANGED <<devices, cancel, sites, todo, targets, digest, news, counters,
                 batch, result>>

\* remap_legacy_star_to_device, to the first target.
Remapped(first) ==
  {r \in history : r[2] # Star}
    \cup {<<r[1], KeyOf[first]>> : r \in {q \in history : q[2] = Star}}

BeginWith(enabled) ==
  IF enabled = {} \/ devices = {}
  THEN /\ Return(IF enabled = {} THEN "no_sites" ELSE "no_targets", FALSE)
       /\ UNCHANGED <<history, sites, todo, targets>>
  ELSE /\ sites' = enabled /\ todo' = enabled
       /\ targets' = devices
       /\ pc' = "site"
       /\ UNCHANGED result
       /\ \/ \E first \in devices :
               /\ Primary \in devices => first = Primary
               /\ history' = Remapped(first)
          \/ "db" \in Disturbances /\ UNCHANGED history

\* Faulty: a cancel left over from before the run stays set.
BeginKeepsCancel ==
  /\ pc = "begin"
  /\ uploader' = devices
  /\ \E enabled \in SUBSET Site : BeginWith(enabled)
  /\ UNCHANGED <<cancel, received, devices, digest, news, counters, batch>>

\* clear_cancel, reload, the snapshot of the targets and the remap of the '*'
\* rows, which a database error skips.
Begin ==
  /\ pc = "begin"
  /\ cancel' = FALSE
  /\ uploader' = devices
  /\ \E enabled \in SUBSET Site : BeginWith(enabled)
  /\ UNCHANGED <<received, devices, digest, news, counters, batch>>

\* The check at the top of the loop.
Cancelled ==
  /\ pc = "site" /\ todo # {}
  /\ cancel
  /\ Return("cancelled", FALSE)
  /\ UNCHANGED <<disk, uploader, cancel, sites, todo, targets, digest, news,
                 counters, batch>>

\* A site whose address is not http or that cannot be read; with new articles
\* already counted when their translation or summary raised.
SiteFails(s) ==
  /\ pc = "site" /\ s \in todo /\ ~cancel
  /\ todo' = todo \ {s}
  /\ errors' = errors \cup {s}
  /\ \/ UNCHANGED work
     \/ "exception" \in Disturbances /\ work' = work \cup {s}
  /\ UNCHANGED <<disk, uploader, cancel, pc, sites, targets, digest, news,
                 done, partial, failed, empty, digested, batch, result>>

SiteEmpty(s) ==
  /\ pc = "site" /\ s \in todo /\ ~cancel
  /\ todo' = todo \ {s}
  /\ empty' = empty \cup {s}
  /\ UNCHANGED <<disk, uploader, cancel, pc, sites, targets, digest, news, work,
                 done, partial, failed, errors, digested, batch, result>>

\* The articles of a site, filtered by needs_sync; in digest mode they wait in
\* digest_articles under the name of the site.
SiteRead(s, articles) ==
  LET new == {u \in articles : NeedsSync(u, targets)} IN
  /\ pc = "site" /\ s \in todo /\ ~cancel
  /\ todo' = todo \ {s}
  /\ IF new = {}
     THEN UNCHANGED <<pc, site, fresh, digest, news, work>>
     ELSE /\ work' = work \cup {s}
          /\ news' = [news EXCEPT ![s] = new]
          /\ IF MergeMode = "daily_digest"
             THEN /\ digest' = [digest EXCEPT ![NameOf[s]] = new]
                  /\ UNCHANGED <<pc, site, fresh>>
             ELSE /\ site' = s /\ fresh' = new /\ pc' = "resolve"
                  /\ UNCHANGED digest
  /\ UNCHANGED <<disk, uploader, cancel, sites, targets, done, partial, failed,
                 errors, empty, digested, pending, tried, ok, result>>

Collect(s) ==
  \/ SiteFails(s)
  \/ SiteEmpty(s)
  \/ \E articles \in SUBSET UrlsOf[s] \ {{}} : SiteRead(s, articles)

\* A database error during the loop over the sites ends the run.
DbError ==
  /\ "db" \in Disturbances
  /\ \/ pc = "site" /\ todo # {} /\ ~cancel
     \/ site # None /\ (pc = "resolve" \/ (pc = "mark" /\ ok # {}))
  /\ Return("db_error", FALSE)
  /\ UNCHANGED <<disk, uploader, cancel, sites, todo, targets, digest, news,
                 counters, batch>>

\* After the last site the digest is put together, if there is one.
StartDigest ==
  /\ pc = "site" /\ todo = {}
  /\ MergeMode = "daily_digest" /\ digested = "no"
  /\ \E n \in Name : digest[n] # {}
  /\ digested' = "tried"
  /\ fresh' = UNION {digest[n] : n \in Name}
  /\ pc' = "resolve"
  /\ UNCHANGED <<disk, uploader, cancel, sites, todo, targets, digest, news, work,
                 done, partial, failed, errors, empty, site, pending, tried,
                 ok, result>>

\* The devices of this batch. Without any, a site is left uncounted while a
\* digest counts as sent.
Resolve ==
  /\ pc = "resolve"
  /\ IF Pending(fresh) = {}
     THEN /\ pc' = "site"
          /\ EndBatch
          /\ digested' = IF site = None THEN "ok" ELSE digested
     ELSE /\ pc' = "upload"
          /\ pending' = Pending(fresh)
          /\ UNCHANGED <<digested, site, fresh, tried, ok>>
  /\ UNCHANGED <<disk, uploader, cancel, sites, todo, targets, digest, news, work,
                 done, partial, failed, errors, empty, result>>

\* Writing the EPUB file or the upload raised; in the digest block a database
\* error is caught here too.
BatchRaises ==
  /\ \/ "exception" \in Disturbances /\ pc = "upload"
     \/ /\ "db" \in Disturbances /\ site = None
        /\ (pc = "resolve" \/ (pc = "mark" /\ ok # {}))
  /\ errors' = errors \cup {site}
  /\ pc' = "site"
  /\ EndBatch
  /\ UNCHANGED <<disk, uploader, cancel, sites, todo, targets, digest, news, work,
                 done, partial, failed, empty, digested, result>>

\* upload_to_targets sends to the pending devices the uploader knows by now;
\* a device may have the file although its answer is lost.
Upload(good, silent) ==
  /\ pc = "upload"
  /\ tried' = pending \cap uploader
  /\ ok' = good
  /\ received' = [d \in Device |-> IF d \in good \cup silent
                                   THEN received[d] \cup fresh ELSE received[d]]
  /\ pc' = "mark"
  /\ UNCHANGED <<history, devices, uploader, cancel, sites, todo, targets, digest,
                 news, counters, site, fresh, pending, result>>

\* mark_synced_many and the verdict of the batch.
Mark ==
  /\ pc = "mark"
  /\ history' = history \cup Marks
  /\ IF site = None
     THEN /\ digested' = IF AllOk THEN "ok"
                         ELSE IF ok # {} THEN "partial" ELSE "tried"
          /\ UNCHANGED <<done, partial, failed>>
     ELSE /\ done' = IF AllOk THEN done \cup {site} ELSE done
          /\ partial' = IF ok # {} /\ ~AllOk THEN partial \cup {site} ELSE partial
          /\ failed' = IF ok = {} THEN failed \cup {site} ELSE failed
          /\ UNCHANGED digested
  /\ pc' = "site"
  /\ EndBatch
  /\ UNCHANGED <<received, devices, uploader, cancel, sites, todo, targets, digest,
                 news, work, errors, empty, result>>

\* The digest verdict, "nothing to do" in its three kinds, the per-site verdict.
Verdict ==
  /\ pc = "site" /\ todo = {}
  /\ (MergeMode = "daily_digest" /\ \E n \in Name : digest[n] # {})
       => digested # "no"
  /\ IF digested # "no" THEN Return("completed", digested = "ok" /\ errors = {})
     ELSE IF work # {} THEN Return("completed", done = work /\ errors = {})
     ELSE IF errors # {} THEN Return("errors", FALSE)
     ELSE IF empty = sites THEN Return("empty_fetch", FALSE)
     ELSE Return("no_new", TRUE)
  /\ UNCHANGED <<disk, uploader, cancel, sites, todo, targets, digest, news,
                 counters, batch>>

\* maybe_backup_push reloads; with the locks the variables of the run go.
Release(loaded) ==
  /\ uploader' = loaded
  /\ pc' = "idle" /\ sites' = {} /\ todo' = {} /\ targets' = {}
  /\ digest' = [n \in Name |-> {}] /\ news' = [s \in Site |-> {}]
  /\ work' = {} /\ done' = {} /\ partial' = {} /\ failed' = {}
  /\ errors' = {} /\ empty' = {} /\ digested' = "no"
  /\ EndBatch
  /\ result' = NoResult

Push ==
  /\ pc = "push"
  /\ Release(devices)
  /\ UNCHANGED <<disk, cancel>>

\* Loading the configuration raised: the run is over before it began.
Abort ==
  /\ "exception" \in Disturbances
  /\ pc \in {"pull", "begin"}
  /\ Release(uploader)
  /\ UNCHANGED <<disk, cancel>>

-----------------------------------------------------------------------------
(* What happens beside a run.                                              *)

\* The cancel button or POST /api/cancel, running or not.
RequestCancel ==
  /\ "cancel" \in Disturbances
  /\ ~cancel
  /\ cancel' = TRUE
  /\ UNCHANGED <<disk, uploader, run>>

\* A device list is saved.
EditDevices ==
  /\ "edit" \in Disturbances
  /\ devices' \in Configs
  /\ UNCHANGED <<history, received, uploader, cancel, run>>

\* _reload_config by another thread: a folder pull, push or manual sync.
Reload ==
  /\ "reload" \in Disturbances
  /\ uploader' = devices
  /\ UNCHANGED <<disk, cancel, run>>

\* import_posts_union outside of a run: manual sync, startup pull, history tab.
Import ==
  /\ "import" \in Disturbances
  /\ \E r \in Url \X PeerKeys : PeerRows({r})
  /\ UNCHANGED <<devices, uploader, cancel, run>>

\* delete_entry of the history tab; clear_all is one delete after another.
DeleteEntry(u) ==
  /\ "delete" \in Disturbances
  /\ history' = {r \in history : r[1] # u}
  /\ UNCHANGED <<received, devices, uploader, cancel, run>>

\* The process dies and is started again: locks and variables are gone, the
\* database and the devices keep what they have.
Crash ==
  /\ "crash" \in Disturbances
  /\ pc # "idle"
  /\ Release(devices)
  /\ cancel' = FALSE
  /\ UNCHANGED disk

-----------------------------------------------------------------------------
UploadSome ==
  \E good, silent \in SUBSET (pending \cap uploader) :
    good \cap silent = {} /\ Upload(good, silent)

RunStep ==
  \/ Acquire \/ Pull \/ Begin
  \/ Cancelled \/ (\E s \in Site : Collect(s)) \/ DbError
  \/ StartDigest \/ Resolve \/ UploadSome \/ BatchRaises \/ Mark
  \/ Verdict \/ Push \/ Abort

Outside ==
  \/ RequestCancel \/ EditDevices \/ Reload \/ Import
  \/ (\E u \in Url : DeleteEntry(u))
  \/ Crash

Next == RunStep \/ Outside

Spec == Init /\ [][Next]_vars

Arrives(u, d) ==
  \E good \in SUBSET (pending \cap uploader) :
    u \in fresh /\ d \in good /\ Upload(good, {})

\* A run goes on and the next one comes. Of the outcomes they keep having, a site
\* is at some time enabled and read in full, an article sent again and again at
\* some time arrives, and crashes do not come at the same place for ever: weak fairness of the
\* program, strong fairness of what surrounds it.
Fairness ==
  /\ WF_vars(RunStep)
  /\ SF_vars(Pull)
  /\ SF_vars(Begin /\ sites' = Site)
  /\ \A s \in Site : SF_vars(SiteRead(s, UrlsOf[s]))
  /\ \A u \in Url : SF_vars(u \in fresh /\ Resolve)
  /\ \A u \in Url, d \in Device : SF_vars(Arrives(u, d))

FairSpec == Spec /\ Fairness

-----------------------------------------------------------------------------
(* Properties.                                                             *)

\* A row under a key of a device is the truth: the device has the article. It
\* is what every later decision to skip a device rests on, and it has to
\* survive lost answers, crashes between upload and mark, imports and the remap
\* of the '*' rows.
HonestHistory ==
  \A u \in Url, d \in Device : SyncedFor(u, d) => u \in received[d]

\* What had reached some device may count as sent in global_url mode or when
\* there is one device only.
Counted(u, d) ==
  \/ u \in received[d]
  \/ /\ HistoryMode = "global_url" \/ Single(targets)
     /\ \E e \in Device : u \in received[e]

\* A run that reports success has left every new article of every site on every
\* target, however the device list, the history and the answers of the devices
\* changed while it was on its way.
SuccessMeansDelivered ==
  result.success =>
    \A s \in Site : \A u \in news[s] : \A d \in targets : Counted(u, d)

\* An article of a site reaches each device that stays configured, whatever is
\* lost, cancelled or cut off by a crash in between.
EventuallyDelivered ==
  \A s \in Site : \A u \in UrlsOf[s] : \A d \in Device :
    <>(u \in received[d]) \/ []<>(d \notin devices)

\* The history is a log of deliveries: a device has an article noted if a row under
\* one of its keys says so, and only a deletion takes that back. The remap, which
\* rewrites the '*' rows, notes what the primary device has.
HasArrived == {p \in Url \X Device : p[1] \in received[p[2]]}

IsNoted == {p \in Url \X Device : SyncedFor(p[1], p[2])}

Log == INSTANCE DeliveryLog WITH Article <- Url, arrived <- HasArrived, noted <- IsNoted,
                                 MayForget <- "delete" \in Disturbances

ImplementsDeliveryLog == Log!Spec
=============================================================================
