---------------------------- MODULE BackupFolder ----------------------------
(***************************************************************************)
(* The shared data folder: BackupSyncService of every process that uses    *)
(* it, on several computers. A computer has a config.json with its sites   *)
(* and a history database, which its processes share; the folder has       *)
(* sites.json and synced_posts.json. Pull and push load config.json first, *)
(* then take the lock file of the folder, then read and write its files    *)
(* one after the other.                                                    *)
(*                                                                         *)
(* The folder is one place that all computers reach, or each has a copy of *)
(* it that its cloud client keeps up to date. A lock file is a lock of the *)
(* system and holds for one copy only.                                     *)
(*                                                                         *)
(* The content of a site is the number of the edit that made it, 0 where   *)
(* the site is not in the list; merge_sites tells sites apart by address.  *)
(* Site are addresses beyond those a new config.json comes with.           *)
(***************************************************************************)
EXTENDS Naturals

CONSTANTS Computer, Process,
          Home,         \* the computer of a process
          Site,         \* the addresses of sites
          Row,          \* rows of the history, <<url, key>>
          Copy,         \* copies of the folder
          Layouts,      \* which copy each computer may work on
          MaxEdits,     \* bound on the edits of sites, for each layout
          MaxTime,      \* bound on the clock, in the seconds of now_iso
          MaxFaults,    \* bound on the outside events below, deletions included
          Disturbances, \* which outside events may happen
          None

ASSUME FolderAssumption ==
  /\ Home \in [Process -> Computer]
  /\ Layouts \subseteq [Computer -> Copy]
  /\ MaxEdits \in [Layouts -> Nat] /\ MaxTime \in Nat \ {0} /\ MaxFaults \in Nat
  /\ Disturbances \subseteq {"busy", "blind", "fail", "swap", "crash", "delete"}
  /\ None \notin Process

VARIABLES
  sites,     \* the sites of config.json
  lastPush,  \* last_sites_push_at in config.json, 0 if there is none
  rows,      \* synced_posts of the database
  place,     \* the copy of the folder a computer works on
  fileSites, fileAt,  \* sites.json and its exported_at, 0 if there is no file
  fileRows,  \* synced_posts.json
  newer,     \* <<k, l>>: synced_posts.json of k has changes that l has not got
  lock,      \* who has the lock file of a copy
  pc,
  seen,      \* config.json as loaded: its sites and its last_sites_push_at
  posts,     \* the rows about to be written
  stamp,     \* exported_at
  blind,     \* posts were put together without what synced_posts.json has: it could
             \* not be read or taken over, or was replaced since
  clock, edits, faults

local == <<sites, lastPush, rows>>
folder == <<place, fileSites, fileAt, fileRows, newer>>
world == <<clock, edits, faults>>
service == <<lock, pc, seen, posts, stamp, blind>>
vars == <<local, folder, world, service>>

SiteList == [Site -> Nat]

Empty == [s \in Site |-> 0]

Nothing == [sites |-> Empty, last |-> 0]

Locked == {"pull_sites", "pull_rows", "push_sites", "push_rows", "push_write",
           "push_meta"}

TypeOK ==
  /\ sites \in [Computer -> SiteList] /\ lastPush \in [Computer -> 0..MaxTime]
  /\ rows \in [Computer -> SUBSET Row]
  /\ place \in Layouts
  /\ fileSites \in [Copy -> SiteList] /\ fileAt \in [Copy -> 0..MaxTime]
  /\ fileRows \in [Copy -> SUBSET Row]
  /\ newer \subseteq Copy \X Copy
  /\ lock \in [Copy -> Process \cup {None}]
  /\ pc \in [Process -> {"idle", "pull_load", "pull_lock", "push_load",
                         "push_lock"} \cup Locked]
  /\ seen \in [Process -> [sites : SiteList, last : 0..MaxTime]]
  /\ posts \in [Process -> SUBSET Row]
  /\ stamp \in [Process -> 0..MaxTime]
  /\ blind \in [Process -> BOOLEAN]
  /\ clock \in 1..MaxTime /\ edits \in Nat /\ faults \in 0..MaxFaults

Init ==
  /\ sites = [c \in Computer |-> Empty]
  /\ lastPush = [c \in Computer |-> 0]
  /\ rows = [c \in Computer |-> {}]
  /\ place \in Layouts
  /\ fileSites = [k \in Copy |-> Empty] /\ fileAt = [k \in Copy |-> 0]
  /\ fileRows = [k \in Copy |-> {}]
  /\ newer = {}
  /\ lock = [k \in Copy |-> None]
  /\ pc = [p \in Process |-> "idle"]
  /\ seen = [p \in Process |-> Nothing]
  /\ posts = [p \in Process |-> {}]
  /\ stamp = [p \in Process |-> 0]
  /\ blind = [p \in Process |-> FALSE]
  /\ clock = 1 /\ edits = 0 /\ faults = 0

\* The copy a process works on, and the copies somebody works on.
At(p) == place[Home[p]]

Used == {place[c] : c \in Computer}

Goto(p, from, to) ==
  /\ pc[p] = from
  /\ pc' = [pc EXCEPT ![p] = to]

\* Faulty: a way out that leaves the folder locked.
FinishLocked(p) ==
  /\ lock' = lock
  /\ pc' = [pc EXCEPT ![p] = "idle"]
  /\ seen' = [seen EXCEPT ![p] = Nothing]
  /\ posts' = [posts EXCEPT ![p] = {}]
  /\ stamp' = [stamp EXCEPT ![p] = 0]
  /\ blind' = [blind EXCEPT ![p] = FALSE]

\* The call is over: its lock and its variables go.
Finish(p) ==
  /\ lock' = [lock EXCEPT ![At(p)] = IF @ = p THEN None ELSE @]
  /\ pc' = [pc EXCEPT ![p] = "idle"]
  /\ seen' = [seen EXCEPT ![p] = Nothing]
  /\ posts' = [posts EXCEPT ![p] = {}]
  /\ stamp' = [stamp EXCEPT ![p] = 0]
  /\ blind' = [blind EXCEPT ![p] = FALSE]

\* Something of this kind comes in between, once more.
Fault(kind) ==
  /\ kind \in Disturbances
  /\ faults < MaxFaults
  /\ faults' = faults + 1

\* read_json_safe answers None for a file that is missing, partly downloaded
\* or locked by the cloud client.
ReadAs(read, content) ==
  \/ read = content /\ UNCHANGED faults
  \/ read = {} /\ content # {} /\ Fault("blind")

-----------------------------------------------------------------------------
(* merge_sites and is_remote_newer.                                        *)

\* The sites of either list; of an address in both, the local content unless
\* the folder wins.
Merge(mine, theirs, folderWins) ==
  [s \in Site |-> IF theirs[s] # 0 /\ (mine[s] = 0 \/ folderWins)
                  THEN theirs[s] ELSE mine[s]]

\* exported_at of the folder against the last push of this computer.
FolderWins(p) == fileAt[At(p)] > seen[p].last

-----------------------------------------------------------------------------
(* pull and push. The calls of one process wait for each other at          *)
(* BackupSyncService._lock; a manual sync is a pull and then a push.       *)

StartPull(p) ==
  /\ Goto(p, "idle", "pull_load")
  /\ UNCHANGED <<local, folder, world, lock, seen, posts, stamp, blind>>

StartPush(p) ==
  /\ Goto(p, "idle", "push_load")
  /\ UNCHANGED <<local, folder, world, lock, seen, posts, stamp, blind>>

\* load_config, before the lock of the folder is taken.
Load(p) ==
  /\ Goto(p, "pull_load", "pull_lock") \/ Goto(p, "push_load", "push_lock")
  /\ seen' = [seen EXCEPT ![p] = [sites |-> sites[Home[p]],
                                  last |-> lastPush[Home[p]]]]
  /\ UNCHANGED <<local, folder, world, lock, posts, stamp, blind>>

TakeLock(p) ==
  /\ lock[At(p)] = None
  /\ lock' = [lock EXCEPT ![At(p)] = p]
  /\ Goto(p, "pull_lock", "pull_sites") \/ Goto(p, "push_lock", "push_sites")
  /\ UNCHANGED <<local, folder, world, seen, posts, stamp, blind>>

\* Six attempts in two seconds found the lock taken.
LockRefused(p) ==
  /\ lock[At(p)] # None
  /\ pc[p] \in {"pull_lock", "push_lock"}
  /\ Fault("busy")
  /\ Finish(p)
  /\ UNCHANGED <<local, folder, clock, edits>>

\* Faulty: the sites as loaded before the lock are merged and saved.
MergeAsLoaded(p) ==
  LET c == Home[p] IN
  /\ Goto(p, "pull_sites", "pull_rows")
  /\ \/ /\ sites' = [sites EXCEPT
                      ![c] = Merge(seen[p].sites, fileSites[At(p)], FolderWins(p))]
        /\ UNCHANGED faults
     \/ Fault("blind") /\ UNCHANGED sites
  /\ UNCHANGED <<lastPush, rows, folder, clock, edits, lock, seen, posts, stamp, blind>>

\* The sites as loaded tell whether there is anything to take over and who
\* wins; update_config then merges into the file as it is now.
PullSites(p) ==
  LET c == Home[p]
      theirs == fileSites[At(p)]
      wins == FolderWins(p) IN
  /\ Goto(p, "pull_sites", "pull_rows")
  /\ \/ /\ sites' = IF Merge(seen[p].sites, theirs, wins) = seen[p].sites
                    THEN sites
                    ELSE [sites EXCEPT ![c] = Merge(sites[c], theirs, wins)]
        /\ UNCHANGED faults
     \/ Fault("blind") /\ UNCHANGED sites
  /\ UNCHANGED <<lastPush, rows, folder, clock, edits, lock, seen, posts, stamp, blind>>

\* import_posts_union of what could be read.
PullRows(p, read) ==
  /\ pc[p] = "pull_rows"
  /\ ReadAs(read, fileRows[At(p)])
  /\ rows' = [rows EXCEPT ![Home[p]] = @ \cup read]
  /\ Finish(p)
  /\ UNCHANGED <<sites, lastPush, folder, clock, edits>>

PushSites(p) ==
  /\ Goto(p, "push_sites", "push_rows")
  /\ clock' \in {clock, clock + 1} \cap 1..MaxTime
  /\ stamp' = [stamp EXCEPT ![p] = clock']
  /\ fileSites' = [fileSites EXCEPT ![At(p)] = seen[p].sites]
  /\ fileAt' = [fileAt EXCEPT ![At(p)] = clock']
  /\ UNCHANGED <<local, place, fileRows, newer, edits, faults, lock, seen, posts,
                 blind>>

\* Faulty: the rows are exported before the folder's are taken over.
ExportFirst(p, read) ==
  LET c == Home[p] IN
  /\ Goto(p, "push_rows", "push_write")
  /\ ReadAs(read, fileRows[At(p)])
  /\ posts' = [posts EXCEPT ![p] = rows[c]]
  /\ rows' = [rows EXCEPT ![c] = @ \cup read]
  /\ blind' = [blind EXCEPT ![p] = read # fileRows[At(p)]]
  /\ UNCHANGED <<sites, lastPush, folder, clock, edits, lock, seen, stamp>>

\* The folder's rows go into the database, then the database is exported. Where
\* one of the two fails, push only warns and writes what it exported before.
PushRows(p, read) ==
  LET c == Home[p] IN
  /\ Goto(p, "push_rows", "push_write")
  /\ \/ /\ ReadAs(read, fileRows[At(p)])
        /\ rows' = [rows EXCEPT ![c] = @ \cup read]
        /\ posts' = [posts EXCEPT ![p] = rows'[c]]
        /\ blind' = [blind EXCEPT ![p] = read # fileRows[At(p)]]
     \/ /\ read = fileRows[At(p)] /\ read # {}
        /\ Fault("fail")
        /\ rows' \in {rows, [rows EXCEPT ![c] = @ \cup read]}
        /\ posts' = [posts EXCEPT ![p] = rows[c]]
        /\ blind' = [blind EXCEPT ![p] = TRUE]
  /\ UNCHANGED <<sites, lastPush, folder, clock, edits, lock, seen, stamp>>

PushWrite(p) ==
  /\ Goto(p, "push_write", "push_meta")
  /\ fileRows' = [fileRows EXCEPT ![At(p)] = posts[p]]
  /\ newer' = newer \cup {<<At(p), l>> : l \in Used \ {At(p)}}
  /\ UNCHANGED <<local, place, fileSites, fileAt, world, lock, seen, posts, stamp,
                 blind>>

PushMeta(p) ==
  /\ pc[p] = "push_meta"
  /\ lastPush' = [lastPush EXCEPT ![Home[p]] = stamp[p]]
  /\ Finish(p)
  /\ UNCHANGED <<sites, rows, folder, world>>

\* A database or file error ends the call and the lock is released on the way,
\* or the process dies and the system releases it.
Breaks(p) ==
  /\ \/ pc[p] \in Locked /\ Fault("fail")
     \/ pc[p] # "idle" /\ Fault("crash")
  /\ Finish(p)
  /\ UNCHANGED <<local, folder, clock, edits>>

-----------------------------------------------------------------------------
(* What a computer does meanwhile.                                         *)

\* A site is added or changed in the settings.
SaveSite(c, s) ==
  /\ edits < MaxEdits[place]
  /\ edits' = edits + 1
  /\ sites' = [sites EXCEPT ![c][s] = edits']
  /\ UNCHANGED <<lastPush, rows, folder, clock, faults, service>>

DeleteSite(c, s) ==
  /\ Fault("delete")
  /\ sites[c][s] # 0
  /\ sites' = [sites EXCEPT ![c][s] = 0]
  /\ UNCHANGED <<lastPush, rows, folder, clock, edits, service>>

\* mark_synced_many of a run.
Record(c, r) ==
  /\ r \notin rows[c]
  /\ rows' = [rows EXCEPT ![c] = @ \cup {r}]
  /\ UNCHANGED <<sites, lastPush, folder, world, service>>

\* delete_entry in the history tab takes every row of an article, clear_all all.
DeleteEntries(c, r) ==
  /\ Fault("delete")
  /\ r \in rows[c]
  /\ \E gone \in {{q \in Row : q[1] = r[1]}, Row} :
       rows' = [rows EXCEPT ![c] = @ \ gone]
  /\ UNCHANGED <<sites, lastPush, folder, clock, edits, service>>

-----------------------------------------------------------------------------
(* The cloud clients, which are not part of the program. They carry a file *)
(* that changed in one copy to another; if both changed, one version wins. *)

\* Nobody has read synced_posts.json and is about to write it.
Calm(copies) == \A p \in Process : At(p) \in copies => pc[p] # "push_write"

\* synced_posts.json. The push that has read the old one writes over it.
Carry(k, l) ==
  LET reading == {p \in Process : pc[p] = "push_write" /\ At(p) = l} IN
  /\ <<k, l>> \in newer
  /\ IF Calm({k, l}) THEN UNCHANGED faults ELSE Fault("swap")
  /\ fileRows' = [fileRows EXCEPT ![l] = fileRows[k]]
  /\ newer' = {e \in Copy \X Copy :
                 e \notin {<<k, l>>, <<l, k>>}
                   /\ <<IF e[1] = l THEN k ELSE e[1], IF e[2] = l THEN k ELSE e[2]>>
                        \in newer}
  /\ blind' = [p \in Process |-> blind[p] \/ p \in reading]
  /\ UNCHANGED <<local, place, fileSites, fileAt, clock, edits, lock, pc, seen, posts,
                 stamp>>

\* sites.json.
CarrySites(k, l) ==
  /\ k \in Used /\ l \in Used \ {k} /\ fileAt[k] # 0
  /\ fileSites' = [fileSites EXCEPT ![l] = fileSites[k]]
  /\ fileAt' = [fileAt EXCEPT ![l] = fileAt[k]]
  /\ UNCHANGED <<local, place, fileRows, newer, world, service>>

-----------------------------------------------------------------------------
Step(p) ==
  \/ Load(p) \/ TakeLock(p)
  \/ PullSites(p) \/ (\E read \in SUBSET Row : PullRows(p, read))
  \/ PushSites(p) \/ (\E read \in SUBSET Row : PushRows(p, read))
  \/ PushWrite(p) \/ PushMeta(p)

Next ==
  \/ \E p \in Process : StartPull(p) \/ StartPush(p)
  \/ \E p \in Process : Step(p) \/ LockRefused(p) \/ Breaks(p)
  \/ \E c \in Computer :
       \/ \E s \in Site : SaveSite(c, s) \/ DeleteSite(c, s)
       \/ \E r \in Row : Record(c, r) \/ DeleteEntries(c, r)
  \/ \E k, l \in Copy : Carry(k, l) \/ CarrySites(k, l)

Spec == Init /\ [][Next]_vars

\* Calls come to an end, scheduled runs keep pushing, and who waits for the lock
\* finds it free at some time: its owners keep it for less than the two seconds.
\* The clients keep carrying what changed; the moments between a push's reading
\* and writing are few, so that at times no computer is in one.
Fairness ==
  /\ \A p \in Process :
       /\ WF_vars(Step(p))
       /\ SF_vars(StartPush(p))
       /\ SF_vars(TakeLock(p))
  /\ \A k \in Copy : \A l \in Copy \ {k} : SF_vars(Carry(k, l))
  /\ []<>Calm(Copy)

FairSpec == Spec /\ Fairness

-----------------------------------------------------------------------------
(* Properties.                                                             *)

\* A push preserves the rows other computers have put into synced_posts.json
\* (pipeline comment "union before writing"), whoever else is pushing and
\* wherever calls fail: only one that could not read or take over the file, or had
\* it replaced by the cloud client since, drops any.
FileKeepsRows ==
  [][(\E p \in Process : pc'[p] # pc[p]) =>
       \A k \in Copy :
         \/ fileRows[k] \subseteq fileRows'[k]
         \/ \E p \in Process : blind[p] /\ pc[p] = "push_write" /\ At(p) = k]_vars

\* A site on a computer's list is not lost to a pull, also when it was added
\* after the pull had loaded the list: it goes only when deleted here.
LocalSitesKept ==
  [][\A p \in Process : pc[p] \in Locked /\ pc'[p] # pc[p] =>
       \A c \in Computer, s \in Site : sites[c][s] # 0 => sites'[c][s] # 0]_vars

\* What one computer has recorded is known to every other in the end, over
\* refused locks, unreadable files, errors, crashes and copies of the folder that
\* win over each other, if it is not deleted before: nobody is sent twice for long.
RowsReachAll ==
  \A r \in Row : \A c \in Computer : \A d \in Computer \ {c} :
    r \in rows[c] ~> r \in rows[d] \/ r \notin rows[c]
=============================================================================
