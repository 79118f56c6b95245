---------------------------- MODULE FolderWatch ----------------------------
(***************************************************************************)
(* The watched folder (websync/watch/calibre.py) and the worker that sends *)
(* what appears in it (gui/settings_tab/watch.py): an event puts a book    *)
(* among the pending ones and sets the timer anew; the timer's thread      *)
(* takes the books whose time has come, looks whether they still grow, and *)
(* queues the others; one worker per session sends them one by one until   *)
(* it finds the stop mark.  The observer, the timers, the workers, the     *)
(* window and whoever writes the files run beside each other.  How a       *)
(* worker takes the locks for a book is in PipelineLock.                   *)
(***************************************************************************)
EXTENDS Integers, Sequences

CONSTANTS Books,      \* files of the folder
          Flushes,    \* bound: timer threads under way at a time
          MaxStarts,  \* bound on sessions
          MaxEvents,  \* bound on events
          Stop        \* the mark that ends a worker

ASSUME WatchAssumption ==
    /\ MaxStarts \in Nat /\ MaxEvents \in Nat
    /\ Books \cap {Stop, "none", "idle", "ended"} = {}   \* not states of a worker

VARIABLES writing,  \* books that their writer is not done with
          watch,    \* the watcher of this session: "off", "on", "stopping"
          session,  \* the number of the last start
          pending,  \* books of this session waiting for their time
          timer,    \* the timer set last is still to fire
          flush,    \* the timer threads
          queue,    \* the queue of each session
          worker,   \* the worker of each session: "none", "idle", "ended" or its book
          left,     \* events the bound still allows
          unsent,   \* history: announcements of each book less its turns
          answered  \* history: books that were sent, or that the log says were not,
                    \* since they were announced last

watchVars == <<writing, watch, session, pending, timer, flush, queue, worker,
          left, unsent, answered>>

Sessions == 1..MaxStarts
IdleFlush == [at |-> "idle", of |-> 0, todo |-> {}, ready |-> {}]

WatchTypeOK ==
    /\ writing \subseteq Books
    /\ watch \in {"off", "on", "stopping"}
    /\ session \in 0..MaxStarts
    /\ pending \in [Books -> {"no", "young", "due"}]
    /\ timer \in BOOLEAN
    /\ flush \in [Flushes -> [at : {"idle", "fired", "looking"}, of : 0..MaxStarts,
                              todo : SUBSET Books, ready : SUBSET Books]]
    /\ queue \in [Sessions -> Seq(Books \cup {Stop})]
    /\ worker \in [Sessions -> {"none", "idle", "ended"} \cup Books]
    /\ left \in 0..MaxEvents
    /\ unsent \in [Books -> -MaxEvents..MaxEvents]
    /\ answered \subseteq Books

WatchInit ==
    /\ writing = {}
    /\ watch = "off" /\ session = 0
    /\ pending = [b \in Books |-> "no"]
    /\ timer = FALSE
    /\ flush = [f \in Flushes |-> IdleFlush]
    /\ queue = [s \in Sessions |-> <<>>]
    /\ worker = [s \in Sessions |-> "none"]
    /\ left = MaxEvents
    /\ unsent = [b \in Books |-> 0]
    /\ answered = {}

-----------------------------------------------------------------------------
\* The folder.  Only a creation and a move into place are announced, and only
\* for the extensions of books; that a writer is done is not.
Schedule(b) ==
    /\ pending' = [pending EXCEPT ![b] = "young"]
    /\ timer' = TRUE

Announce(b) ==
    /\ watch # "off" /\ left > 0
    /\ writing' \in {writing \cup {b}, writing \ {b}}
    /\ Schedule(b)
    /\ left' = left - 1
    /\ unsent' = [unsent EXCEPT ![b] = @ + 1]
    /\ answered' = answered \ {b}
    /\ UNCHANGED <<watch, session, flush, queue, worker>>

Written(b) ==
    /\ b \in writing
    /\ writing' = writing \ {b}
    /\ UNCHANGED <<watch, session, pending, timer, flush, queue, worker, left,
                   unsent, answered>>

-----------------------------------------------------------------------------
\* The timer set last fires when every book has had its time; one that has
\* fired cannot be called back, and finds younger books when it gets the lock.
Fire(f) ==
    /\ timer /\ flush[f].at = "idle"
    /\ f = CHOOSE g \in Flushes : flush[g].at = "idle"   \* threads are alike
    /\ timer' = FALSE
    /\ flush' = [flush EXCEPT ![f] = [IdleFlush EXCEPT !.at = "fired", !.of = session]]
    /\ pending' = [b \in Books |-> IF pending[b] = "young" THEN "due" ELSE pending[b]]
    /\ UNCHANGED <<writing, watch, session, queue, worker, left, unsent, answered>>

\* What a stopped watcher has pending goes to a queue that nobody reads, so a
\* thread of an earlier session has nothing to do.
Candidates(f) == {b \in Books : pending[b] = "due" /\ flush[f].of = session}

Looking(f) ==
    /\ flush[f].at = "fired"
    /\ flush' = [flush EXCEPT ![f].at = "looking", ![f].todo = Candidates(f)]
    /\ UNCHANGED <<writing, watch, session, timer, queue, worker, left, unsent, answered>>

\* Faulty: the books stay pending until they are looked at.
TakeAndKeep(f) == Looking(f) /\ UNCHANGED pending

\* Faulty: everything pending is cleared.
TakeAndClear(f) == Looking(f) /\ pending' = [b \in Books |-> "no"]

TakeDue(f) ==
    /\ Looking(f)
    /\ pending' = [b \in Books |-> IF b \in Candidates(f) THEN "no" ELSE pending[b]]

\* _is_file_stable: a book that grows is dropped, unless its writer pauses.
IsFileStable(f, b) ==
    /\ b \in flush[f].todo
    /\ \E stable \in IF b \in writing THEN BOOLEAN ELSE {TRUE} :
          flush' = [flush EXCEPT ![f].todo = @ \ {b},
                                 ![f].ready = IF stable THEN @ \cup {b} ELSE @]
    /\ UNCHANGED <<writing, watch, session, pending, timer, queue, worker, left,
                   unsent, answered>>

\* on_new_file, once all are looked at.
OnNewFile(f) ==
    /\ flush[f].at = "looking" /\ flush[f].todo = {}
    /\ \/ \E b \in flush[f].ready :
             /\ queue' = [queue EXCEPT ![flush[f].of] = Append(@, b)]
             /\ flush' = [flush EXCEPT ![f].ready = @ \ {b}]
       \/ /\ flush[f].ready = {}
          /\ flush' = [flush EXCEPT ![f] = IdleFlush]
          /\ UNCHANGED queue
    /\ UNCHANGED <<writing, watch, session, pending, timer, worker, left, unsent, answered>>

-----------------------------------------------------------------------------
\* _upload_worker of a session.
Busy(s) == worker[s] \in Books

\* Faulty: the mark is taken for a book.
TakeAnything(s) ==
    /\ worker[s] = "idle" /\ queue[s] # <<>>
    /\ queue' = [queue EXCEPT ![s] = Tail(@)]
    /\ worker' = [worker EXCEPT ![s] = Head(queue[s])]
    /\ UNCHANGED <<writing, watch, session, pending, timer, flush, left, unsent, answered>>

TakeNext(s) ==
    /\ worker[s] = "idle" /\ queue[s] # <<>>
    /\ queue' = [queue EXCEPT ![s] = Tail(@)]
    /\ worker' = [worker EXCEPT ![s] = IF Head(queue[s]) = Stop THEN "ended"
                                       ELSE Head(queue[s])]
    /\ UNCHANGED <<writing, watch, session, pending, timer, flush, left, unsent, answered>>

\* _upload_single_file, the turn of a book: devices get it, or the log tells that
\* none has, or that a lock was busy for 30 seconds and it was not even offered to
\* the uploader. Nothing else tells the three apart: it is not tried again.
UploadSingleFile(s) ==
    /\ Busy(s)
    /\ worker' = [worker EXCEPT ![s] = "idle"]
    /\ unsent' = [unsent EXCEPT ![worker[s]] = @ - 1]
    /\ answered' = answered \cup {worker[s]}
    /\ UNCHANGED <<writing, watch, session, pending, timer, flush, queue, left>>

-----------------------------------------------------------------------------
\* _toggle_watch: the worker is started before the watcher, and stays when the
\* watcher does not start.
StartWatch ==
    /\ watch = "off" /\ session < MaxStarts
    /\ session' = session + 1
    /\ worker' = [worker EXCEPT ![session'] = "idle"]
    /\ watch' \in {"on", "off"}
    /\ pending' = [b \in Books |-> "no"]
    /\ timer' = FALSE
    /\ UNCHANGED <<writing, flush, queue, left, unsent, answered>>

\* stop: the timer is cancelled first; until the observer has ended an event
\* may set another.
CancelTimer ==
    /\ watch = "on"
    /\ watch' = "stopping"
    /\ timer' = FALSE
    /\ UNCHANGED <<writing, session, pending, flush, queue, worker, left, unsent, answered>>

StopWatch ==
    /\ watch = "stopping"
    /\ watch' = "off"
    /\ queue' = [queue EXCEPT ![session] = Append(@, Stop)]
    /\ UNCHANGED <<writing, session, pending, timer, flush, worker, left, unsent, answered>>

-----------------------------------------------------------------------------
FlushStep(f) ==
    Fire(f) \/ TakeDue(f) \/ OnNewFile(f) \/ \E b \in Books : IsFileStable(f, b)

WorkerStep(s) == TakeNext(s) \/ UploadSingleFile(s)

WatchNext ==
    \/ \E b \in Books : Announce(b) \/ Written(b)
    \/ \E f \in Flushes : FlushStep(f)
    \/ \E s \in Sessions : WorkerStep(s)
    \/ StartWatch \/ CancelTimer \/ StopWatch

\* Timers fire and threads run; nothing is assumed of writers and the user.
WatchFairness ==
    /\ \A f \in Flushes : WF_watchVars(FlushStep(f))
    /\ \A s \in Sessions : WF_watchVars(WorkerStep(s))
    /\ WF_watchVars(StopWatch)

WatchSpec == WatchInit /\ [][WatchNext]_watchVars /\ WatchFairness

-----------------------------------------------------------------------------
\* A book has at most one turn, and so one upload, for each time it was announced,
\* however timers, checks and the queue overlap.
SentOncePerEvent == \A b \in Books : unsent[b] >= 0

\* A book whose writer is done before its time has come does not get lost between
\* the timers, the checks and the queue, however many others arrive meanwhile: its
\* turn comes, in which it is sent or the log tells why it is not, unless the watch
\* is stopped or it is written anew.
NewBooksAnswered ==
    \A b \in Books :
        pending[b] # "no" /\ b \notin writing
            ~> b \in answered \cup writing \/ watch = "off"
=============================================================================
