---------------------------- MODULE InstanceLock ----------------------------
(***************************************************************************)
(* The start and the end of the program (src/x3_websync.py): a window      *)
(* takes the instance lock, a file with its process number, and on Windows *)
(* a named mutex before it; a run started with --sync takes neither.       *)
(* Every call that touches the file is a step of its own, a process may    *)
(* die between any two of them, and the number of a dead process may be    *)
(* given to another program.                                               *)
(***************************************************************************)
EXTENDS Naturals, FiniteSets

CONSTANTS Procs,      \* process numbers
          NoOne,      \* no process
          Windows     \* TRUE: Windows; FALSE: another system

ASSUME InstanceAssumption == NoOne \notin Procs /\ Windows \in BOOLEAN

VARIABLES pc,       \* where the process with this number stands
          second,   \* the start is past its first attempt to create the file
          file,     \* the lock file: who made it, the number written in it,
                    \* and whether its maker still holds it open
          mutex,    \* the owner of the mutex
          foreign,  \* numbers in use by other programs
          met       \* history: another window was there during this start

lockVars == <<pc, second, file, mutex, foreign, met>>

NoFile == [by |-> NoOne, pid |-> NoOne, open |-> FALSE]
Acquiring == {"mutex", "look", "remove", "create", "write"}
Leaving == {"closing", "unlinked"}
Phases == {"off", "sync", "refused", "window"} \cup Acquiring \cup Leaving

LockTypeOK ==
    /\ pc \in [Procs -> Phases]
    /\ second \in [Procs -> BOOLEAN]
    /\ file \in [by : Procs \cup {NoOne}, pid : Procs \cup {NoOne}, open : BOOLEAN]
    /\ mutex \in Procs \cup {NoOne}
    /\ foreign \subseteq Procs
    /\ met \in [Procs -> BOOLEAN]

LockInit ==
    /\ pc = [p \in Procs |-> "off"]
    /\ second = [p \in Procs |-> FALSE]
    /\ file = NoFile
    /\ mutex = NoOne
    /\ foreign = {}
    /\ met = [p \in Procs |-> FALSE]

-----------------------------------------------------------------------------
\* _is_process_running asks for the number: any program of the user that has
\* it counts.
Running(p) == pc[p] # "off" \/ p \in foreign

InLock(p) == pc[p] \in {"window"} \cup Acquiring \cup Leaving

\* Faulty: a file without a number is left where it is.
StaleByNumber == file # NoFile /\ file.pid # NoOne /\ ~Running(file.pid)

\* An empty file counts as stale, and so does one whose process is gone.
Stale == file # NoFile /\ ~(file.pid \in Procs /\ Running(file.pid))

\* Windows does not remove a file that a process holds open.
Removable == file # NoFile /\ ~(Windows /\ file.open)

Closed(p) == IF file.by = p THEN [file EXCEPT !.open = FALSE] ELSE file

-----------------------------------------------------------------------------
Begin(p) ==
    /\ pc[p] = "off" /\ p \notin foreign
    /\ pc' = [pc EXCEPT ![p] = IF Windows THEN "mutex" ELSE "look"]
    /\ second' = [second EXCEPT ![p] = FALSE]
    /\ met' = [q \in Procs |-> IF q = p THEN \E o \in Procs : InLock(o)
                                        ELSE met[q] \/ InLock(q)]
    /\ UNCHANGED <<file, mutex, foreign>>

\* Faulty: that the mutex exists already is not looked at.
TakeAnyMutex(p) ==
    /\ pc[p] = "mutex"
    /\ mutex' = p /\ pc' = [pc EXCEPT ![p] = "look"]
    /\ UNCHANGED <<second, file, foreign, met>>

TakeMutex(p) ==
    /\ pc[p] = "mutex"
    /\ IF mutex = NoOne
       THEN mutex' = p /\ pc' = [pc EXCEPT ![p] = "look"]
       ELSE UNCHANGED mutex /\ pc' = [pc EXCEPT ![p] = "refused"]
    /\ UNCHANGED <<second, file, foreign, met>>

\* Both ways out of a start that fails; the mutex is given back.
GiveUp(p) ==
    /\ pc' = [pc EXCEPT ![p] = "refused"]
    /\ mutex' = IF mutex = p THEN NoOne ELSE mutex

\* _remove_stale_lock: the number is read and judged ...
Look(p) ==
    /\ pc[p] = "look"
    /\ \/ Stale /\ pc' = [pc EXCEPT ![p] = "remove"] /\ UNCHANGED mutex
       \/ ~Stale /\ ~second[p] /\ pc' = [pc EXCEPT ![p] = "create"] /\ UNCHANGED mutex
       \/ ~Stale /\ second[p] /\ GiveUp(p)
    /\ UNCHANGED <<second, file, foreign, met>>

\* ... and then whatever file is there is removed.
Remove(p) ==
    /\ pc[p] = "remove"
    /\ file' = IF Removable THEN NoFile ELSE file
    /\ IF second[p] /\ ~Removable
       THEN GiveUp(p)
       ELSE UNCHANGED mutex /\ pc' = [pc EXCEPT ![p] = "create"]
    /\ UNCHANGED <<second, foreign, met>>

Create(p) ==
    /\ pc[p] = "create"
    /\ \/ /\ file = NoFile
          /\ file' = [by |-> p, pid |-> NoOne, open |-> TRUE]
          /\ pc' = [pc EXCEPT ![p] = "write"]
          /\ UNCHANGED <<second, mutex>>
       \/ /\ file # NoFile /\ ~second[p]
          /\ pc' = [pc EXCEPT ![p] = "look"]
          /\ second' = [second EXCEPT ![p] = TRUE]
          /\ UNCHANGED <<file, mutex>>
       \/ /\ file # NoFile /\ second[p]
          /\ GiveUp(p)
          /\ UNCHANGED <<second, file>>
    /\ UNCHANGED <<foreign, met>>

\* The number goes into the process's own file, which may be removed by now.
Write(p) ==
    /\ pc[p] = "write"
    /\ file' = IF file.by = p /\ file.open THEN [file EXCEPT !.pid = p] ELSE file
    /\ pc' = [pc EXCEPT ![p] = "window"]
    /\ UNCHANGED <<second, mutex, foreign, met>>

\* release_instance_lock: the handle is closed, the file removed whoever made
\* it, and the mutex given back last.
Close(p) ==
    /\ pc[p] = "window"
    /\ file' = Closed(p)
    /\ pc' = [pc EXCEPT ![p] = "closing"]
    /\ UNCHANGED <<second, mutex, foreign, met>>

Unlink(p) ==
    /\ pc[p] = "closing"
    /\ file' = IF Removable THEN NoFile ELSE file
    /\ pc' = [pc EXCEPT ![p] = "unlinked"]
    /\ UNCHANGED <<second, mutex, foreign, met>>

Finish(p) ==
    /\ pc[p] \in {"unlinked", "refused", "sync"}
    /\ pc' = [pc EXCEPT ![p] = "off"]
    /\ mutex' = IF mutex = p THEN NoOne ELSE mutex
    /\ UNCHANGED <<second, file, foreign, met>>

\* A run with --sync takes no instance lock.
BeginSync(p) ==
    /\ pc[p] = "off" /\ p \notin foreign
    /\ pc' = [pc EXCEPT ![p] = "sync"]
    /\ UNCHANGED <<second, file, mutex, foreign, met>>

\* A process dies: the system closes its handles, the file stays.
Crash(p) ==
    /\ InLock(p)
    /\ pc' = [pc EXCEPT ![p] = "off"]
    /\ file' = Closed(p)
    /\ mutex' = IF mutex = p THEN NoOne ELSE mutex
    /\ UNCHANGED <<second, foreign, met>>

\* Another program gets, or gives back, the number.
Reuse(p) ==
    /\ pc[p] = "off"
    /\ foreign' = IF p \in foreign THEN foreign \ {p} ELSE foreign \cup {p}
    /\ UNCHANGED <<pc, second, file, mutex, met>>

LockStep(p) ==
    \/ Begin(p) \/ TakeMutex(p) \/ Look(p) \/ Remove(p) \/ Create(p) \/ Write(p)
    \/ Close(p) \/ Unlink(p) \/ Finish(p) \/ BeginSync(p) \/ Crash(p) \/ Reuse(p)

LockNext == \E p \in Procs : LockStep(p)
LockSpec == LockInit /\ [][LockNext]_lockVars

-----------------------------------------------------------------------------
\* On Windows the mutex is what makes the steps on the lock file safe: past it
\* there is one process at a time until it has also removed its file.
OneInLock ==
    Windows => \A p, q \in Procs :
        InLock(p) /\ InLock(q) /\ "mutex" \notin {pc[p], pc[q]} => p = q

\* A start is refused only if another window was there while it went on (or
\* was starting or ending), or the number in a file left behind is in use
\* again: whatever a crash leaves, it does not lock the user out.
RefusedForAReason ==
    [][\A p \in Procs :
          pc[p] # "refused" /\ pc'[p] = "refused" =>
              met[p] \/ (file.pid \in Procs /\ ~file.open /\ Running(file.pid))]_lockVars
=============================================================================
