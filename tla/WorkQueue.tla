------------------------------ MODULE WorkQueue ------------------------------
(***************************************************************************)
(* The work queue of a night: DATA_LIB/work_queue.cc, its writers in       *)
(* SESSION_LIB/session.cc and its readers, TOOLS/WORKER/worker.cc.  One    *)
(* append-only file of lines, opened by several sessions and workers, each *)
(* with its own list of the lines it has seen; flock() orders them and     *)
(* inotify wakes the readers.  A worker may be killed and started again.   *)
(* Prerequisite files appear, each in a directory of its own (the case     *)
(* with the fewest wake-ups), and are never removed.                       *)
(***************************************************************************)
EXTENDS Integers, Sequences

CONSTANTS
  Sessions, Workers,  \* the processes
  Files,              \* prerequisite files, each listed at most once
  Tasks,              \* command lines, each submitted at most once
  None,               \* no process, no task
  Faults              \* a subset of FaultKinds

\* crash: a worker is killed;  sigchld: a child of a session ends while the
\* session waits in flock(), which then returns -1 with errno EINTR.
FaultKinds == {"crash", "sigchld"}

ASSUME WorkQueueConstants ==
  /\ None \notin Sessions \cup Workers \cup Tasks
  /\ Sessions \cap Workers = {} /\ Files \cap Tasks = {}
  /\ Faults \subseteq FaultKinds

Processes == Sessions \cup Workers

\* The i-th line of a file gets the UID of the i - 1 lines before it.
UidAfter(n) == n * 7 + 1000
WQ_None == -1

\* A line: what is written is its UID and its text, of which the first four
\* characters are the keyword.  DONE overwrites TASK and keeps the command.
Text == [kind : {"TASK", "DONE"}, arg : Tasks] \cup [kind : {"PREQ"}, arg : Files]
        \cup [kind : {"FINI"}, arg : {0}]
Line == [uid : Nat, text : Text]

VARIABLES
  file,      \* the lines of work.queue
  holder,    \* the process whose descriptor has the flock
  seen,      \* all_lines of each process: the UIDs it has read
  event,     \* an IN_MODIFY of the file waits for a worker's read()
  spc,       \* where each session is in AddToQueue()
  text,      \* the line the session adds
  where,     \* the line number lseek(SEEK_END) gave it
  wpc,       \* where each worker is
  current,   \* current_uid
  length,    \* initial_length of ReleaseAndWaitForChange()
  todo,      \* the task ReadOneInputLine() returned
  finished,  \* it returned a FINI
  prereqs,   \* all_prerequisites
  watched,   \* the files whose directory the worker watches
  dirEvent,  \* an event of a watched directory waits
  exists,    \* external: the files that exist
  ran        \* history: the tasks started, in order

sessionVars == <<spc, text, where>>
readerVars == <<current, length, todo, finished>>
prereqVars == <<prereqs, watched, dirEvent>>
vars == <<file, holder, seen, event, sessionVars, wpc, readerVars, prereqVars,
          exists, ran>>

Fini == [kind |-> "FINI", arg |-> 0]

Init ==
  /\ file = <<>> /\ holder = None
  /\ seen = [p \in Processes |-> <<>>]
  /\ event = [w \in Workers |-> FALSE]
  /\ spc = [s \in Sessions |-> "off"]
  /\ text = [s \in Sessions |-> Fini]
  /\ where = [s \in Sessions |-> 0]
  /\ wpc = [w \in Workers |-> "off"]
  /\ current = [w \in Workers |-> WQ_None]
  /\ length = [w \in Workers |-> 0]
  /\ todo = [w \in Workers |-> None]
  /\ finished = [w \in Workers |-> FALSE]
  /\ prereqs = [w \in Workers |-> {}]
  /\ watched = [w \in Workers |-> {}]
  /\ dirEvent = [w \in Workers |-> FALSE]
  /\ exists = {}
  /\ ran = <<>>

-----------------------------------------------------------------------------
(* WorkQueue.                                                              *)

\* Mutant: the known lines are not skipped.
M_SyncFile(known) == known \o [i \in DOMAIN file |-> file[i].uid]

\* SyncFile(): the known lines are verified, the new ones added.
SyncFile(known) ==
  [i \in 1 .. Len(file) |-> IF i <= Len(known) THEN known[i] ELSE file[i].uid]

\* The flock of process p, which other processes may wait for, is given back.
Unlocked(p) == IF holder = p THEN None ELSE holder

\* FindUID(): the first line with that UID.
FindUID(lines, uid) ==
  CHOOSE i \in DOMAIN lines : lines[i] = uid /\ \A k \in 1 .. i - 1 : lines[k] # uid

\* A write to the file is an event for every worker that watches it, the
\* writer too; equal events in the queue are merged into one.
Watching == {w \in Workers : wpc[w] # "off"}
Modified == [w \in Workers |-> event[w] \/ w \in Watching]

-----------------------------------------------------------------------------
(* AddToQueue().                                                           *)

Submitted(x) == \/ \E i \in DOMAIN file : file[i].text.arg = x
                \/ \E s \in Sessions : spc[s] \notin {"off", "idle"} /\ text[s].arg = x

\* SubmitWorkTask(), an ANALY_PREREQ of the parameters, the end of the night.
Lines == [kind : {"TASK"}, arg : {t \in Tasks : ~Submitted(t)}]
         \cup [kind : {"PREQ"}, arg : {f \in Files : ~Submitted(f)}]
         \cup {Fini}

\* The constructor reads the file without the lock.
Open(s) ==
  /\ spc[s] = "off"
  /\ spc' = [spc EXCEPT ![s] = "idle"]
  /\ seen' = [seen EXCEPT ![s] = SyncFile(<<>>)]
  /\ UNCHANGED <<file, holder, event, text, where, wpc, readerVars, prereqVars, exists,
                 ran>>

\* GetLock() waits for the lock.
AddToQueue(s) ==
  /\ spc[s] = "idle" /\ holder = None
  /\ holder' = s
  /\ \E t \in Lines : text' = [text EXCEPT ![s] = t]
  /\ spc' = [spc EXCEPT ![s] = "sync"]
  /\ UNCHANGED <<file, seen, event, where, wpc, readerVars, prereqVars, exists, ran>>

\* GetLock() compares the result of flock() with EINTR, which is only put into
\* errno: the error is printed and AddToQueue() goes on without the lock.
LockInterrupted(s) ==
  /\ "sigchld" \in Faults
  /\ spc[s] = "idle" /\ holder # None
  /\ \E t \in Lines : text' = [text EXCEPT ![s] = t]
  /\ spc' = [spc EXCEPT ![s] = "sync"]
  /\ UNCHANGED <<file, holder, seen, event, where, wpc, readerVars, prereqVars, exists,
                 ran>>

\* SyncFile() and lseek(SEEK_END).
Measure(s) ==
  /\ spc[s] = "sync"
  /\ seen' = [seen EXCEPT ![s] = SyncFile(@)]
  /\ where' = [where EXCEPT ![s] = Len(file) + 1]
  /\ spc' = [spc EXCEPT ![s] = "write"]
  /\ UNCHANGED <<file, holder, event, text, wpc, readerVars, prereqVars, exists, ran>>

\* write() where the end of the file was, and ReleaseLock().
Write(s) ==
  LET uid == UidAfter(Len(seen[s]))
      line == [uid |-> uid, text |-> text[s]]
  IN
  /\ spc[s] = "write"
  /\ file' = [i \in 1 .. Len(file) \cup {where[s]} |->
                IF i = where[s] THEN line ELSE file[i]]
  /\ seen' = [seen EXCEPT ![s] = Append(@, uid)]
  /\ event' = Modified
  /\ holder' = Unlocked(s)
  /\ spc' = [spc EXCEPT ![s] = IF text[s] = Fini THEN "over" ELSE "idle"]
  /\ UNCHANGED <<text, where, wpc, readerVars, prereqVars, exists, ran>>

-----------------------------------------------------------------------------
(* The worker: ReadOneInputLine().                                         *)

\* The constructor reads the file without the lock; then the watch is set.
Start(w) ==
  /\ wpc[w] = "off"
  /\ wpc' = [wpc EXCEPT ![w] = "idle"]
  /\ seen' = [seen EXCEPT ![w] = SyncFile(<<>>)]
  /\ UNCHANGED <<file, holder, event, sessionVars, readerVars, prereqVars, exists, ran>>

WorkerLock(w) ==
  /\ wpc[w] = "idle" /\ holder = None
  /\ holder' = w
  /\ wpc' = [wpc EXCEPT ![w] = "locked"]
  /\ UNCHANGED <<file, seen, event, sessionVars, readerVars, prereqVars, exists, ran>>

\* GetFirstLineUID() or NextUIDWait(): the lines after the current one.  An
\* unknown current_uid would make NextUIDWait() spin with the lock held.
Following(w) ==
  LET lines == SyncFile(seen[w]) IN
  IF current[w] = WQ_None THEN 1 .. Len(lines)
  ELSE {i \in 2 .. Len(lines) : \E k \in 1 .. i - 1 : lines[k] = current[w]}

\* GetLine() and what the keyword asks for; a TASK is taken only once it is
\* marked, the others end the locked section here.
TakeLine(w) ==
  LET lines == SyncFile(seen[w]) IN
  /\ wpc[w] = "locked"
  /\ seen' = [seen EXCEPT ![w] = lines]
  /\ \E i \in Following(w) :
       LET t == file[FindUID(lines, lines[i])].text IN
       /\ \A k \in Following(w) : i <= k
       /\ current' = [current EXCEPT ![w] = lines[i]]
       /\ \/ /\ t.kind = "TASK"
             /\ todo' = [todo EXCEPT ![w] = t.arg]
             /\ wpc' = [wpc EXCEPT ![w] = "mark"]
             /\ UNCHANGED <<holder, finished, prereqs, watched>>
          \/ /\ t.kind = "PREQ"
             /\ prereqs' = [prereqs EXCEPT ![w] = @ \cup {t.arg}]
             /\ watched' = [watched EXCEPT ![w] = @ \cup ({t.arg} \ exists)]
             /\ wpc' = [wpc EXCEPT ![w] = "flush"] /\ holder' = Unlocked(w)
             /\ UNCHANGED <<todo, finished>>
          \/ /\ t.kind \in {"FINI", "DONE"}
             /\ finished' = [finished EXCEPT ![w] = t.kind = "FINI"]
             /\ wpc' = [wpc EXCEPT ![w] = "flush"] /\ holder' = Unlocked(w)
             /\ UNCHANGED <<todo, prereqs, watched>>
  /\ UNCHANGED <<file, event, sessionVars, length, dirEvent, exists, ran>>

\* Mutant: the line is not marked.
M_MarkLine(w) ==
  /\ wpc[w] = "mark"
  /\ holder' = Unlocked(w)
  /\ wpc' = [wpc EXCEPT ![w] = "flush"]
  /\ UNCHANGED <<file, seen, event, sessionVars, readerVars, prereqVars, exists, ran>>

\* DeleteLine() and UnlockQueue().
MarkLine(w) ==
  LET lines == SyncFile(seen[w])
      i == FindUID(lines, current[w])
  IN
  /\ wpc[w] = "mark"
  /\ seen' = [seen EXCEPT ![w] = lines]
  /\ file' = [file EXCEPT ![i].text.kind = "DONE"]
  /\ event' = Modified
  /\ holder' = Unlocked(w)
  /\ wpc' = [wpc EXCEPT ![w] = "flush"]
  /\ UNCHANGED <<sessionVars, readerVars, prereqVars, exists, ran>>

\* Mutant: the lock is released before the length is taken.
M_NoLine(w) ==
  /\ wpc[w] = "locked" /\ Following(w) = {}
  /\ seen' = [seen EXCEPT ![w] = SyncFile(@)]
  /\ holder' = Unlocked(w)
  /\ wpc' = [wpc EXCEPT ![w] = "measure"]
  /\ UNCHANGED <<file, event, sessionVars, readerVars, prereqVars, exists, ran>>

\* There is no line yet.
NoLine(w) ==
  /\ wpc[w] = "locked" /\ Following(w) = {}
  /\ seen' = [seen EXCEPT ![w] = SyncFile(@)]
  /\ wpc' = [wpc EXCEPT ![w] = "measure"]
  /\ UNCHANGED <<file, holder, event, sessionVars, readerVars, prereqVars, exists, ran>>

\* ReleaseAndWaitForChange(): the length is taken before the lock is released.
ReleaseAndWait(w) ==
  /\ wpc[w] = "measure"
  /\ length' = [length EXCEPT ![w] = Len(file)]
  /\ holder' = Unlocked(w)
  /\ wpc' = [wpc EXCEPT ![w] = "wait"]
  /\ UNCHANGED <<file, seen, event, sessionVars, current, todo, finished, prereqVars,
                 exists, ran>>

\* read() of an event, and the length again.
Awake(w) ==
  /\ wpc[w] = "wait" /\ event[w]
  /\ event' = [event EXCEPT ![w] = FALSE]
  /\ wpc' = [wpc EXCEPT ![w] = IF Len(file) = length[w] THEN "wait" ELSE "idle"]
  /\ UNCHANGED <<file, holder, seen, sessionVars, readerVars, prereqVars, exists, ran>>

-----------------------------------------------------------------------------
(* The worker: Prerequisites and DoTask().                                 *)

FlushNotificationQueue(w) ==
  /\ wpc[w] = "flush"
  /\ dirEvent' = [dirEvent EXCEPT ![w] = FALSE]
  /\ wpc' = [wpc EXCEPT ![w] = "check"]
  /\ UNCHANGED <<file, holder, seen, event, sessionVars, readerVars, prereqs, watched,
                 exists, ran>>

\* Mutant: Satisfied() returns instead of waiting, and the main loop goes on.
M_Unsatisfied(w) ==
  /\ wpc[w] = "check" /\ ~(prereqs[w] \subseteq exists)
  /\ wpc' = [wpc EXCEPT ![w] = "idle"]
  /\ todo' = [todo EXCEPT ![w] = None]
  /\ UNCHANGED <<file, holder, seen, event, sessionVars, current, length, finished,
                 prereqVars, exists, ran>>

\* UpdateSatisfied(): a file is missing, and Satisfied() reads the next event.
Unsatisfied(w) ==
  /\ wpc[w] = "check" /\ ~(prereqs[w] \subseteq exists)
  /\ wpc' = [wpc EXCEPT ![w] = "blocked"]
  /\ UNCHANGED <<file, holder, seen, event, sessionVars, readerVars, prereqVars, exists,
                 ran>>

\* The read() of Satisfied() returns.
Notified(w) ==
  /\ wpc[w] = "blocked" /\ dirEvent[w]
  /\ dirEvent' = [dirEvent EXCEPT ![w] = FALSE]
  /\ wpc' = [wpc EXCEPT ![w] = "check"]
  /\ UNCHANGED <<file, holder, seen, event, sessionVars, readerVars, prereqs, watched,
                 exists, ran>>

\* Mutant: an empty task is not told from a task.
M_DoTask(w) ==
  /\ wpc[w] = "check" /\ prereqs[w] \subseteq exists
  /\ ran' = Append(ran, todo[w])
  /\ todo' = [todo EXCEPT ![w] = None]
  /\ wpc' = [wpc EXCEPT ![w] = IF finished[w] THEN "over" ELSE "idle"]
  /\ UNCHANGED <<file, holder, seen, event, sessionVars, current, length, finished,
                 prereqVars, exists>>

\* Satisfied() returns, DoTask() and the condition of the main loop.
DoTask(w) ==
  /\ wpc[w] = "check" /\ prereqs[w] \subseteq exists
  /\ ran' = IF todo[w] = None THEN ran ELSE Append(ran, todo[w])
  /\ todo' = [todo EXCEPT ![w] = None]
  /\ wpc' = [wpc EXCEPT ![w] = IF finished[w] THEN "over" ELSE "idle"]
  /\ UNCHANGED <<file, holder, seen, event, sessionVars, current, length, finished,
                 prereqVars, exists>>

-----------------------------------------------------------------------------
(* The environment.                                                        *)

CreateFile(f) ==
  /\ f \notin exists
  /\ exists' = exists \cup {f}
  /\ dirEvent' = [w \in Workers |-> dirEvent[w] \/ f \in watched[w]]
  /\ UNCHANGED <<file, holder, seen, event, sessionVars, wpc, readerVars, prereqs,
                 watched, ran>>

\* A worker is killed: its lock, its watches and its memory go with it.
Crash(w) ==
  /\ "crash" \in Faults /\ wpc[w] \notin {"off", "over"}
  /\ wpc' = [wpc EXCEPT ![w] = "off"]
  /\ holder' = Unlocked(w)
  /\ seen' = [seen EXCEPT ![w] = <<>>]
  /\ event' = [event EXCEPT ![w] = FALSE]
  /\ current' = [current EXCEPT ![w] = WQ_None]
  /\ length' = [length EXCEPT ![w] = 0]
  /\ todo' = [todo EXCEPT ![w] = None]
  /\ finished' = [finished EXCEPT ![w] = FALSE]
  /\ prereqs' = [prereqs EXCEPT ![w] = {}]
  /\ watched' = [watched EXCEPT ![w] = {}]
  /\ dirEvent' = [dirEvent EXCEPT ![w] = FALSE]
  /\ UNCHANGED <<file, sessionVars, exists, ran>>

-----------------------------------------------------------------------------
(* The specification.                                                      *)

SessionStep(s) ==
  \/ Open(s) \/ AddToQueue(s) \/ LockInterrupted(s) \/ Measure(s) \/ Write(s)

WorkerStep(w) ==
  \/ Start(w) \/ WorkerLock(w) \/ TakeLine(w) \/ MarkLine(w) \/ NoLine(w)
  \/ ReleaseAndWait(w) \/ Awake(w) \/ FlushNotificationQueue(w) \/ Unsatisfied(w)
  \/ Notified(w) \/ DoTask(w)

Next ==
  \/ \E s \in Sessions : SessionStep(s)
  \/ \E w \in Workers : WorkerStep(w) \/ Crash(w)
  \/ \E f \in Files : CreateFile(f)

Spec == Init /\ [][Next]_vars

\* A session that began to add a line ends it, workers run, and the files
\* other programs are to make appear in the end.
Fairness ==
  /\ \A s \in Sessions : WF_vars(Measure(s) \/ Write(s))
  /\ \A w \in Workers : WF_vars(WorkerStep(w))
  /\ \A f \in Files : WF_vars(CreateFile(f))

FairSpec == Spec /\ Fairness

-----------------------------------------------------------------------------
(* Properties.                                                             *)

WorkerPlaces == {"off", "idle", "locked", "mark", "measure", "wait", "flush", "check",
                 "blocked", "over"}

\* Every variable stays in its set.
TypeOK ==
  /\ file \in Seq(Line) /\ holder \in Processes \cup {None}
  /\ seen \in [Processes -> Seq(Nat)] /\ event \in [Workers -> BOOLEAN]
  /\ spc \in [Sessions -> {"off", "idle", "sync", "write", "over"}]
  /\ text \in [Sessions -> Text] /\ where \in [Sessions -> Nat]
  /\ wpc \in [Workers -> WorkerPlaces]
  /\ current \in [Workers -> Nat \cup {WQ_None}] /\ length \in [Workers -> Nat]
  /\ todo \in [Workers -> Tasks \cup {None}] /\ finished \in [Workers -> BOOLEAN]
  /\ prereqs \in [Workers -> SUBSET Files] /\ watched \in [Workers -> SUBSET Files]
  /\ dirEvent \in [Workers -> BOOLEAN]
  /\ exists \subseteq Files /\ ran \in Seq(Tasks)

\* "Integrity check failed" of SyncFile() is never printed: the UIDs a process
\* remembers are those of the lines in the file, whichever processes wrote or
\* marked lines since, and no two lines share a UID.
IntegrityHolds ==
  /\ \A p \in Processes : \A i \in DOMAIN seen[p] :
       i \in DOMAIN file /\ file[i].uid = seen[p][i]
  /\ \A i, k \in DOMAIN file : file[i].uid = file[k].uid => i = k

\* A worker that sleeps while the file has a line it has not seen has an event
\* to read, and the length it compares with will let it go on.
NoLostWakeup ==
  \A w \in Workers : wpc[w] = "wait" /\ Len(file) # Len(seen[w]) =>
    event[w] /\ length[w] # Len(file)

\* work_queue.cc:62, "repeat": GetLock() ends only with the lock, so a session
\* that measures or writes the file holds it.
WriterHoldsLock ==
  \A s \in Sessions : spc[s] \in {"sync", "write"} => holder = s

\* The queue keeps what WorkLog promises: lines are only appended and never
\* changed but by DONE, a task is started at most once, by whichever worker,
\* before or after a crash, and only once every prerequisite file listed
\* before it exists.
LogOf(t) == IF t.kind = "DONE" THEN [t EXCEPT !.kind = "TASK"] ELSE t
Log == INSTANCE WorkLog WITH log <- [i \in DOMAIN file |-> LogOf(file[i].text)]
Implements == Log!Spec

\* A task that was added before any FINI is started in the end, when no worker
\* is killed.
Waits(t) ==
  \E i \in DOMAIN file :
    /\ file[i].text = [kind |-> "TASK", arg |-> t]
    /\ \A k \in 1 .. i - 1 : file[k].text.kind # "FINI"
TaskStarts ==
  \A t \in Tasks : Waits(t) ~> \E k \in DOMAIN ran : ran[k] = t
=============================================================================
