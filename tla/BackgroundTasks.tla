--------------------------- MODULE BackgroundTasks ---------------------------
(***************************************************************************)
(* The background tasks of a session: SESSION_LIB/session.cc.  Tasks wait  *)
(* on a stack; one is forked when none runs, by the program or by the      *)
(* handler of SIGCHLD.  The handler runs at any point of the program, with *)
(* SIGCHLD blocked.                                                        *)
(***************************************************************************)
EXTENDS Integers, Sequences, FiniteSets

CONSTANTS
  Commands,       \* command lines, each handed over at most once
  NoCommand,
  MaxSystems,     \* bound: calls of system() by the session
  TaskFaultKinds  \* bound: the circumstances that may be met

\* window: the handler also runs inside RunTaskInBackground() or
\* StartBackgroundTask().
ASSUME BackgroundTasksConstants ==
  /\ NoCommand \notin Commands /\ MaxSystems \in Nat
  /\ TaskFaultKinds \subseteq {"window"}

VARIABLES
  tfaults,       \* the circumstances of this behaviour, chosen at the start
  head_task,     \* the tasks that wait, the first to be started first
  tpc,           \* where the program is
  new_task,      \* new_task, then just_started
  next_task,     \* new_task->next: the list head_task was
  fork_pid,      \* what fork() returned to the program
  child_pid, running_task,
  children,      \* external: the state of each process forked, by pid
  pending,       \* a SIGCHLD waits for delivery
  handed,        \* history: the tasks handed over
  forked,        \* history: the task of each process forked
  systems        \* history: how many calls of system() have returned

taskVars == <<tfaults, head_task, tpc, new_task, next_task, fork_pid, child_pid,
              running_task, children, pending, handed, forked, systems>>

TaskInit ==
  /\ tfaults \in SUBSET TaskFaultKinds
  /\ head_task = <<>> /\ tpc = "idle" /\ new_task = NoCommand /\ next_task = <<>>
  /\ fork_pid = 0 /\ child_pid = 0 /\ running_task = NoCommand
  /\ children = <<>> /\ pending = FALSE
  /\ handed = {} /\ forked = <<>> /\ systems = 0

Running == {i \in DOMAIN children : children[i] = "running"}
Zombies == {i \in DOMAIN children : children[i] = "zombie"}

-----------------------------------------------------------------------------
(* RunTaskInBackground() and StartBackgroundTask(SYNCHRONOUS).             *)

\* new_task->next = head_task.
RunTaskInBackground(t) ==
  /\ tpc = "idle" /\ t \notin handed
  /\ handed' = handed \cup {t}
  /\ new_task' = t /\ next_task' = head_task
  /\ tpc' = "push"
  /\ UNCHANGED <<tfaults, head_task, fork_pid, child_pid, running_task, children,
                 pending, forked, systems>>

\* head_task = new_task.
PushTask ==
  /\ tpc = "push"
  /\ head_task' = <<new_task>> \o next_task
  /\ next_task' = <<>> /\ new_task' = NoCommand
  /\ tpc' = "test"
  /\ UNCHANGED <<tfaults, fork_pid, child_pid, running_task, children, pending,
                 handed, forked, systems>>

\* Mutant: child_pid is not looked at.
M_TestChild ==
  /\ tpc = "test"
  /\ IF head_task # <<>>
     THEN tpc' = "take" /\ new_task' = Head(head_task)
     ELSE tpc' = "idle" /\ UNCHANGED new_task
  /\ UNCHANGED <<tfaults, head_task, next_task, fork_pid, child_pid, running_task,
                 children, pending, handed, forked, systems>>

\* Nothing runs, and just_started = head_task.
TestChild ==
  /\ tpc = "test"
  /\ IF child_pid = 0 /\ head_task # <<>>
     THEN tpc' = "take" /\ new_task' = Head(head_task)
     ELSE tpc' = "idle" /\ UNCHANGED new_task
  /\ UNCHANGED <<tfaults, head_task, next_task, fork_pid, child_pid, running_task,
                 children, pending, handed, forked, systems>>

\* Mutant: the task stays on the list.
M_TakeTask ==
  /\ tpc = "take"
  /\ running_task' = new_task /\ tpc' = "fork"
  /\ UNCHANGED <<tfaults, head_task, new_task, next_task, fork_pid, child_pid, children,
                 pending, handed, forked, systems>>

\* head_task = head_task->next, through a null pointer when the handler took
\* the last task.
TakeTask ==
  /\ tpc = "take"
  /\ IF head_task = <<>>
     THEN tpc' = "crashed" /\ UNCHANGED <<head_task, running_task>>
     ELSE /\ head_task' = Tail(head_task) /\ running_task' = new_task
          /\ tpc' = "fork"
  /\ UNCHANGED <<tfaults, new_task, next_task, fork_pid, child_pid, children, pending,
                 handed, forked, systems>>

ForkTask ==
  /\ tpc = "fork"
  /\ children' = Append(children, "running") /\ forked' = Append(forked, new_task)
  /\ new_task' = NoCommand
  /\ fork_pid' = Len(children) + 1
  /\ tpc' = "store"
  /\ UNCHANGED <<tfaults, head_task, next_task, child_pid, running_task, pending, handed, systems>>

\* child_pid gets what fork() returned.
StoreChild ==
  /\ tpc = "store"
  /\ child_pid' = fork_pid /\ fork_pid' = 0
  /\ tpc' = "idle"
  /\ UNCHANGED <<tfaults, head_task, new_task, next_task, running_task, children,
                 pending, handed, forked, systems>>

-----------------------------------------------------------------------------
(* SigChildHandler().                                                      *)

\* waitpid(child_pid, WNOHANG): the processes it may reap; a pid of 0 stands
\* for any child.
Awaited == IF child_pid = 0 THEN DOMAIN children ELSE {child_pid}
Reapable == Zombies \cap Awaited

\* Nothing to reap, and no child that could be waited for: -1.
NoChild == Awaited \cap (Zombies \cup Running) = {}

\* Mutant: the handler does not start the next task.
M_NextTask(cs) ==
  child_pid' = 0 /\ running_task' = NoCommand /\ children' = cs
  /\ UNCHANGED <<head_task, forked>>

\* Nothing runs any more, and StartBackgroundTask() inside the handler; the
\* processes are cs.
NextTask(cs) ==
  IF head_task = <<>>
  THEN /\ child_pid' = 0 /\ running_task' = NoCommand
       /\ children' = cs /\ UNCHANGED <<head_task, forked>>
  ELSE /\ head_task' = Tail(head_task) /\ running_task' = Head(head_task)
       /\ children' = Append(cs, "running") /\ forked' = Append(forked, Head(head_task))
       /\ child_pid' = Len(cs) + 1

Interruptible ==
  \/ tpc = "idle"
  \/ "window" \in tfaults /\ tpc # "crashed"

\* A child that was waited for has ended, or one is still running: waitpid()
\* then returns 0, which counts as ended.
ChildEnded ==
  /\ pending /\ Interruptible /\ ~NoChild
  /\ IF Reapable = {} THEN NextTask(children)
     ELSE \E i \in Reapable : NextTask([children EXCEPT ![i] = "reaped"])
  /\ pending' = FALSE
  /\ UNCHANGED <<tfaults, tpc, new_task, next_task, fork_pid, handed, systems>>

\* waitpid() fails.
NoChildEnded ==
  /\ pending /\ Interruptible /\ NoChild
  /\ pending' = FALSE
  /\ UNCHANGED <<tfaults, head_task, tpc, new_task, next_task, fork_pid, child_pid,
                 running_task, children, handed, forked, systems>>

-----------------------------------------------------------------------------
(* The processes.                                                          *)

ProcessEnds(i) ==
  /\ children[i] = "running"
  /\ children' = [children EXCEPT ![i] = "zombie"]
  /\ pending' = TRUE
  /\ UNCHANGED <<tfaults, head_task, tpc, new_task, next_task, fork_pid, child_pid,
                 running_task, handed, forked, systems>>

\* A call of system() returns: it has waited for its own child, and the SIGCHLD
\* of that, blocked meanwhile, is delivered now.
SystemReturns ==
  /\ systems < MaxSystems /\ tpc = "idle"
  /\ systems' = systems + 1
  /\ pending' = TRUE
  /\ UNCHANGED <<tfaults, head_task, tpc, new_task, next_task, fork_pid, child_pid,
                 running_task, children, handed, forked>>

TaskStep ==
  \/ PushTask \/ TestChild \/ TakeTask \/ ForkTask \/ StoreChild
  \/ ChildEnded \/ NoChildEnded

TaskNext ==
  \/ TaskStep \/ SystemReturns
  \/ \E t \in Commands : RunTaskInBackground(t)
  \/ \E i \in DOMAIN children : ProcessEnds(i)

TaskSpec == TaskInit /\ [][TaskNext]_taskVars

\* The program and its handler run, and every process ends.
TaskEnds == \E i \in DOMAIN children : ProcessEnds(i)
TaskFairSpec == TaskSpec /\ WF_taskVars(TaskStep) /\ WF_taskVars(TaskEnds)

-----------------------------------------------------------------------------
(* Properties.                                                             *)

TaskPlaces == {"idle", "push", "test", "take", "fork", "store", "crashed"}

\* Every variable stays in its set.
TaskTypeOK ==
  /\ tfaults \subseteq TaskFaultKinds
  /\ head_task \in Seq(Commands) /\ tpc \in TaskPlaces
  /\ new_task \in Commands \cup {NoCommand}
  /\ tpc \in {"push", "take", "fork"} => new_task \in Commands
  /\ next_task \in Seq(Commands) /\ fork_pid \in 0 .. Len(children)
  /\ running_task \in Commands \cup {NoCommand}
  /\ children \in Seq({"running", "zombie", "reaped"}) /\ forked \in Seq(Commands)
  /\ Len(forked) = Len(children) /\ child_pid \in 0 .. Len(children)
  /\ pending \in BOOLEAN /\ handed \subseteq Commands /\ systems \in 0 .. MaxSystems

\* A task is forked at most once, none is on the stack twice or after it was
\* forked, and the program does not crash, as long as the handler runs only
\* outside the functions; the session's calls of system() do not matter.
StartedOnce ==
  "window" \notin tfaults =>
    /\ tpc # "crashed"
    /\ \A i, k \in DOMAIN forked : forked[i] = forked[k] => i = k
    /\ \A i, k \in DOMAIN head_task : head_task[i] = head_task[k] => i = k
    /\ \A i \in DOMAIN head_task, k \in DOMAIN forked : head_task[i] # forked[k]

\* SigChildHandler() takes the end of any child for that of the task: each call
\* of system() lets at most one more task run beside the one that is meant to run
\* alone, and no other order of signals and calls lets any.  At rest, and without
\* a signal to come, child_pid is a task that runs (session.cc:643: it "is set
\* to 0 whenever there is no background process running"), and when it is 0 no
\* more tasks run than system() was called.
OneAtATime ==
  "window" \notin tfaults =>
    /\ Cardinality(Running) <= 1 + systems
    /\ tpc = "idle" /\ ~pending =>
         IF child_pid # 0 THEN child_pid \in Running
         ELSE Cardinality(Running) <= systems

\* A task that is handed over is forked in the end, unless the handler ran
\* inside the functions.
AllStarted ==
  \A t \in Commands :
    t \in handed /\ "window" \notin tfaults ~> \E i \in DOMAIN forked : forked[i] = t
=============================================================================
