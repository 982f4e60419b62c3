---------------------------- MODULE SignalProofs -----------------------------
(****************************************************************************)
(* Proofs about BackgroundTasks and ImageNotify, the two places where signal*)
(* handlers meet the program: a task is started at most once, how many run *)
(* at a time, and the observer is shown a whole name, for any number of tasks,  *)
(* programs and names.                                                     *)
(****************************************************************************)
EXTENDS BackgroundTasks, ImageNotify, FiniteSetTheorems, SequenceTheorems, TLAPS

-----------------------------------------------------------------------------
(****************************************************************************)
(* BackgroundTasks.                                                        *)
(****************************************************************************)

\* No task is twice in the stack s and the processes f.
Apart(s, f) ==
  /\ \A i, k \in DOMAIN s : s[i] = s[k] => i = k
  /\ \A i, k \in DOMAIN f : f[i] = f[k] => i = k
  /\ \A i \in DOMAIN s, k \in DOMAIN f : s[i] # f[k]

New(t, s, f) == (\A i \in DOMAIN s : s[i] # t) /\ (\A k \in DOMAIN f : f[k] # t)
Within(s, S) == \A i \in DOMAIN s : s[i] \in S

\* What the program holds outside of the stack is not in it, at the places where
\* no handler comes between.
TasksApart ==
  "window" \notin tfaults =>
    /\ tpc # "crashed"
    /\ Apart(head_task, forked) /\ Within(head_task, handed) /\ Within(forked, handed)
    /\ tpc = "push" =>
         next_task = head_task /\ New(new_task, head_task, forked) /\ new_task \in handed
    /\ tpc = "take" => head_task # <<>> /\ new_task = Head(head_task)
    /\ tpc = "fork" => New(new_task, head_task, forked) /\ new_task \in handed

\* The process that the session knows of, or is about to.
Current == IF tpc = "store" THEN fork_pid ELSE child_pid

\* What may become a task beside those that run: the handler or the program may
\* start one when child_pid is 0, a signal may set it to 0, and only a call of
\* system() adds a signal that is not the end of a task.
Free == IF child_pid = 0 /\ tpc # "store" THEN 1 ELSE 0
Signal == IF pending THEN 1 ELSE 0

\* The process that is known runs, or has ended with a signal that is pending.
OneProcess ==
  "window" \notin tfaults =>
    /\ tpc \in {"take", "fork", "store"} => child_pid = 0
    /\ tpc = "store" => fork_pid # 0
    /\ Current # 0 => \/ children[Current] = "running"
                      \/ children[Current] = "zombie" /\ pending
    /\ Cardinality(Running) + Free + Signal <= 1 + systems

TaskInv == TaskTypeOK /\ TasksApart /\ OneProcess

-----------------------------------------------------------------------------
(* Lemmas about the stack and the processes.                               *)

LEMMA Pushed ==
  ASSUME NEW s \in Seq(Commands), NEW f \in Seq(Commands), NEW t \in Commands,
         Apart(s, f), New(t, s, f), NEW H, Within(s, H), t \in H
  PROVE  /\ <<t>> \o s \in Seq(Commands) /\ Apart(<<t>> \o s, f) /\ Within(<<t>> \o s, H)
<1> DEFINE u == <<t>> \o s
<1>1. /\ u \in Seq(Commands) /\ DOMAIN u = 1 .. Len(s) + 1
      /\ u[1] = t /\ \A i \in 2 .. Len(s) + 1 : u[i] = s[i - 1]
      /\ DOMAIN s = 1 .. Len(s) /\ Len(s) \in Nat
  OBVIOUS
<1> HIDE DEF u
<1>2. \A i \in 2 .. Len(s) + 1 : i - 1 \in DOMAIN s
  BY <1>1
<1>5. \A i \in DOMAIN u : u[i] = t \/ \E k \in DOMAIN s : u[i] = s[k]
  <2> TAKE i \in DOMAIN u
  <2>1. i = 1 \/ i \in 2 .. Len(s) + 1
    BY <1>1
  <2> QED  BY <1>1, <1>2, <2>1
<1>3. Apart(u, f)
  <2>1. \A i, k \in DOMAIN u : u[i] = u[k] => i = k
    <3> SUFFICES ASSUME NEW i \in 1 .. Len(s) + 1, NEW k \in 1 .. Len(s) + 1, u[i] = u[k]
                 PROVE  i = k
      BY <1>1
    <3>0. \A m \in 2 .. Len(s) + 1 : u[m] # t
      BY <1>1, <1>2 DEF New
    <3>1. CASE i = 1 \/ k = 1
      <4>1. u[1] = t /\ (i = 1 \/ i \in 2 .. Len(s) + 1) /\ (k = 1 \/ k \in 2 .. Len(s) + 1)
        BY <1>1
      <4> QED  BY <3>0, <3>1, <4>1
    <3>2. CASE i # 1 /\ k # 1
      <4>1. s[i - 1] = s[k - 1] /\ i - 1 \in DOMAIN s /\ k - 1 \in DOMAIN s
        BY <1>1, <1>2, <3>2
      <4> QED  BY <4>1 DEF Apart
    <3> QED  BY <3>1, <3>2
  <2>2. \A i \in DOMAIN u, k \in DOMAIN f : u[i] # f[k]
    BY <1>5 DEF Apart, New
  <2> QED  BY <2>1, <2>2 DEF Apart
<1>4. Within(u, H)
  BY <1>5 DEF Within
<1> QED  BY <1>1, <1>3, <1>4 DEF u

LEMMA Taken ==
  ASSUME NEW s \in Seq(Commands), NEW f \in Seq(Commands), s # <<>>,
         Apart(s, f), NEW H, Within(s, H)
  PROVE  /\ Tail(s) \in Seq(Commands) /\ Head(s) \in Commands /\ Head(s) \in H
         /\ Apart(Tail(s), f) /\ Within(Tail(s), H) /\ New(Head(s), Tail(s), f)
<1> DEFINE u == Tail(s)
<1>1. /\ u \in Seq(Commands) /\ Head(s) \in Commands
      /\ Len(s) \in Nat /\ Len(s) > 0 /\ DOMAIN s = 1 .. Len(s)
      /\ DOMAIN u = 1 .. Len(s) - 1 /\ Head(s) = s[1]
      /\ \A i \in 1 .. Len(s) - 1 : u[i] = s[i + 1]
  OBVIOUS
<1> HIDE DEF u
<1>2. \A i \in DOMAIN u : u[i] = s[i + 1] /\ i + 1 \in DOMAIN s /\ i + 1 # 1
  BY <1>1
<1>3. Apart(u, f)
  <2>1. \A i, k \in DOMAIN u : u[i] = u[k] => i = k
    <3> TAKE i, k \in DOMAIN u
    <3>1. u[i] = u[k] => i + 1 = k + 1
      BY <1>2 DEF Apart
    <3>2. i \in Nat /\ k \in Nat
      BY <1>1
    <3> QED  BY <3>1, <3>2
  <2> QED  BY <1>2, <2>1 DEF Apart
<1>4. Within(u, H) /\ Head(s) \in H /\ New(Head(s), u, f)
  BY <1>1, <1>2 DEF Within, New, Apart
<1> QED  BY <1>1, <1>3, <1>4 DEF u

LEMMA Started ==
  ASSUME NEW s \in Seq(Commands), NEW f \in Seq(Commands), NEW t \in Commands,
         Apart(s, f), New(t, s, f), NEW H, Within(f, H), t \in H
  PROVE  /\ Append(f, t) \in Seq(Commands) /\ Len(Append(f, t)) = Len(f) + 1
         /\ Apart(s, Append(f, t)) /\ Within(Append(f, t), H)
<1> DEFINE u == Append(f, t)
<1>1. /\ u \in Seq(Commands) /\ Len(u) = Len(f) + 1 /\ Len(f) \in Nat
      /\ DOMAIN f = 1 .. Len(f) /\ DOMAIN u = 1 .. Len(f) + 1
      /\ u[Len(f) + 1] = t /\ \A i \in 1 .. Len(f) : u[i] = f[i]
  OBVIOUS
<1> HIDE DEF u
<1>2. \A i \in DOMAIN u :
        \/ i \in DOMAIN f /\ u[i] = f[i]
        \/ i = Len(f) + 1 /\ u[i] = t
  <2> TAKE i \in DOMAIN u
  <2>1. i \in 1 .. Len(f) \/ i = Len(f) + 1
    BY <1>1
  <2> QED  BY <1>1, <2>1
<1>3. Apart(s, u) /\ Within(u, H)
  BY <1>2 DEF Apart, New, Within
<1> QED  BY <1>1, <1>3 DEF u

\* A process that is forked has the next pid.
LEMMA Forked ==
  ASSUME NEW cs \in Seq({"running", "zombie", "reaped"})
  PROVE  /\ Append(cs, "running") \in Seq({"running", "zombie", "reaped"})
         /\ Len(Append(cs, "running")) = Len(cs) + 1 /\ Len(cs) \in Nat
         /\ DOMAIN Append(cs, "running") = DOMAIN cs \cup {Len(cs) + 1}
         /\ Len(cs) + 1 \notin DOMAIN cs /\ DOMAIN cs = 1 .. Len(cs)
         /\ \A i \in DOMAIN cs : Append(cs, "running")[i] = cs[i]
         /\ Append(cs, "running")[Len(cs) + 1] = "running"
OBVIOUS

\* The processes that run, and how their number changes.
LEMMA RunningFinite ==
  ASSUME TaskTypeOK
  PROVE  IsFiniteSet(Running) /\ Cardinality(Running) \in Nat
<1>1. IsFiniteSet(1 .. Len(children)) /\ Running \in SUBSET (1 .. Len(children))
  BY FS_Interval DEF TaskTypeOK, Running
<1> QED  BY <1>1, FS_Subset, FS_CardinalityType

LEMMA OneMore ==
  ASSUME TaskTypeOK, NEW i, i \notin Running, Running' = Running \cup {i}
  PROVE  Cardinality(Running') = Cardinality(Running) + 1
BY RunningFinite, FS_AddElement

-----------------------------------------------------------------------------
(* The invariant.                                                          *)

LEMMA TaskInitInv == TaskInit => TaskInv
<1> SUFFICES ASSUME TaskInit PROVE TaskInv
  OBVIOUS
<1>1. TaskTypeOK
  <2>1. /\ <<>> \in Seq(Commands) /\ Len(<<>>) = 0
        /\ <<>> \in Seq({"running", "zombie", "reaped"})
    OBVIOUS
  <2>2. pending \in BOOLEAN
    BY DEF TaskInit
  <2>3. /\ tfaults \subseteq TaskFaultKinds /\ handed \subseteq Commands
        /\ systems \in 0 .. MaxSystems
    BY BackgroundTasksConstants DEF TaskInit
  <2>4. fork_pid \in 0 .. Len(children) /\ child_pid \in 0 .. Len(children)
    BY <2>1 DEF TaskInit
  <2>5. tpc \in TaskPlaces /\ tpc \notin {"push", "take", "fork"}
    BY DEF TaskInit, TaskPlaces
  <2>6. /\ new_task \in Commands \cup {NoCommand} /\ running_task \in Commands \cup {NoCommand}
        /\ head_task \in Seq(Commands) /\ next_task \in Seq(Commands)
        /\ children \in Seq({"running", "zombie", "reaped"})
        /\ forked \in Seq(Commands) /\ Len(forked) = Len(children)
    BY <2>1 DEF TaskInit
  <2> QED  BY <2>2, <2>3, <2>4, <2>5, <2>6 DEF TaskTypeOK
<1>2. TasksApart
  BY DEF TaskInit, TasksApart, Apart, Within
<1>3. OneProcess
  <2>1. Running = {}
    BY DEF TaskInit, Running
  <2> QED  BY <2>1, FS_EmptySet DEF TaskInit, OneProcess, Current, Free, Signal
<1> QED  BY <1>1, <1>2, <1>3 DEF TaskInv

\* The steps of the program.
LEMMA RunTaskInv ==
  ASSUME TaskInv, NEW t \in Commands, RunTaskInBackground(t)
  PROVE  TaskInv'
<1> USE DEF TaskInv
<1>1. TaskTypeOK'
  BY DEF RunTaskInBackground, TaskTypeOK, TaskPlaces
<1>2. TasksApart'
  BY DEF RunTaskInBackground, TasksApart, Apart, New, Within
<1>3. OneProcess'
  BY DEF RunTaskInBackground, OneProcess, Current, Free, Signal, Running
<1> QED  BY <1>1, <1>2, <1>3

LEMMA PushTaskInv == ASSUME TaskInv, PushTask PROVE TaskInv'
<1> USE DEF TaskInv
<1>1. /\ tpc = "push" /\ tpc' = "test" /\ new_task' = NoCommand /\ next_task' = <<>>
      /\ head_task' = <<new_task>> \o next_task
      /\ UNCHANGED <<tfaults, fork_pid, child_pid, running_task, children, pending,
                     handed, forked, systems>>
  BY DEF PushTask
<1>2. TaskTypeOK'
  <2>1. head_task' \in Seq(Commands) /\ next_task' \in Seq(Commands)
    BY <1>1 DEF TaskTypeOK
  <2> QED  BY <1>1, <2>1 DEF TaskTypeOK, TaskPlaces
<1>3. TasksApart'
  <2> SUFFICES ASSUME "window" \notin tfaults PROVE TasksApart'
    BY <1>1 DEF TasksApart
  <2>1. Apart(head_task', forked) /\ Within(head_task', handed)
    BY <1>1, Pushed DEF TasksApart, TaskTypeOK
  <2> QED  BY <1>1, <2>1 DEF TasksApart
<1>4. OneProcess'
  BY <1>1 DEF OneProcess, Current, Free, Signal, Running
<1> QED  BY <1>2, <1>3, <1>4

LEMMA TestChildInv == ASSUME TaskInv, TestChild PROVE TaskInv'
<1> USE DEF TaskInv
<1>1. head_task # <<>> => Head(head_task) \in Commands
  BY DEF TaskTypeOK
<1>2. TaskTypeOK'
  BY <1>1 DEF TestChild, TaskTypeOK, TaskPlaces
<1>3. TasksApart'
  BY DEF TestChild, TasksApart
<1>4. OneProcess'
  BY DEF TestChild, OneProcess, Current, Free, Signal, Running
<1> QED  BY <1>2, <1>3, <1>4

LEMMA TakeTaskInv == ASSUME TaskInv, TakeTask PROVE TaskInv'
<1> USE DEF TaskInv
<1>1. TaskTypeOK'
  <2>1. head_task # <<>> => Tail(head_task) \in Seq(Commands)
    BY DEF TaskTypeOK
  <2> QED  BY <2>1 DEF TakeTask, TaskTypeOK, TaskPlaces
<1>2. TasksApart'
  <2> SUFFICES ASSUME "window" \notin tfaults PROVE TasksApart'
    BY DEF TakeTask, TasksApart
  <2>1. /\ head_task # <<>> /\ new_task = Head(head_task) /\ new_task' = new_task
        /\ head_task' = Tail(head_task) /\ tpc' = "fork" /\ UNCHANGED <<handed, forked>>
    BY DEF TakeTask, TasksApart
  <2>2. /\ Apart(head_task', forked) /\ Within(head_task', handed)
        /\ New(new_task, head_task', forked) /\ new_task \in handed
    BY <2>1, Taken DEF TasksApart, TaskTypeOK
  <2> QED  BY <2>1, <2>2 DEF TasksApart
<1>3. OneProcess'
  BY DEF TakeTask, OneProcess, Current, Free, Signal, Running
<1> QED  BY <1>1, <1>2, <1>3

LEMMA ForkTaskInv == ASSUME TaskInv, ForkTask PROVE TaskInv'
<1> USE DEF TaskInv
<1>1. /\ tpc = "fork" /\ tpc' = "store" /\ new_task' = NoCommand
      /\ children' = Append(children, "running") /\ forked' = Append(forked, new_task)
      /\ fork_pid' = Len(children) + 1
      /\ UNCHANGED <<tfaults, head_task, next_task, child_pid, running_task, pending, handed,
                     systems>>
  BY DEF ForkTask
<1>2. /\ children' \in Seq({"running", "zombie", "reaped"})
      /\ Len(children') = Len(children) + 1 /\ Len(children) \in Nat
      /\ DOMAIN children' = DOMAIN children \cup {Len(children) + 1}
      /\ Len(children) + 1 \notin DOMAIN children
      /\ \A i \in DOMAIN children : children'[i] = children[i]
      /\ children'[Len(children) + 1] = "running"
  BY <1>1, Forked DEF TaskTypeOK
<1>3. TaskTypeOK'
  <2>1. forked' \in Seq(Commands) /\ Len(forked') = Len(forked) + 1
    BY <1>1 DEF TaskTypeOK
  <2> QED  BY <1>1, <1>2, <2>1 DEF TaskTypeOK, TaskPlaces
<1>4. TasksApart'
  <2> SUFFICES ASSUME "window" \notin tfaults PROVE TasksApart'
    BY <1>1 DEF TasksApart
  <2>1. Apart(head_task, forked') /\ Within(forked', handed)
    BY <1>1, Started DEF TasksApart, TaskTypeOK
  <2> QED  BY <1>1, <2>1 DEF TasksApart
<1>5. OneProcess'
  <2> SUFFICES ASSUME "window" \notin tfaults PROVE OneProcess'
    BY <1>1 DEF OneProcess
  <2>1. child_pid = 0 /\ Free = 1 /\ Free' = 0 /\ Signal' = Signal /\ Signal \in {0, 1}
    BY <1>1 DEF OneProcess, Free, Signal
  <2>2. Running' = Running \cup {Len(children) + 1} /\ Len(children) + 1 \notin Running
    BY <1>2 DEF Running
  <2>3. Cardinality(Running') = Cardinality(Running) + 1 /\ Cardinality(Running) \in Nat
    BY <2>2, OneMore, RunningFinite
  <2>4. Cardinality(Running)' + Free' + Signal' <= 1 + systems'
    BY <1>1, <2>1, <2>3 DEF OneProcess, TaskTypeOK
  <2> QED  BY <1>1, <1>2, <2>1, <2>4 DEF OneProcess, Current
<1> QED  BY <1>3, <1>4, <1>5

LEMMA StoreChildInv == ASSUME TaskInv, StoreChild PROVE TaskInv'
<1> USE DEF TaskInv
<1>1. TaskTypeOK'
  BY DEF StoreChild, TaskTypeOK, TaskPlaces
<1>2. TasksApart'
  BY DEF StoreChild, TasksApart
<1>3. OneProcess'
  BY DEF StoreChild, OneProcess, Current, Free, Signal, Running, TaskTypeOK
<1> QED  BY <1>1, <1>2, <1>3

\* StartBackgroundTask() of the handler, with the processes cs.
LEMMA NextTaskType ==
  ASSUME TaskInv, NEW cs \in Seq({"running", "zombie", "reaped"}), Len(cs) = Len(children),
         NextTask(cs)
  PROVE  /\ head_task' \in Seq(Commands) /\ forked' \in Seq(Commands)
         /\ running_task' \in Commands \cup {NoCommand}
         /\ children' \in Seq({"running", "zombie", "reaped"})
         /\ Len(forked') = Len(children') /\ child_pid' \in 0 .. Len(children')
         /\ Len(children) <= Len(children')
<1> USE DEF TaskInv
<1>1. CASE head_task = <<>>
  BY <1>1 DEF NextTask, TaskTypeOK
<1>2. CASE head_task # <<>>
  <2>1. Tail(head_task) \in Seq(Commands) /\ Head(head_task) \in Commands
    BY <1>2 DEF TaskTypeOK
  <2>2. /\ Append(forked, Head(head_task)) \in Seq(Commands)
        /\ Len(Append(forked, Head(head_task))) = Len(forked) + 1
    BY <2>1 DEF TaskTypeOK
  <2>3. /\ Append(cs, "running") \in Seq({"running", "zombie", "reaped"})
        /\ Len(Append(cs, "running")) = Len(cs) + 1 /\ Len(cs) \in Nat
    BY Forked
  <2>4. /\ head_task' = Tail(head_task) /\ running_task' = Head(head_task)
        /\ children' = Append(cs, "running") /\ forked' = Append(forked, Head(head_task))
        /\ child_pid' = Len(cs) + 1
    BY <1>2 DEF NextTask
  <2>5. Len(forked) = Len(children) /\ Len(cs) + 1 \in 0 .. Len(cs) + 1
    BY <2>3 DEF TaskTypeOK
  <2> QED  BY <2>1, <2>2, <2>3, <2>4, <2>5
<1> QED  BY <1>1, <1>2

LEMMA NextTaskApart ==
  ASSUME TaskInv, "window" \notin tfaults, NEW cs, NextTask(cs)
  PROVE  Apart(head_task', forked') /\ Within(head_task', handed) /\ Within(forked', handed)
<1> USE DEF TaskInv
<1>1. CASE head_task = <<>>
  BY <1>1 DEF NextTask, TasksApart
<1>2. CASE head_task # <<>>
  <2> DEFINE t == Head(head_task)
             s == Tail(head_task)
  <2>1. /\ s \in Seq(Commands) /\ t \in Commands /\ t \in handed
        /\ Apart(s, forked) /\ Within(s, handed) /\ New(t, s, forked)
    BY <1>2, Taken DEF TasksApart, TaskTypeOK
  <2>2. Apart(s, Append(forked, t)) /\ Within(Append(forked, t), handed)
    BY <2>1, Started DEF TasksApart, TaskTypeOK
  <2> QED  BY <1>2, <2>1, <2>2 DEF NextTask
<1> QED  BY <1>1, <1>2

\* The handler.
LEMMA ChildEndedInv == ASSUME TaskInv, ChildEnded PROVE TaskInv'
<1> USE DEF TaskInv
<1>1. PICK cs \in Seq({"running", "zombie", "reaped"}) :
        /\ Len(cs) = Len(children) /\ NextTask(cs)
        /\ \/ cs = children /\ Reapable = {}
           \/ \E i \in Reapable : cs = [children EXCEPT ![i] = "reaped"]
  <2>1. \A i \in Reapable : i \in DOMAIN children
    BY DEF Reapable, Zombies
  <2>2. \A i \in DOMAIN children :
          /\ [children EXCEPT ![i] = "reaped"] \in Seq({"running", "zombie", "reaped"})
          /\ Len([children EXCEPT ![i] = "reaped"]) = Len(children)
    BY DEF TaskTypeOK
  <2>3. children \in Seq({"running", "zombie", "reaped"})
    BY DEF TaskTypeOK
  <2> QED  BY <2>1, <2>2, <2>3 DEF ChildEnded
<1>2. /\ pending /\ ~pending' /\ (tpc = "idle" \/ ("window" \in tfaults /\ tpc # "crashed"))
      /\ UNCHANGED <<tfaults, tpc, new_task, next_task, fork_pid, handed, systems>>
  BY DEF ChildEnded, Interruptible
<1>3. TaskTypeOK'
  <2>1. pending' = FALSE
    BY DEF ChildEnded
  <2>2. fork_pid \in 0 .. Len(children')
    BY <1>1, NextTaskType DEF TaskTypeOK
  <2> QED  BY <1>1, <1>2, <2>1, <2>2, NextTaskType DEF TaskTypeOK
<1>4. TasksApart'
  <2> SUFFICES ASSUME "window" \notin tfaults PROVE TasksApart'
    BY <1>2 DEF TasksApart
  <2> QED  BY <1>1, <1>2, NextTaskApart DEF TasksApart
<1>5. OneProcess'
  <2> SUFFICES ASSUME "window" \notin tfaults PROVE OneProcess'
    BY <1>2 DEF OneProcess
  <2>0. /\ tpc = "idle" /\ Signal = 1 /\ Signal' = 0 /\ Free \in {0, 1}
        /\ Cardinality(Running) + Free + Signal <= 1 + systems
        /\ Cardinality(Running) \in Nat /\ systems \in Nat
    BY <1>2, RunningFinite DEF OneProcess, Signal, Free, TaskTypeOK
  <2>1. cs \in Seq({"running", "zombie", "reaped"}) /\ DOMAIN cs = DOMAIN children
        /\ {i \in DOMAIN cs : cs[i] = "running"} = Running
    <3>1. CASE cs = children
      BY <3>1 DEF Running, TaskTypeOK
    <3>2. ASSUME NEW i \in Reapable, cs = [children EXCEPT ![i] = "reaped"]
          PROVE  DOMAIN cs = DOMAIN children
                 /\ {k \in DOMAIN cs : cs[k] = "running"} = Running
      <4>1. i \in DOMAIN children /\ children[i] = "zombie"
        BY <3>2 DEF Reapable, Zombies
      <4> QED  BY <3>2, <4>1 DEF Running, TaskTypeOK
    <3> QED  BY <1>1, <3>1, <3>2
  <2>5. CASE head_task = <<>>
    <3>1. children' = cs /\ child_pid' = 0 /\ Free' = 1
      BY <1>1, <1>2, <2>0, <2>5 DEF NextTask, Free
    <3>2. Running' = Running
      BY <2>1, <3>1 DEF Running
    <3>3. Cardinality(Running)' + Free' + Signal' <= 1 + systems'
      BY <1>2, <2>0, <3>1, <3>2
    <3> QED  BY <1>2, <2>0, <3>1, <3>3 DEF OneProcess, Current
  <2>6. CASE head_task # <<>>
    <3>1. children' = Append(cs, "running") /\ child_pid' = Len(cs) + 1
      BY <1>1, <2>6 DEF NextTask
    <3>2. /\ DOMAIN children' = DOMAIN cs \cup {Len(cs) + 1} /\ Len(cs) + 1 \notin DOMAIN cs
          /\ \A i \in DOMAIN cs : children'[i] = cs[i]
          /\ children'[Len(cs) + 1] = "running" /\ Len(cs) + 1 # 0
      BY <2>1, <3>1, Forked
    <3>3. Running' = Running \cup {Len(cs) + 1} /\ Len(cs) + 1 \notin Running
      BY <2>1, <3>2 DEF Running
    <3>4. Cardinality(Running') = Cardinality(Running) + 1 /\ Free' = 0
      BY <3>1, <3>2, <3>3, OneMore DEF Free
    <3>5. Cardinality(Running)' + Free' + Signal' <= 1 + systems'
      BY <1>2, <2>0, <3>4
    <3> QED  BY <1>2, <2>0, <3>1, <3>2, <3>5 DEF OneProcess, Current
  <2> QED  BY <2>5, <2>6
<1> QED  BY <1>3, <1>4, <1>5

LEMMA NoChildEndedInv == ASSUME TaskInv, NoChildEnded PROVE TaskInv'
<1> USE DEF TaskInv
<1>1. TaskTypeOK'
  BY DEF NoChildEnded, TaskTypeOK
<1>2. TasksApart'
  BY DEF NoChildEnded, TasksApart
<1>3. OneProcess'
  <2> SUFFICES ASSUME "window" \notin tfaults PROVE OneProcess'
    BY DEF NoChildEnded, OneProcess
  <2>1. /\ tpc = "idle" /\ Current = child_pid /\ Signal = 1 /\ Signal' = 0
        /\ UNCHANGED <<tfaults, tpc, fork_pid, child_pid, children, systems>>
    BY DEF NoChildEnded, Interruptible, Current, Signal
  <2>2. child_pid = 0
    <3>1. child_pid # 0 => child_pid \in Awaited \cap (Zombies \cup Running)
      BY <2>1 DEF OneProcess, Awaited, Zombies, Running, TaskTypeOK
    <3> QED  BY <3>1 DEF NoChildEnded, NoChild
  <2>3. Cardinality(Running)' + Free' + Signal' <= 1 + systems'
    BY <2>1, RunningFinite DEF OneProcess, Running, Free, TaskTypeOK
  <2> QED  BY <2>1, <2>2, <2>3 DEF OneProcess, Current
<1> QED  BY <1>1, <1>2, <1>3

\* The processes.
LEMMA ProcessEndsInv ==
  ASSUME TaskInv, NEW i \in DOMAIN children, ProcessEnds(i)
  PROVE  TaskInv'
<1> USE DEF TaskInv
<1>1. /\ children[i] = "running" /\ children' = [children EXCEPT ![i] = "zombie"]
      /\ pending' = TRUE
      /\ UNCHANGED <<tfaults, head_task, tpc, new_task, next_task, fork_pid, child_pid,
                     running_task, handed, forked, systems>>
  BY DEF ProcessEnds
<1>2. /\ children' \in Seq({"running", "zombie", "reaped"})
      /\ Len(children') = Len(children) /\ DOMAIN children' = DOMAIN children
      /\ children'[i] = "zombie" /\ \A k \in DOMAIN children \ {i} : children'[k] = children[k]
  BY <1>1 DEF TaskTypeOK
<1>3. TaskTypeOK'
  BY <1>1, <1>2 DEF TaskTypeOK
<1>4. TasksApart'
  BY <1>1 DEF TasksApart
<1>5. OneProcess'
  <2> SUFFICES ASSUME "window" \notin tfaults PROVE OneProcess'
    BY <1>1 DEF OneProcess
  <2>1. Running' = Running \ {i} /\ i \in Running
    BY <1>1, <1>2 DEF Running
  <2>2. Cardinality(Running') = Cardinality(Running) - 1 /\ Cardinality(Running) \in Nat
    BY <2>1, RunningFinite, FS_RemoveElement
  <2>3. Free' = Free /\ Free \in {0, 1} /\ Signal' = 1 /\ Signal \in {0, 1}
    BY <1>1 DEF Free, Signal
  <2>4. Cardinality(Running)' + Free' + Signal' <= 1 + systems'
    BY <1>1, <2>2, <2>3 DEF OneProcess, TaskTypeOK
  <2>5. Current' = Current /\ (Current # 0 => Current \in DOMAIN children)
    BY <1>1 DEF Current, TaskTypeOK
  <2> QED  BY <1>1, <1>2, <2>4, <2>5 DEF OneProcess
<1> QED  BY <1>3, <1>4, <1>5

LEMMA SystemReturnsInv == ASSUME TaskInv, SystemReturns PROVE TaskInv'
<1> USE DEF TaskInv
<1>1. /\ systems' = systems + 1 /\ systems < MaxSystems /\ systems \in Nat /\ pending' = TRUE
      /\ UNCHANGED <<tfaults, head_task, tpc, new_task, next_task, fork_pid, child_pid,
                     running_task, children, handed, forked>>
  BY DEF SystemReturns, TaskTypeOK
<1>2. TaskTypeOK'
  <2>1. systems' \in 0 .. MaxSystems /\ pending' \in BOOLEAN
    BY <1>1, BackgroundTasksConstants
  <2> QED  BY <1>1, <2>1 DEF TaskTypeOK
<1>3. TasksApart'
  BY <1>1 DEF TasksApart
<1>4. OneProcess'
  <2> SUFFICES ASSUME "window" \notin tfaults PROVE OneProcess'
    BY <1>1 DEF OneProcess
  <2>1. Running' = Running /\ Free' = Free /\ Signal' = 1 /\ Signal \in {0, 1} /\ Free \in {0, 1}
    BY <1>1 DEF Running, Free, Signal
  <2>2. Cardinality(Running)' + Free' + Signal' <= 1 + systems'
    BY <1>1, <2>1, RunningFinite DEF OneProcess
  <2> QED  BY <1>1, <2>2 DEF OneProcess, Current
<1> QED  BY <1>2, <1>3, <1>4

LEMMA TaskInvariant == TaskSpec => []TaskInv
<1>1. TaskInv /\ [TaskNext]_taskVars => TaskInv'
  <2> SUFFICES ASSUME TaskInv, [TaskNext]_taskVars PROVE TaskInv'
    OBVIOUS
  <2>1. CASE UNCHANGED taskVars
    BY <2>1 DEF taskVars, TaskInv, TaskTypeOK, TasksApart, OneProcess, Current, Free, Signal,
                Running
  <2> QED
    BY <2>1, RunTaskInv, PushTaskInv, TestChildInv, TakeTaskInv, ForkTaskInv, StoreChildInv,
       ChildEndedInv, NoChildEndedInv, ProcessEndsInv, SystemReturnsInv
       DEF TaskNext, TaskStep
<1> QED  BY <1>1, TaskInitInv, PTL DEF TaskSpec

\* Every variable of the background tasks keeps its type.
THEOREM TasksTyped == TaskSpec => []TaskTypeOK
BY TaskInvariant, PTL DEF TaskInv

\* For any number of tasks, none is forked twice, nor on the stack after it was
\* forked, and the program does not crash, when the handler runs only outside of
\* the functions.
THEOREM TasksStartedOnce == TaskSpec => []StartedOnce
<1>1. TaskInv => StartedOnce
  BY DEF TaskInv, TasksApart, Apart, StartedOnce
<1> QED  BY <1>1, TaskInvariant, PTL

\* Beside the one background task there run at most as many others as the session
\* has called system(), and what child_pid tells at rest is true, for any number
\* of tasks and calls and any order of signals outside of the functions.
THEOREM OneTaskAtATime == TaskSpec => []OneAtATime
<1>1. TaskInv => OneAtATime
  <2> SUFFICES ASSUME TaskInv, "window" \notin tfaults PROVE OneAtATime
    BY DEF OneAtATime
  <2>1. /\ Cardinality(Running) \in Nat /\ systems \in Nat
        /\ Cardinality(Running) + Free + Signal <= 1 + systems
    BY RunningFinite DEF TaskInv, OneProcess, TaskTypeOK
  <2>2. Free \in {0, 1} /\ Signal \in {0, 1}
    BY DEF Free, Signal
  <2>3. ASSUME tpc = "idle", ~pending, child_pid # 0
        PROVE  child_pid \in Running
    BY <2>3 DEF TaskInv, TaskTypeOK, OneProcess, Current, Running
  <2>4. ASSUME tpc = "idle", child_pid = 0
        PROVE  Cardinality(Running) <= systems
    <3>1. Free = 1
      BY <2>4 DEF Free
    <3> QED  BY <2>1, <2>2, <3>1
  <2>5. Cardinality(Running) <= 1 + systems
    BY <2>1, <2>2
  <2> QED  BY <2>3, <2>4, <2>5 DEF OneAtATime
<1> QED  BY <1>1, TaskInvariant, PTL

-----------------------------------------------------------------------------
(****************************************************************************)
(* ImageNotify.                                                            *)
(****************************************************************************)

WholeNames == {Chars(n) : n \in Names} \cup {<<>>}

\* Who has the file, and whether the handler reads it.
FileLocked ==
  /\ opc \in [Observers -> {"idle", "lock", "write", "kill"}]
  /\ \A o \in Observers : opc[o] \in {"write", "kill"} => exclusive = o
  /\ exclusive # NoObserver => ~shared
  /\ hpc = "read" => shared

\* While one program at a time is in NotifyServiceProvider(): the file has a whole
\* name or none, none until the new one is written, and the handler has sized the
\* one it will read, unless the file was truncated meanwhile.
NamesApart ==
  ~crossing =>
    /\ naming \in [Observers -> WholeNames]
    /\ \A o, p \in Observers : opc[o] # "idle" /\ opc[p] # "idle" => o = p
    /\ \A o \in Observers : opc[o] \in {"lock", "write"} => name_file = <<>>
    /\ {name_file, NewImageFilename, shown} \subseteq WholeNames
    /\ size \in Nat
    /\ hpc = "read" => name_file = <<>> \/ size = Len(name_file)

NotifyInv == FileLocked /\ NamesApart

-----------------------------------------------------------------------------
\* A name, and the empty one, are sequences, and written into an empty file or
\* read with a size that is theirs they stay whole.
LEMMA WholeIsSeq ==
  ASSUME NEW s \in WholeNames
  PROVE  s \in Seq(Names)
<1>1. \A n \in Names : Chars(n) \in Seq(Names)
  BY ImageNotifyConstants DEF Chars
<1>2. s = <<>> \/ \E n \in Names : s = Chars(n)
  BY DEF WholeNames
<1>3. CASE s = <<>>
  BY <1>3, EmptySeq
<1>4. CASE \E n \in Names : s = Chars(n)
  BY <1>1, <1>4
<1> QED  BY <1>2, <1>3, <1>4

LEMMA WrittenWhole ==
  ASSUME NEW s \in WholeNames
  PROVE  WrittenOver(<<>>, s) = s
<1>1. s \in Seq(Names) /\ Len(<<>>) = 0 /\ Len(s) \in Nat
  BY WholeIsSeq
<1>2. WrittenOver(<<>>, s) = [i \in 1 .. Len(s) |-> s[i]]
  BY <1>1 DEF WrittenOver
<1> QED  BY <1>1, <1>2

LEMMA ReadWhole ==
  ASSUME NEW s \in WholeNames, NEW k \in Nat, s = <<>> \/ k = Len(s)
  PROVE  SubSeq(s, 1, IF Len(s) < k + 4 THEN Len(s) ELSE k + 4) = s
<1>1. s \in Seq(Names) /\ Len(s) \in Nat /\ Len(s) < k + 4
  BY WholeIsSeq
<1>2. SubSeq(s, 1, Len(s)) = s
  BY <1>1, SubSeqFull
<1> QED  BY <1>1, <1>2

-----------------------------------------------------------------------------
LEMMA NotifyInitInv == ImageInit => NotifyInv
BY DEF ImageInit, NotifyInv, FileLocked, NamesApart, WholeNames

LEMMA TruncateNameInv ==
  ASSUME NotifyInv, NEW o \in Observers, NEW n \in Names, TruncateName(o, n)
  PROVE  NotifyInv'
<1> USE DEF NotifyInv
<1>1. FileLocked'
  BY ImageNotifyConstants DEF TruncateName, FileLocked, lockVars
<1>2. NamesApart'
  <2> SUFFICES ASSUME ~crossing' PROVE NamesApart'
    BY DEF NamesApart
  <2>1. ~crossing /\ \A p \in Observers : opc[p] = "idle"
    BY DEF TruncateName
  <2>2. Chars(n) \in WholeNames /\ <<>> \in WholeNames
    BY DEF WholeNames
  <2> QED  BY <2>1, <2>2 DEF TruncateName, NamesApart, FileLocked
<1> QED  BY <1>1, <1>2

LEMMA NotifyStepInv ==
  ASSUME NotifyInv, NEW o \in Observers, NotifyStep(o)
  PROVE  NotifyInv'
<1> USE DEF NotifyInv
<1>1. CASE LockForWrite(o)
  BY <1>1, ImageNotifyConstants DEF LockForWrite, FileLocked, NamesApart
<1>2. CASE WriteName(o)
  <2>1. FileLocked'
    BY <1>2, ImageNotifyConstants DEF WriteName, FileLocked, lockVars
  <2>2. NamesApart'
    <3> SUFFICES ASSUME ~crossing' PROVE NamesApart'
      BY DEF NamesApart
    <3>1. ~crossing /\ name_file = <<>> /\ naming[o] \in WholeNames
      BY <1>2 DEF WriteName, NamesApart
    <3>2. name_file' = naming[o]
      BY <1>2, <3>1, WrittenWhole DEF WriteName
    <3>3. hpc # "read"
      BY <1>2, ImageNotifyConstants DEF WriteName, FileLocked
    <3> QED  BY <1>2, <3>1, <3>2, <3>3 DEF WriteName, NamesApart, FileLocked, lockVars
  <2> QED  BY <2>1, <2>2
<1>3. CASE SignalMonitor(o)
  <2>1. FileLocked'
    BY <1>3, ImageNotifyConstants DEF SignalMonitor, FileLocked
  <2>2. <<>> \in WholeNames
    BY DEF WholeNames
  <2> QED  BY <1>3, <2>1, <2>2 DEF SignalMonitor, FileLocked, NamesApart
<1> QED  BY <1>1, <1>2, <1>3 DEF NotifyStep

LEMMA MonitorStepInv == ASSUME NotifyInv, MonitorStep PROVE NotifyInv'
<1> USE DEF NotifyInv, lockVars, observerVars
<1>1. CASE RegisterAsProvider
  BY <1>1 DEF RegisterAsProvider, FileLocked, NamesApart
<1>2. CASE UnixSigHandler
  <2>1. FileLocked'
    BY <1>2 DEF UnixSigHandler, FileLocked
  <2>2. ~crossing => size' \in Nat
    BY <1>2, WholeIsSeq DEF UnixSigHandler, NamesApart
  <2> QED  BY <1>2, <2>1, <2>2 DEF UnixSigHandler, NamesApart
<1>3. CASE ProvideCurrentFilename
  <2>1. FileLocked'
    BY <1>3 DEF ProvideCurrentFilename, FileLocked
  <2>2. ~crossing => NewImageFilename' = name_file
    BY <1>3, ReadWhole DEF ProvideCurrentFilename, NamesApart
  <2> QED  BY <1>3, <2>1, <2>2 DEF ProvideCurrentFilename, NamesApart
<1>4. CASE DeliverSignal
  BY <1>4 DEF DeliverSignal, FileLocked, NamesApart
<1> QED  BY <1>1, <1>2, <1>3, <1>4 DEF MonitorStep, HandlerStep

LEMMA NotifyInvariant == ImageSpec => []NotifyInv
<1>1. NotifyInv /\ [ImageNext]_imageVars => NotifyInv'
  <2> SUFFICES ASSUME NotifyInv, [ImageNext]_imageVars PROVE NotifyInv'
    OBVIOUS
  <2>1. CASE UNCHANGED imageVars
    BY <2>1 DEF imageVars, lockVars, observerVars, NotifyInv, FileLocked, NamesApart
  <2> QED  BY <2>1, TruncateNameInv, NotifyStepInv, MonitorStepInv DEF ImageNext
<1> QED  BY <1>1, NotifyInitInv, PTL DEF ImageSpec

\* For any number of programs and names of any length: the monitor never shows, or
\* takes out of the file, a part of a name or a mixture, as long as no two programs
\* are in NotifyServiceProvider() at once.
THEOREM NamesAreWhole == ImageSpec => []NameWhole
<1>1. NotifyInv => NameWhole
  BY DEF NotifyInv, NamesApart, NameWhole, WholeNames
<1> QED  BY <1>1, NotifyInvariant, PTL
=============================================================================
