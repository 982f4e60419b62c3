------------------------------- MODULE WorkLog -------------------------------
(***************************************************************************)
(* What the work queue of a night promises (DATA_LIB/work_queue.h,         *)
(* TOOLS/WORKER/worker.cc): the sessions' lines form one log that is only  *)
(* ever appended to, and a worker starts each task at most once, after all *)
(* the prerequisite files listed before it exist.                          *)
(***************************************************************************)
EXTENDS Naturals, Sequences

CONSTANTS Files, Tasks

Entry == [kind : {"TASK"}, arg : Tasks] \cup [kind : {"PREQ"}, arg : Files]
         \cup [kind : {"FINI"}, arg : {0}]

VARIABLES
  log,     \* the lines, in the order they were added
  exists,  \* the files that exist
  ran      \* the tasks that were started, in order

vars == <<log, exists, ran>>

Init == log = <<>> /\ exists = {} /\ ran = <<>>

Submit(e) ==
  /\ e.kind = "TASK" => \A i \in DOMAIN log : log[i] # e
  /\ log' = Append(log, e)
  /\ UNCHANGED <<exists, ran>>

Provide(f) ==
  /\ f \notin exists
  /\ exists' = exists \cup {f}
  /\ UNCHANGED <<log, ran>>

Started(t) == \E k \in DOMAIN ran : ran[k] = t

\* A task past a FINI is never started: a worker stops there.
Run(i) ==
  /\ log[i].kind = "TASK" /\ ~Started(log[i].arg)
  /\ \A k \in 1 .. i - 1 :
       /\ log[k].kind # "FINI"
       /\ log[k].kind = "PREQ" => log[k].arg \in exists
  /\ ran' = Append(ran, log[i].arg)
  /\ UNCHANGED <<log, exists>>

Next ==
  \/ \E e \in Entry : Submit(e)
  \/ \E f \in Files : Provide(f)
  \/ \E i \in DOMAIN log : Run(i)

Spec == Init /\ [][Next]_vars
=============================================================================
