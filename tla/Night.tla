-------------------------------- MODULE Night --------------------------------
(***************************************************************************)
(* A night of observations: Session::execute() of SESSION_LIB/session.cc,  *)
(* the schedule of schedule.cc, and the observations of                    *)
(* observing_action.cc and strategy.cc.  The program is one thread; the    *)
(* time goes on whatever it does, messages of the user arrive at any time, *)
(* and what the scheduler program answers is external.  A unit of time is  *)
(* the 15 minutes that count as close.                                     *)
(***************************************************************************)
EXTENDS Integers, Sequences

CONSTANTS
  Scripts, Quicks, TimeSeqs,  \* the observing actions of each kind
  EndTime,          \* bound: the end of the night
  FarAhead,         \* six hours
  MaxItems,         \* bound: the length of a schedule
  Exposures,        \* exposures of a strategy
  MaxMessages,      \* bound: messages of the user
  Options,          \* the options that are tried
  NightFaultKinds   \* bound: the faults that may be met

Items == Scripts \cup Quicks \cup TimeSeqs

\* scheduler: the scheduler program may give no answer;  camera: the cooler
\* cannot be queried;  field: a strategy may not be visible or not be found.
ASSUME NightConstants ==
  /\ Scripts \cap Quicks = {} /\ TimeSeqs \cap (Scripts \cup Quicks) = {}
  /\ EndTime \in Nat /\ FarAhead \in Nat /\ MaxItems \in Nat /\ MaxMessages \in Nat
  /\ Exposures \in Nat \ {0}
  /\ Options \subseteq [keep_cooler_running : BOOLEAN, park_at_end : BOOLEAN,
                        use_work_queue : BOOLEAN]
  /\ NightFaultKinds \subseteq {"scheduler", "camera", "field"}

VARIABLES
  nfaults, options, \* the faults and the options of this night, chosen at the start
  now,
  npc, after,       \* where the program is; where create_schedule() returns to
  current_schedule,
  action,           \* currently_executing_action, the first being 0
  need_reschedule, no_stars_count,
  force_shutdown,   \* of the check for messages that pauses
  checking,         \* the check that pauses: of the action or of the strategy
  exposed,          \* exposures of this strategy
  result,           \* of the last action, then of the schedule
  messages,         \* the messages for "simple_session"
  sent,             \* how many were sent
  cooler, tracking, parked, finished,  \* cooler and tracking on; parked; FINI given
  aborting          \* history: an abort was received

scheduleVars == <<current_schedule, action, need_reschedule, no_stars_count>>
equipment == <<cooler, tracking, parked, finished>>
pauseVars == <<force_shutdown, checking>>
nightVars == <<nfaults, options, now, npc, after, scheduleVars, pauseVars, exposed, result,
               messages, sent, equipment, aborting>>

\* currently_executing_action is not set before there is a schedule.
NightInit ==
  /\ nfaults \in SUBSET NightFaultKinds /\ options \in Options
  /\ now = 0 /\ npc = "start" /\ after = "night"
  /\ current_schedule = <<>> /\ action \in {-2, 0}
  /\ need_reschedule = 0 /\ no_stars_count = 0
  /\ force_shutdown = FALSE /\ checking = "action" /\ exposed = 0 /\ result = "OKAY"
  /\ messages = <<>> /\ sent = 0
  /\ cooler = FALSE /\ tracking = TRUE /\ parked = FALSE /\ finished = FALSE
  /\ aborting = FALSE

-----------------------------------------------------------------------------
(* Session::execute().                                                     *)

\* The cooler is started unless it cannot be queried: then all is over.
StartNight ==
  /\ npc = "start"
  /\ \/ "camera" \in nfaults /\ npc' = "done" /\ UNCHANGED <<cooler, after>>
     \/ npc' = "create" /\ after' = "night" /\ cooler' = TRUE
  /\ UNCHANGED <<nfaults, options, now, scheduleVars, pauseVars, exposed, result, messages,
                 sent, tracking, parked, finished, aborting>>

\* Mutant: an abort is taken for the end of the night.
M_CloseNight ==
  /\ npc = "close"
  /\ cooler' = options.keep_cooler_running
  /\ parked' = options.park_at_end
  /\ finished' = FALSE
  /\ npc' = "done"
  /\ UNCHANGED <<nfaults, options, now, after, scheduleVars, pauseVars, exposed, result,
                 messages, sent, tracking, aborting>>

CloseNight ==
  /\ npc = "close"
  /\ cooler' = (result = "SCHED_ABORT" \/ options.keep_cooler_running)
  /\ parked' = (result = "SCHED_NORMAL" /\ options.park_at_end)
  /\ finished' = options.use_work_queue
  /\ npc' = "done"
  /\ UNCHANGED <<nfaults, options, now, after, scheduleVars, pauseVars, exposed, result,
                 messages, sent, tracking, aborting>>

-----------------------------------------------------------------------------
(* The schedule.                                                           *)

TimeIsOver == now > EndTime

Entry(i, t) == [item |-> i, time |-> t, needs_execution |-> TRUE]

\* External: an answer of the scheduler.  It is given all of all_strategies,
\* because only the copies in current_schedule are ever marked as executed; a
\* quick observation may come several times.
Answers ==
  {s \in UNION {[1 .. n -> {Entry(i, t) : i \in Items, t \in now .. EndTime}] :
                  n \in 0 .. MaxItems} :
     \A j, k \in DOMAIN s : j < k =>
       s[j].time < s[k].time /\ (s[j].item = s[k].item => s[j].item \in Quicks)}

\* What the caller of create_schedule() does next, with the schedule s.
ReturnTo(s) ==
  CASE after = "night" -> npc' = "select" /\ UNCHANGED need_reschedule
    [] after = "first"  -> need_reschedule' = 0 /\ npc' = IF s = <<>> THEN "over" ELSE "look"
    [] after = "second" -> need_reschedule' = 0 /\ npc' = IF s = <<>> THEN "over" ELSE "ready"
    [] after = "again"  -> need_reschedule' = 0 /\ npc' = IF s = <<>> THEN "over" ELSE "select"

\* create_schedule(): nothing changes when the night is over, or when the
\* scheduler gives no answer; the caller starts at its first entry.
CreateSchedule ==
  /\ npc = "create"
  /\ \/ /\ TimeIsOver \/ "scheduler" \in nfaults
        /\ UNCHANGED current_schedule /\ ReturnTo(current_schedule)
        /\ action' = CASE after = "night" -> action [] after = "again" -> -1 [] OTHER -> 0
     \/ /\ ~TimeIsOver
        /\ \E s \in Answers : current_schedule' = s /\ ReturnTo(s)
        /\ action' = IF after \in {"night", "again"} THEN -1 ELSE 0
  /\ after' = "night"
  /\ UNCHANGED <<nfaults, options, now, no_stars_count, pauseVars, exposed, result,
                 messages, sent, equipment, aborting>>

Reschedule(caller) == npc' = "create" /\ after' = caller

\* Mutant: the end of the night is not looked at.
M_SelectNext ==
  /\ npc = "select"
  /\ action' = action + 1
  /\ IF need_reschedule >= 3 \/ action' >= Len(current_schedule)
     THEN Reschedule("first")
     ELSE npc' = (IF action' < 0 THEN "crashed" ELSE "look") /\ UNCHANGED after
  /\ UNCHANGED <<nfaults, options, now, current_schedule, need_reschedule, no_stars_count,
                 pauseVars, exposed, result, messages, sent, equipment, aborting>>

\* The first part of SelectNextStrategyAndWait().
SelectNext ==
  /\ npc = "select"
  /\ IF TimeIsOver
     THEN npc' = "over" /\ UNCHANGED <<after, action>>
     ELSE /\ action' = action + 1
          /\ IF need_reschedule >= 3 \/ action' >= Len(current_schedule)
             THEN Reschedule("first")
             ELSE npc' = (IF action' < 0 THEN "crashed" ELSE "look") /\ UNCHANGED after
  /\ UNCHANGED <<nfaults, options, now, current_schedule, need_reschedule, no_stars_count,
                 pauseVars, exposed, result, messages, sent, equipment, aborting>>

Candidate == current_schedule[action + 1]
IsClose == Candidate.time = now

\* Mutant: a candidate that was executed before is executed again.
M_LookAtCandidate ==
  /\ npc = "look"
  /\ IF IsClose THEN npc' = "execute" /\ UNCHANGED after
     ELSE IF need_reschedule > 0 THEN Reschedule("second")
     ELSE npc' = "ready" /\ UNCHANGED after
  /\ UNCHANGED <<nfaults, options, now, scheduleVars, pauseVars, exposed, result, messages,
                 sent, equipment, aborting>>

\* A candidate that is due is executed; otherwise a busted schedule is replaced.
LookAtCandidate ==
  /\ npc = "look"
  /\ IF IsClose /\ Candidate.needs_execution THEN npc' = "execute" /\ UNCHANGED after
     ELSE IF need_reschedule > 0 THEN Reschedule("second")
     ELSE npc' = "ready" /\ UNCHANGED after
  /\ UNCHANGED <<nfaults, options, now, scheduleVars, pauseVars, exposed, result, messages,
                 sent, equipment, aborting>>

\* The rest of it: executed before, due, missed, or far enough to wait for with
\* the tracking motor off.  One that is more than six hours away is executed.
ReadyOrWait ==
  /\ npc = "ready"
  /\ IF ~Candidate.needs_execution
     THEN /\ need_reschedule' = need_reschedule + 1 /\ npc' = "select"
          /\ UNCHANGED <<after, tracking>>
     ELSE /\ UNCHANGED need_reschedule
          /\ \/ IsClose /\ npc' = "execute" /\ UNCHANGED <<after, tracking>>
             \/ Candidate.time < now /\ Reschedule("again") /\ UNCHANGED tracking
             \/ /\ Candidate.time > now + FarAhead
                /\ npc' = "execute" /\ tracking' = TRUE /\ UNCHANGED after
             \/ /\ Candidate.time > now /\ Candidate.time <= now + FarAhead
                /\ npc' = "sleep" /\ tracking' = FALSE /\ UNCHANGED after
  /\ UNCHANGED <<nfaults, options, now, current_schedule, action, no_stars_count, pauseVars,
                 exposed, result, messages, sent, cooler, parked, finished, aborting>>

\* The sleep is resumed until the time has come.
WakeUp ==
  /\ npc = "sleep" /\ Candidate.time <= now
  /\ tracking' = TRUE
  /\ npc' = "execute"
  /\ UNCHANGED <<nfaults, options, now, after, scheduleVars, pauseVars, exposed, result,
                 messages, sent, cooler, parked, finished, aborting>>

\* Nothing is left to be done.
ScheduleOver ==
  /\ npc = "over"
  /\ result' = "SCHED_NORMAL" /\ npc' = "close"
  /\ UNCHANGED <<nfaults, options, now, after, scheduleVars, pauseVars, exposed, messages,
                 sent, equipment, aborting>>

-----------------------------------------------------------------------------
(* The observations.                                                       *)

Finish(r) == result' = r /\ npc' = "result"

\* After the check for messages: a strategy checks a second time.
Proceed ==
  CASE npc \in {"execute", "paused"} /\ checking' = "action" /\ Candidate.item \in TimeSeqs ->
         Finish("NO_STARS")
    [] npc \in {"execute", "paused"} /\ checking' = "action" /\ Candidate.item \in Quicks ->
         Finish("OKAY")
    [] checking' = "action" /\ Candidate.item \in Scripts ->
         npc' = "strategy" /\ UNCHANGED result
    [] checking' = "strategy" ->
         \/ "field" \in nfaults /\ Finish("RETRY")
         \/ npc' = "expose" /\ UNCHANGED result

\* ObservingAction::execute() and Strategy::execute() look for a message.
CheckMessages ==
  /\ npc \in {"execute", "strategy"}
  /\ checking' = IF npc = "execute" THEN "action" ELSE "strategy"
  /\ exposed' = 0
  /\ IF messages = <<>> THEN Proceed /\ UNCHANGED <<messages, aborting>>
     ELSE /\ messages' = Tail(messages)
          /\ aborting' = (Head(messages) = "Abort")
          /\ CASE Head(messages) = "Abort"  -> Finish("PERFORM_SESSION_SHUTDOWN")
               [] Head(messages) = "Pause"  -> npc' = "paused" /\ UNCHANGED result
               [] Head(messages) = "Resume" -> Proceed
  /\ force_shutdown' = FALSE
  /\ UNCHANGED <<nfaults, options, now, after, scheduleVars, sent, equipment>>

\* Mutant: what Resume ends is forgotten.
M_Paused ==
  /\ npc = "paused" /\ messages # <<>>
  /\ messages' = Tail(messages)
  /\ UNCHANGED checking
  /\ aborting' = (aborting \/ Head(messages) = "Abort")
  /\ force_shutdown' = FALSE
  /\ CASE Head(messages) = "Resume" -> Proceed
       [] Head(messages) = "Abort" /\ checking = "strategy" ->
            Finish("PERFORM_SESSION_SHUTDOWN")
       [] OTHER -> UNCHANGED <<npc, result>>
  /\ UNCHANGED <<nfaults, options, now, after, scheduleVars, exposed, sent, equipment>>

\* The loop of a pause: in the check of the action, an abort does not end it.
Paused ==
  /\ npc = "paused" /\ messages # <<>>
  /\ messages' = Tail(messages)
  /\ UNCHANGED checking
  /\ aborting' = (aborting \/ Head(messages) = "Abort")
  /\ force_shutdown' = (force_shutdown \/ Head(messages) = "Abort")
  /\ CASE Head(messages) = "Resume" ->
            IF force_shutdown THEN Finish("PERFORM_SESSION_SHUTDOWN") ELSE Proceed
       [] Head(messages) = "Abort" /\ checking = "strategy" ->
            Finish("PERFORM_SESSION_SHUTDOWN")
       [] OTHER -> UNCHANGED <<npc, result>>
  /\ UNCHANGED <<nfaults, options, now, after, scheduleVars, exposed, sent, equipment>>

\* Before an exposure any message, whatever it says, ends the session.
Expose ==
  /\ npc = "expose"
  /\ IF messages # <<>>
     THEN /\ messages' = Tail(messages) /\ aborting' = (Head(messages) = "Abort")
          /\ Finish("PERFORM_SESSION_SHUTDOWN") /\ UNCHANGED exposed
     ELSE /\ exposed' = exposed + 1
          /\ IF exposed' = Exposures THEN Finish("OKAY") ELSE UNCHANGED <<npc, result>>
          /\ UNCHANGED <<messages, aborting>>
  /\ UNCHANGED <<nfaults, options, now, after, scheduleVars, pauseVars, sent, equipment>>

\* The body of the loop of Execute_Schedule(), after the action.
EndAction ==
  /\ npc = "result"
  /\ no_stars_count' = IF result = "NO_STARS" THEN no_stars_count + 1 ELSE 0
  /\ IF no_stars_count' >= 3 \/ result = "PERFORM_SESSION_SHUTDOWN"
     THEN /\ result' = "SCHED_ABORT" /\ npc' = "close"
          /\ UNCHANGED <<current_schedule, need_reschedule>>
     ELSE /\ result' = "OKAY" /\ npc' = "select"
          /\ current_schedule' =
               [current_schedule EXCEPT ![action + 1].needs_execution = result # "OKAY"]
          /\ need_reschedule' = IF result = "OKAY" THEN need_reschedule
                                ELSE need_reschedule + 1
  /\ force_shutdown' = FALSE /\ checking' = "action" /\ exposed' = 0
  /\ UNCHANGED <<nfaults, options, now, after, action, messages, sent, equipment, aborting>>

-----------------------------------------------------------------------------
(* The time and the user.                                                  *)

\* The time goes on, until the night is over.
Tick ==
  /\ now <= EndTime /\ npc \notin {"start", "over", "close", "done", "crashed"}
  /\ now' = now + 1
  /\ UNCHANGED <<nfaults, options, npc, after, scheduleVars, pauseVars, exposed, result,
                 messages, sent, equipment, aborting>>

\* A message waits until the program looks for one: it may as well come there.
SendNotice(m) ==
  /\ sent < MaxMessages /\ npc \in {"execute", "strategy", "paused", "expose"}
  /\ messages' = Append(messages, m) /\ sent' = sent + 1
  /\ UNCHANGED <<nfaults, options, now, npc, after, scheduleVars, pauseVars, exposed, result,
                 equipment, aborting>>

NightStep ==
  \/ StartNight \/ CloseNight \/ CreateSchedule \/ SelectNext \/ LookAtCandidate
  \/ ReadyOrWait \/ WakeUp \/ ScheduleOver \/ CheckMessages \/ Paused \/ Expose \/ EndAction

NightNext ==
  NightStep \/ Tick \/ \E m \in {"Abort", "Pause", "Resume"} : SendNotice(m)

NightSpec == NightInit /\ [][NightNext]_nightVars

\* The program runs and the time goes on; the user need not say anything.
NightFairSpec == NightSpec /\ WF_nightVars(NightStep) /\ WF_nightVars(Tick)

-----------------------------------------------------------------------------
(* Properties.                                                             *)

\* An entry of the schedule is executed only when it was not executed with
\* success before, with the tracking motor on, and neither before its time nor
\* when it was missed: after failures, reschedulings and a scheduler that gives
\* no answer, when the old schedule is used again.  One that is more than six
\* hours away is executed at once.
ExecutedWhenDue ==
  [][npc' = "execute" /\ npc # "execute" =>
       /\ Candidate'.needs_execution /\ tracking'
       /\ \/ Candidate'.time = now
          \/ npc = "sleep" /\ Candidate'.time < now
          \/ Candidate'.time > now + FarAhead]_nightVars

\* When nobody interferes, and there are not three sequences in a row, which
\* nothing can execute, the equipment is left as the options say, whatever was
\* not visible or could not be scheduled.
EquipmentSafe ==
  npc = "done" /\ sent = 0 /\ no_stars_count < 3 /\ "camera" \notin nfaults =>
    /\ cooler = options.keep_cooler_running /\ parked = options.park_at_end
    /\ finished = options.use_work_queue /\ tracking

\* Once an abort was received, in a pause or not, nothing more is observed, and
\* the cooler stays on.
AbortObeyed ==
  aborting =>
    /\ npc \in {"paused", "result", "close", "done"}
    /\ npc = "result" => result = "PERFORM_SESSION_SHUTDOWN"
    /\ npc = "done" => cooler /\ ~parked

\* A night that has begun ends, whatever fails, unless it is paused.  When the
\* scheduler never answered, the program may fail on an index that was never set.
NightEnds ==
  npc = "create" ~>
    \/ npc \in {"done", "paused"}
    \/ "scheduler" \in nfaults /\ npc = "crashed"

\* schedule.h:54, create_schedule takes "those strategies that were put into
\* this Schedule (but haven't been executed successfully)": one that was is not
\* put into the next schedule.
CompletedNotRescheduled ==
  [][\A k \in DOMAIN current_schedule, j \in DOMAIN current_schedule' :
       /\ current_schedule[k].item \in Scripts /\ ~current_schedule[k].needs_execution
       /\ current_schedule'[j].needs_execution
       => current_schedule[k].item # current_schedule'[j].item]_nightVars
=============================================================================
