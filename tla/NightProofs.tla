----------------------------- MODULE NightProofs ------------------------------
(***************************************************************************)
(* Proofs about Night: when an observation is executed, what an abort      *)
(* does and how the equipment is left, for schedules of any length, any    *)
(* number of messages and every fault.                                     *)
(***************************************************************************)
EXTENDS Night, TLAPS

-----------------------------------------------------------------------------
(* The invariant.                                                          *)

NightPlaces ==
  {"start", "create", "select", "look", "ready", "sleep", "execute", "strategy", "paused",
   "expose", "result", "over", "close", "done", "crashed"}
ScheduleEntry == [item : Items, time : Int, needs_execution : BOOLEAN]
Orders == {"Abort", "Pause", "Resume"}

NightTyped ==
  /\ npc \in NightPlaces /\ after \in {"night", "first", "second", "again"}
  /\ now \in Nat /\ options \in Options
  /\ current_schedule \in Seq(ScheduleEntry) /\ action \in Int /\ no_stars_count \in Nat
  /\ force_shutdown \in BOOLEAN /\ checking \in {"action", "strategy"}
  /\ messages \in Seq(Orders) /\ sent \in Nat
  /\ tracking \in BOOLEAN /\ aborting \in BOOLEAN

\* There is a candidate wherever the program looks at it.
HasCandidate ==
  npc \in {"look", "ready", "sleep", "execute", "strategy", "paused", "expose", "result"}
    => action \in 0 .. Len(current_schedule) - 1

\* The motor is off only during the sleep, which ends with an observation.
MotorOff ==
  /\ npc # "sleep" => tracking
  /\ npc = "sleep" => Candidate.needs_execution

\* Without messages a night ends by itself.
Undisturbed ==
  /\ sent = 0 => messages = <<>> /\ result # "PERFORM_SESSION_SHUTDOWN"
  /\ npc = "close" => result \in {"SCHED_NORMAL", "SCHED_ABORT"}
  /\ npc = "close" /\ sent = 0 /\ no_stars_count < 3 => result = "SCHED_NORMAL"

\* An abort that was received in a pause is remembered until the pause ends.
AbortKept ==
  aborting =>
    /\ npc = "paused" => force_shutdown
    /\ npc = "close" => result = "SCHED_ABORT"

NightInv ==
  /\ NightTyped /\ HasCandidate /\ MotorOff
  /\ Undisturbed /\ AbortKept /\ AbortObeyed /\ EquipmentSafe

LEMMA InitNight == NightInit => NightInv
<1> SUFFICES ASSUME NightInit PROVE NightInv
  OBVIOUS
<1>1. NightTyped
  <2>1. <<>> \in Seq(ScheduleEntry) /\ <<>> \in Seq(Orders)
    OBVIOUS
  <2>2. action \in Int /\ now \in Nat /\ no_stars_count \in Nat /\ sent \in Nat
    BY DEF NightInit
  <2>3. npc \in NightPlaces /\ options \in Options
    BY DEF NightInit, NightPlaces
  <2> QED  BY <2>1, <2>2, <2>3 DEF NightInit, NightTyped
<1> QED  BY <1>1 DEF NightInit, NightInv, HasCandidate, MotorOff, Undisturbed, AbortKept,
                    AbortObeyed, EquipmentSafe

-----------------------------------------------------------------------------
(* The steps.                                                              *)

\* An answer of the scheduler is a schedule.
LEMMA AnswersTyped ==
  ASSUME now \in Nat, NEW s \in Answers PROVE s \in Seq(ScheduleEntry)
<1>1. PICK n \in 0 .. MaxItems :
        s \in [1 .. n -> {Entry(i, t) : i \in Items, t \in now .. EndTime}]
  BY DEF Answers
<1>2. \A i \in Items, t \in now .. EndTime : Entry(i, t) \in ScheduleEntry
  BY DEF Entry, ScheduleEntry
<1>3. n \in Nat /\ s \in [1 .. n -> ScheduleEntry]
  BY <1>1, <1>2
<1> QED  BY <1>3

LEMMA CandidateTyped ==
  ASSUME NightTyped, action \in 0 .. Len(current_schedule) - 1
  PROVE  Candidate \in ScheduleEntry
BY DEF NightTyped, Candidate

\* Where the program is after the check for messages.
Onward ==
  \/ npc' = "result" /\ result' \in {"OKAY", "RETRY", "NO_STARS"}
  \/ npc' \in {"strategy", "expose"} /\ result' = result

LEMMA ProceedOnward ==
  ASSUME npc \in {"execute", "strategy", "paused"}, checking' \in {"action", "strategy"},
         Candidate.item \in Items, npc = "strategy" => checking' = "strategy", Proceed
  PROVE  Onward
BY NightConstants DEF Proceed, Onward, Finish, Items

LEMMA CheckStep ==
  ASSUME NightInv, CheckMessages
  PROVE  /\ UNCHANGED <<now, options, after, current_schedule, action, no_stars_count, sent,
                        nfaults, tracking>>
         /\ checking' \in {"action", "strategy"} /\ force_shutdown' = FALSE
         /\ \/ Onward /\ messages' = messages /\ aborting' = aborting
            \/ /\ messages # <<>> /\ messages' = Tail(messages)
               /\ \/ /\ Head(messages) = "Abort" /\ aborting' = TRUE
                     /\ npc' = "result" /\ result' = "PERFORM_SESSION_SHUTDOWN"
                  \/ /\ Head(messages) = "Pause" /\ aborting' = FALSE
                     /\ npc' = "paused" /\ result' = result
                  \/ Head(messages) = "Resume" /\ aborting' = FALSE /\ Onward
<1>1. Candidate.item \in Items
  BY CandidateTyped DEF CheckMessages, NightInv, HasCandidate, ScheduleEntry
<1>2. Proceed => Onward
  BY <1>1, ProceedOnward DEF CheckMessages
<1>3. messages # <<>> => Head(messages) \in Orders
  BY DEF NightInv, NightTyped
<1> QED  BY <1>2, <1>3 DEF CheckMessages, Finish, Orders, scheduleVars, equipment

LEMMA CheckNight ==
  ASSUME NightInv, CheckMessages PROVE NightInv'
<1> USE DEF NightInv
<1>1. npc \in {"execute", "strategy"} /\ ~aborting /\ tracking
  BY DEF CheckMessages, AbortObeyed, MotorOff, NightTyped
<1>2. NightTyped'
  <2>1. messages' \in Seq(Orders) /\ npc' \in NightPlaces /\ aborting' \in BOOLEAN
    <3>1. messages' \in Seq(Orders)
      <4>1. Tail(messages) \in Seq(Orders) \/ messages = <<>>
        BY DEF NightTyped
      <4>2. CASE messages' = messages
        BY <4>2 DEF NightTyped
      <4>3. CASE messages # <<>> /\ messages' = Tail(messages)
        BY <4>1, <4>3
      <4> QED  BY <4>2, <4>3, CheckStep
    <3>2. npc' \in NightPlaces
      BY CheckStep DEF Onward, NightPlaces
    <3>3. aborting' \in BOOLEAN
      BY CheckStep DEF NightTyped
    <3> QED  BY <3>1, <3>2, <3>3
  <2> QED  BY <2>1, CheckStep DEF NightTyped
<1>3. HasCandidate' /\ MotorOff'
  BY <1>1, CheckStep DEF CheckMessages, HasCandidate, MotorOff, Onward
<1>4. Undisturbed' /\ EquipmentSafe'
  BY CheckStep DEF Undisturbed, EquipmentSafe, Onward
<1>5. aborting' =>
        npc' = "result" /\ result' = "PERFORM_SESSION_SHUTDOWN"
  BY <1>1, CheckStep
<1>6. AbortKept' /\ AbortObeyed'
  BY <1>5 DEF AbortKept, AbortObeyed
<1> QED  BY <1>2, <1>3, <1>4, <1>6

LEMMA PausedStep ==
  ASSUME NightInv, Paused
  PROVE  /\ UNCHANGED <<now, options, after, current_schedule, action, no_stars_count, sent,
                        nfaults, tracking, checking>>
         /\ messages # <<>> /\ messages' = Tail(messages)
         /\ aborting' \in BOOLEAN /\ force_shutdown' \in BOOLEAN
         /\ \/ ~force_shutdown /\ aborting' = aborting /\ Onward
            \/ npc' = "result" /\ result' = "PERFORM_SESSION_SHUTDOWN"
            \/ /\ npc' = "paused" /\ result' = result
               /\ aborting' => \/ aborting /\ force_shutdown' = force_shutdown
                               \/ force_shutdown'
<1>1. Candidate.item \in Items
  BY CandidateTyped DEF Paused, NightInv, HasCandidate, ScheduleEntry
<1>2. checking' = checking /\ (Proceed => Onward)
  BY <1>1, ProceedOnward DEF Paused, NightInv, NightTyped
<1>3. Head(messages) \in Orders
  BY DEF Paused, NightInv, NightTyped
<1> QED  BY <1>2, <1>3 DEF Paused, Finish, Orders, scheduleVars, equipment, NightInv, NightTyped

LEMMA PausedNight ==
  ASSUME NightInv, Paused PROVE NightInv'
<1> USE DEF NightInv
<1>1. npc = "paused" /\ tracking
  BY DEF Paused, MotorOff, NightTyped
<1>2. NightTyped'
  <2>1. messages' \in Seq(Orders) /\ npc' \in NightPlaces
    BY PausedStep DEF NightTyped, Onward, NightPlaces
  <2> QED  BY <2>1, PausedStep DEF NightTyped
<1>3. HasCandidate' /\ MotorOff'
  BY <1>1, PausedStep DEF HasCandidate, MotorOff, Onward
<1>4. Undisturbed' /\ EquipmentSafe'
  BY PausedStep DEF Undisturbed, EquipmentSafe, Onward
<1>5. AbortKept' /\ AbortObeyed'
  BY <1>1, PausedStep DEF AbortKept, AbortObeyed, Onward, Paused
<1> QED  BY <1>2, <1>3, <1>4, <1>5

LEMMA ExposeNight ==
  ASSUME NightInv, Expose PROVE NightInv'
<1> USE DEF NightInv
<1>1. /\ npc = "expose" /\ ~aborting /\ tracking
      /\ UNCHANGED <<now, options, after, current_schedule, action, no_stars_count, sent,
                     nfaults, tracking, force_shutdown, checking>>
      /\ \/ /\ messages # <<>> /\ messages' = Tail(messages) /\ aborting' \in BOOLEAN
            /\ npc' = "result" /\ result' = "PERFORM_SESSION_SHUTDOWN"
         \/ /\ messages' = messages /\ aborting' = aborting
            /\ \/ npc' = "result" /\ result' = "OKAY"
               \/ npc' = "expose" /\ result' = result
  BY DEF Expose, Finish, AbortObeyed, MotorOff, scheduleVars, pauseVars, equipment
<1>2. NightTyped'
  <2>1. messages' \in Seq(Orders) /\ npc' \in NightPlaces
    <3>1. messages' \in Seq(Orders)
      BY <1>1 DEF NightTyped
    <3> QED  BY <1>1, <3>1 DEF NightPlaces
  <2> QED  BY <1>1, <2>1 DEF NightTyped
<1>3. HasCandidate' /\ MotorOff' /\ Undisturbed' /\ EquipmentSafe' /\ AbortKept' /\ AbortObeyed'
  BY <1>1 DEF HasCandidate, MotorOff, Undisturbed, EquipmentSafe, AbortKept, AbortObeyed
<1> QED  BY <1>2, <1>3

LEMMA EndActionNight ==
  ASSUME NightInv, EndAction PROVE NightInv'
<1> USE DEF NightInv
<1>1. /\ npc = "result" /\ tracking /\ action \in 0 .. Len(current_schedule) - 1
      /\ UNCHANGED <<nfaults, options, now, after, action, messages, sent, tracking, aborting>>
      /\ force_shutdown' = FALSE /\ checking' = "action" /\ no_stars_count' \in Nat
      /\ \/ /\ no_stars_count' >= 3 \/ result = "PERFORM_SESSION_SHUTDOWN"
            /\ result' = "SCHED_ABORT" /\ npc' = "close"
            /\ current_schedule' = current_schedule
         \/ /\ result # "PERFORM_SESSION_SHUTDOWN"
            /\ result' = "OKAY" /\ npc' = "select"
            /\ current_schedule' =
                 [current_schedule EXCEPT ![action + 1].needs_execution = result # "OKAY"]
  BY DEF EndAction, HasCandidate, MotorOff, NightTyped, equipment
<1>2. current_schedule' \in Seq(ScheduleEntry)
  <2>1. [current_schedule[action + 1] EXCEPT !.needs_execution = result # "OKAY"]
           \in ScheduleEntry
    BY <1>1, CandidateTyped DEF Candidate, ScheduleEntry
  <2> QED  BY <1>1, <2>1 DEF NightTyped
<1>3. NightTyped'
  BY <1>1, <1>2 DEF NightTyped, NightPlaces
<1>4. HasCandidate' /\ MotorOff' /\ Undisturbed' /\ EquipmentSafe'
  BY <1>1 DEF HasCandidate, MotorOff, Undisturbed, EquipmentSafe, NightTyped
<1>5. AbortKept' /\ AbortObeyed'
  BY <1>1 DEF AbortKept, AbortObeyed
<1> QED  BY <1>3, <1>4, <1>5

LEMMA CreateNight ==
  ASSUME NightInv, CreateSchedule PROVE NightInv'
<1> USE DEF NightInv
<1>1. /\ npc = "create" /\ tracking /\ ~aborting /\ after' = "night"
      /\ UNCHANGED <<nfaults, options, now, no_stars_count, force_shutdown, checking, result,
                     messages, sent, tracking, aborting>>
  BY DEF CreateSchedule, MotorOff, AbortObeyed, pauseVars, equipment
<1>2. current_schedule' \in Seq(ScheduleEntry)
  BY AnswersTyped DEF CreateSchedule, NightTyped
<1>3. /\ action' \in Int
      /\ npc' \in {"select", "over", "look", "ready"}
      /\ npc' \in {"look", "ready"} => action' = 0 /\ current_schedule' # <<>>
  <2>1. \A s : ReturnTo(s) /\ s = current_schedule' =>
               /\ npc' \in {"select", "over", "look", "ready"}
               /\ npc' \in {"look", "ready"} =>
                    after \in {"first", "second"} /\ current_schedule' # <<>>
    BY DEF ReturnTo, NightTyped
  <2>2. /\ action' \in Int
        /\ after \in {"first", "second"} => action' = 0
    BY DEF CreateSchedule, NightTyped
  <2>3. ReturnTo(current_schedule')
    BY DEF CreateSchedule
  <2> QED  BY <2>1, <2>2, <2>3
<1>4. NightTyped'
  BY <1>1, <1>2, <1>3 DEF NightTyped, NightPlaces
<1>5. HasCandidate'
  <2>1. current_schedule' # <<>> => 0 \in 0 .. Len(current_schedule') - 1
    BY <1>2
  <2> QED  BY <1>3, <2>1 DEF HasCandidate
<1>6. MotorOff' /\ Undisturbed' /\ EquipmentSafe' /\ AbortKept' /\ AbortObeyed'
  BY <1>1, <1>3 DEF MotorOff, Undisturbed, EquipmentSafe, AbortKept, AbortObeyed
<1> QED  BY <1>4, <1>5, <1>6

\* SelectNextStrategyAndWait().
LEMMA SelectNight ==
  ASSUME NightInv, SelectNext \/ LookAtCandidate \/ ReadyOrWait \/ WakeUp PROVE NightInv'
<1> USE DEF NightInv
<1>1. /\ npc \in {"select", "look", "ready", "sleep"} /\ ~aborting
      /\ UNCHANGED <<nfaults, options, now, no_stars_count, force_shutdown, checking, result,
                     current_schedule, messages, sent, aborting>>
  BY DEF SelectNext, LookAtCandidate, ReadyOrWait, WakeUp, AbortObeyed, pauseVars, equipment,
         scheduleVars
<1>2. /\ action' \in Int /\ after' \in {"night", "first", "second", "again"}
      /\ npc' \in {"select", "over", "look", "ready", "create", "crashed", "execute", "sleep"}
  BY DEF SelectNext, LookAtCandidate, ReadyOrWait, WakeUp, Reschedule, NightTyped,
         scheduleVars
<1>3. tracking' \in BOOLEAN /\ (npc' # "sleep" => tracking')
  <2>1. CASE ReadyOrWait
    BY <2>1 DEF ReadyOrWait, Reschedule, MotorOff, NightTyped
  <2>2. CASE WakeUp
    BY <2>2 DEF WakeUp
  <2>3. CASE SelectNext \/ LookAtCandidate
    BY <2>3 DEF SelectNext, LookAtCandidate, MotorOff, NightTyped, equipment
  <2> QED  BY <2>1, <2>2, <2>3
<1>4. npc' = "sleep" => ReadyOrWait /\ Candidate.needs_execution /\ action' = action
  BY DEF SelectNext, LookAtCandidate, ReadyOrWait, WakeUp, Reschedule
<1>5. npc' \in {"look", "ready", "sleep", "execute"} => action' \in 0 .. Len(current_schedule) - 1
  <2>1. CASE SelectNext
    <3>1. npc' = "look" => /\ action' = action + 1 /\ ~(action' >= Len(current_schedule))
                           /\ ~(action' < 0)
      BY <2>1 DEF SelectNext, Reschedule
    <3>2. npc' \notin {"ready", "sleep", "execute"}
      BY <2>1 DEF SelectNext, Reschedule
    <3> QED  BY <3>1, <3>2 DEF NightTyped
  <2>2. CASE LookAtCandidate \/ ReadyOrWait \/ WakeUp
    BY <2>2 DEF LookAtCandidate, ReadyOrWait, WakeUp, HasCandidate, scheduleVars
  <2> QED  BY <2>1, <2>2
<1>6. NightTyped'
  BY <1>1, <1>2, <1>3 DEF NightTyped, NightPlaces
<1>7. HasCandidate' /\ MotorOff'
  BY <1>1, <1>2, <1>3, <1>4, <1>5 DEF HasCandidate, MotorOff, Candidate
<1>8. Undisturbed' /\ EquipmentSafe' /\ AbortKept' /\ AbortObeyed'
  BY <1>1, <1>2 DEF Undisturbed, EquipmentSafe, AbortKept, AbortObeyed
<1> QED  BY <1>6, <1>7, <1>8

LEMMA EndsNight ==
  ASSUME NightInv, StartNight \/ CloseNight \/ ScheduleOver PROVE NightInv'
<1> USE DEF NightInv
<1>1. /\ UNCHANGED <<nfaults, options, now, current_schedule, action, no_stars_count,
                     force_shutdown, checking, messages, sent, tracking, aborting>>
      /\ after' \in {after, "night"}
  BY DEF StartNight, CloseNight, ScheduleOver, scheduleVars, pauseVars, equipment
<1>2. CASE StartNight
  <2>1. /\ npc = "start" /\ result' = result
        /\ \/ npc' = "done" /\ "camera" \in nfaults
           \/ npc' = "create"
    BY <1>2 DEF StartNight
  <2>2. NightTyped'
    BY <1>1, <2>1 DEF NightTyped, NightPlaces
  <2> QED  BY <1>1, <2>1, <2>2
           DEF HasCandidate, MotorOff, Undisturbed, EquipmentSafe, AbortKept, AbortObeyed
<1>3. CASE ScheduleOver
  <2>1. npc = "over" /\ result' = "SCHED_NORMAL" /\ npc' = "close"
    BY <1>3 DEF ScheduleOver
  <2>2. NightTyped'
    BY <1>1, <2>1 DEF NightTyped, NightPlaces
  <2> QED  BY <1>1, <2>1, <2>2
           DEF HasCandidate, MotorOff, Undisturbed, EquipmentSafe, AbortKept, AbortObeyed
<1>4. CASE CloseNight
  <2>1. /\ npc = "close" /\ result' = result /\ npc' = "done"
        /\ cooler' = (result = "SCHED_ABORT" \/ options.keep_cooler_running)
        /\ parked' = (result = "SCHED_NORMAL" /\ options.park_at_end)
        /\ finished' = options.use_work_queue
    BY <1>4 DEF CloseNight
  <2>2. NightTyped'
    BY <1>1, <2>1 DEF NightTyped, NightPlaces
  <2>3. aborting => cooler' = TRUE /\ parked' = FALSE
    BY <2>1 DEF AbortKept
  <2>4. sent = 0 /\ no_stars_count < 3 =>
          /\ cooler' = options.keep_cooler_running /\ parked' = options.park_at_end
          /\ finished' = options.use_work_queue
    <3>1. options.keep_cooler_running \in BOOLEAN /\ options.park_at_end \in BOOLEAN
      BY NightConstants DEF NightTyped
    <3> QED  BY <2>1, <3>1 DEF Undisturbed
  <2> QED  BY <1>1, <2>1, <2>2, <2>3, <2>4
           DEF HasCandidate, MotorOff, Undisturbed, EquipmentSafe, AbortKept, AbortObeyed
<1> QED  BY <1>2, <1>3, <1>4

LEMMA TimeNight ==
  ASSUME NightInv, Tick \/ (\E m \in Orders : SendNotice(m)) \/ UNCHANGED nightVars
  PROVE  NightInv'
<1> USE DEF NightInv
<1>1. /\ UNCHANGED <<nfaults, options, npc, after, current_schedule, action, no_stars_count,
                     force_shutdown, checking, result, cooler, parked, finished, tracking,
                     aborting>>
      /\ now' \in Nat
      /\ \/ messages' = messages /\ sent' = sent
         \/ /\ \E m \in Orders : messages' = Append(messages, m)
            /\ sent' = sent + 1
  BY DEF Tick, SendNotice, nightVars, scheduleVars, pauseVars, equipment, NightTyped
<1>2. NightTyped'
  <2>1. \A m \in Orders : Append(messages, m) \in Seq(Orders)
    BY DEF NightTyped
  <2>2. messages' \in Seq(Orders)
    BY <1>1, <2>1 DEF NightTyped
  <2>3. sent' \in Nat
    BY <1>1 DEF NightTyped
  <2> QED  BY <1>1, <2>2, <2>3 DEF NightTyped
<1>3. sent' = 0 => sent = 0 /\ messages' = messages
  BY <1>1 DEF NightTyped
<1> QED  BY <1>1, <1>2, <1>3
         DEF HasCandidate, MotorOff, Candidate, Undisturbed, EquipmentSafe, AbortKept,
             AbortObeyed

LEMMA NextNight == NightInv /\ [NightNext]_nightVars => NightInv'
<1> SUFFICES ASSUME NightInv, [NightNext]_nightVars PROVE NightInv'
  OBVIOUS
<1> QED  BY CheckNight, PausedNight, ExposeNight, EndActionNight, CreateNight, SelectNight,
            EndsNight, TimeNight DEF NightNext, NightStep, Orders

LEMMA NightInvariant == NightSpec => []NightInv
<1> QED  BY InitNight, NextNight, PTL DEF NightSpec

\* An abort that was received, in a pause or not, is the last thing the night
\* sees: no observation follows, however many messages come after it.
THEOREM AbortIsObeyed == NightSpec => []AbortObeyed
<1>1. NightInv => AbortObeyed
  BY DEF NightInv
<1> QED  BY <1>1, NightInvariant, PTL

\* A night that no message disturbs leaves the cooler, the mount and the work
\* queue as the options say, whatever could not be scheduled, seen or found.
THEOREM EquipmentIsSafe == NightSpec => []EquipmentSafe
<1>1. NightInv => EquipmentSafe
  BY DEF NightInv
<1> QED  BY <1>1, NightInvariant, PTL

\* No entry of a schedule is executed twice with success, before its time, when
\* it was missed, or with the motor off, whatever schedules replace each other.
THEOREM OnlyWhenDue == NightSpec => ExecutedWhenDue
<1> DEFINE Due ==
      npc' = "execute" /\ npc # "execute" =>
        /\ Candidate'.needs_execution /\ tracking'
        /\ \/ Candidate'.time = now
           \/ npc = "sleep" /\ Candidate'.time < now
           \/ Candidate'.time > now + FarAhead
<1>1. NightInv /\ NightNext => Due
  <2> SUFFICES ASSUME NightInv, NightNext, npc' = "execute", npc # "execute"
               PROVE  Due
    OBVIOUS
  <2> USE DEF NightInv
  <2>1. LookAtCandidate \/ ReadyOrWait \/ WakeUp
    <3>1. ~CreateSchedule
      BY DEF CreateSchedule, ReturnTo, NightTyped
    <3>2. ~CheckMessages /\ ~Paused
      BY CheckStep, PausedStep DEF Onward
    <3>3. ~StartNight /\ ~CloseNight /\ ~SelectNext /\ ~ScheduleOver /\ ~Expose
          /\ ~EndAction
      BY DEF StartNight, CloseNight, SelectNext, ScheduleOver, Expose, EndAction,
             Reschedule, Finish
    <3>4. ~Tick /\ \A m \in {"Abort", "Pause", "Resume"} : ~SendNotice(m)
      BY DEF Tick, SendNotice
    <3> QED  BY <3>1, <3>2, <3>3, <3>4 DEF NightNext, NightStep
  <2>2. npc \in {"look", "ready", "sleep"} /\ Candidate' = Candidate
    BY <2>1 DEF LookAtCandidate, ReadyOrWait, WakeUp, Candidate, scheduleVars
  <2>3. Candidate \in ScheduleEntry /\ now \in Nat
    BY <2>2, CandidateTyped DEF HasCandidate, NightTyped
  <2>4. CASE LookAtCandidate
    BY <2>2, <2>4 DEF LookAtCandidate, IsClose, Reschedule, MotorOff, equipment
  <2>5. CASE ReadyOrWait
    BY <2>2, <2>5 DEF ReadyOrWait, IsClose, Reschedule, MotorOff
  <2>6. CASE WakeUp
    <3>1. Candidate.time = now \/ Candidate.time < now
      BY <2>3, <2>6 DEF WakeUp, ScheduleEntry
    <3> QED  BY <2>2, <2>6, <3>1 DEF WakeUp, MotorOff
  <2> QED  BY <2>1, <2>4, <2>5, <2>6
<1>2. NightInv /\ [NightNext]_nightVars => [Due]_nightVars
  BY <1>1
<1> QED  BY <1>2, NightInvariant, PTL DEF NightSpec, ExecutedWhenDue
=============================================================================
