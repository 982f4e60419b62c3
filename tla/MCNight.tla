------------------------------- MODULE MCNight --------------------------------
(***************************************************************************)
(* A night, the messages that its programs leave for each other, the       *)
(* search of the scheduler program, the timetable that it makes of each    *)
(* order, and the cooler of the camera.  In the models they do not touch   *)
(* each other's state, so one of them runs in each behaviour and the       *)
(* others stay where they begin.                                           *)
(***************************************************************************)
EXTENDS Night, ProcMessages, ScheduleSearch, Timetable, Cooler
LOCAL INSTANCE SequencesExt

VARIABLE part  \* the part that runs

vars == <<part, nightVars, msgVars, searchVars, timetableVars, coolerVars>>

MCOptions ==
  [keep_cooler_running : {FALSE}, park_at_end : {TRUE}, use_work_queue : {TRUE}]
MCPastTable == {-3}
MCScore(c) == IF 3 \in DOMAIN c THEN (c[0] + 2 * c[1]) % 4 ELSE 1

\* Bound: a night meets one fault, or messages of the user.  A part that stays begins in one way only.
Init ==
  /\ part \in {"night", "messages", "search", "timetable", "cooler"}
  /\ NightInit /\ Cardinality(nfaults) <= 1
  /\ part # "night" => nfaults = {} /\ action = 0
  /\ MsgInit
  /\ CoolerInit /\ (part # "cooler" => cfaults = {})
  /\ SearchInit
  /\ part # "search" =>
       /\ SIZEOFCHROMOSOME = 4
       /\ \A i \in Individuals \ {0} :
            population[i].chromosome = Rotate(InOrder(4), 0, 1, 1)
  /\ TimetableInit
  /\ part # "timetable" =>
       /\ \A e, f \in Fixed : start[e] = start[f] /\ start[e] = 1
       /\ chromosome = SetToSeq(Elements)

Observing == part = "night" /\ UNCHANGED <<part, msgVars, searchVars, timetableVars, coolerVars>>
Talking == part = "messages" /\ UNCHANGED <<part, nightVars, searchVars, timetableVars, coolerVars>>
Searching == part = "search" /\ UNCHANGED <<part, nightVars, msgVars, timetableVars, coolerVars>>
Placing == part = "timetable" /\ UNCHANGED <<part, nightVars, msgVars, searchVars, coolerVars>>
Cooling == part = "cooler" /\ UNCHANGED <<part, nightVars, msgVars, searchVars, timetableVars>>

Next ==
  \/ Observing /\ NightNext /\ (nfaults # {} => sent' = 0)
  \/ Talking /\ MsgNext
  \/ Searching /\ SearchNext
  \/ Placing /\ TimetableNext
  \/ Cooling /\ CoolerNext

Spec == Init /\ [][Next]_vars

\* The fairness of the night and of the cooler, as their modules state it.
FairSpec ==
  /\ Spec
  /\ WF_vars(Observing /\ NightStep) /\ WF_vars(Observing /\ Tick)
  /\ WF_vars(Cooling /\ MessageStep) /\ SF_vars(Cooling /\ CoolerStep)
  /\ SF_vars(Cooling /\ Reach)
=============================================================================
