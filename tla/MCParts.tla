------------------------------- MODULE MCParts --------------------------------
(***************************************************************************)
(* What the programs of one computer share (the database, a session's      *)
(* background tasks, the name of the last image), and how they wait for    *)
(* devices.  These parts do not touch each other's state, so one of them   *)
(* runs in each behaviour and the others stay where they begin.            *)
(***************************************************************************)
EXTENDS JsonSync, BackgroundTasks, ImageNotify, IndiWait, ScopeMount

VARIABLE part  \* the part that runs

vars == <<part, jsonVars, taskVars, imageVars, indiVars, scopeVars>>

MCLength == [n \in Names |-> IF n = 2 THEN 6 ELSE 1]

\* Bound: a device meets one fault.  A part that stays meets none.
Faults(p, faults, most) == Cardinality(faults) <= IF part = p THEN most ELSE 0

Init ==
  /\ part \in {"json", "tasks", "images", "indi", "mount"}
  /\ ImageInit
  /\ JsonInit /\ Faults("json", jfaults, 3)
  /\ TaskInit /\ Faults("tasks", tfaults, 1)
  /\ IndiInit /\ Faults("indi", ifaults, 1)
  /\ ScopeInit /\ (part # "mount" => sfaults = {})
  /\ part # "indi" => device = "mount" /\ ~data_avail

Stays(p) ==
  /\ UNCHANGED part
  /\ IF p = "json" THEN TRUE ELSE UNCHANGED jsonVars
  /\ IF p = "tasks" THEN TRUE ELSE UNCHANGED taskVars
  /\ IF p = "images" THEN TRUE ELSE UNCHANGED imageVars
  /\ IF p = "indi" THEN TRUE ELSE UNCHANGED indiVars
  /\ IF p = "mount" THEN TRUE ELSE UNCHANGED scopeVars

\* The part p is the one that runs, and the others stay.
Only(p) == part = p /\ Stays(p)

Next ==
  \/ Only("json") /\ JsonNext
  \/ Only("tasks") /\ TaskNext
  \/ Only("images") /\ ImageNext
  \/ Only("indi") /\ IndiNext
  \/ Only("mount") /\ ScopeNext

\* The fairness of each part, as its module states it.
FairSpec ==
  /\ Init /\ [][Next]_vars
  /\ \A p \in Clients : WF_vars(Only("json") /\ JsonWork(p))
  /\ WF_vars(Only("tasks") /\ TaskStep) /\ WF_vars(Only("tasks") /\ TaskEnds)
  /\ \A o \in Observers : WF_vars(Only("images") /\ NotifyStep(o))
  /\ WF_vars(Only("images") /\ HandlerStep) /\ WF_vars(Only("images") /\ DeliverSignal)
  /\ WF_vars(Only("indi") /\ ProgramStep) /\ WF_vars(Only("indi") /\ InterfaceStep)
  /\ WF_vars(Only("indi") /\ DeviceStep)
  /\ WF_vars(Only("mount") /\ ScopeStep) /\ WF_vars(Only("mount") /\ MountArrives)
=============================================================================
