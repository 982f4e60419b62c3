------------------------------ MODULE IndiWait -------------------------------
(***************************************************************************)
(* How a program waits for an INDI device: the Blocker of                  *)
(* REMOTE_LIB/blocker_indi.h and the three ways it is used, by             *)
(* mount_indi.cc, focuser_indi.cc and st10xme_indi.cc.  Two threads share  *)
(* the local copy of the device's property and the flag data_avail: the    *)
(* program, and the INDI thread, which first changes the property and then *)
(* calls Signal().  The device, and what the INDI library does between the *)
(* two, are external.                                                      *)
(***************************************************************************)
EXTENDS Integers, Sequences

CONSTANTS
  Devices,        \* bound: the kinds of device that are tried
  MaxCommands,    \* bound: commands of one program
  MaxTries,       \* timeouts in a row a mount or a focuser is given (30)
  IndiFaultKinds  \* bound: the faults that may be met

\* slow: an answer takes longer than the waits allow;  silent: the device may
\* leave out a report;  chatty: a focuser reports its position as it moves, and
\* every report uses up one of the 30 waits.
ASSUME IndiWaitConstants ==
  /\ Devices \subseteq {"mount", "focuser", "camera"}
  /\ MaxCommands \in Nat /\ MaxTries \in Nat /\ MaxTries >= 3
  /\ IndiFaultKinds \subseteq {"slow", "silent", "chatty"}

VARIABLES
  ifaults, device,  \* the faults and the kind of device, chosen at the start
  ipc,              \* where the program is
  command,          \* the number of the last command
  tries,            \* timeout_count and count, counted upwards
  timedOut,         \* what Wait() returned
  data_avail,       \* of the Blocker
  state, value,     \* the local property: its state, the command it shows
  signal,           \* the callback is about to call Signal()
  orders,           \* external: commands on their way to the device
  reports,          \* external: reports on their way to the program
  busy, done        \* external: the command the device executes; the last done

programVars == <<ipc, command, tries, timedOut>>
indiVars == <<ifaults, device, programVars, data_avail, state, value, signal, orders,
              reports, busy, done>>

IndiInit ==
  /\ ifaults \in SUBSET IndiFaultKinds /\ device \in Devices
  /\ ipc = "idle" /\ command = 0 /\ tries = 0 /\ timedOut = FALSE
  /\ data_avail \in BOOLEAN   \* the constructor does not set it
  /\ state = "OK" /\ value = 0 /\ signal = FALSE
  /\ orders = <<>> /\ reports = <<>> /\ busy = 0 /\ done = 0

-----------------------------------------------------------------------------
(* The program.                                                            *)

\* Setup() before a command.
SetupCommand ==
  /\ ipc = "idle" /\ command < MaxCommands
  /\ data_avail' = FALSE
  /\ ipc' = "send"
  /\ UNCHANGED <<ifaults, device, command, tries, timedOut, state, value, signal, orders,
                 reports, busy, done>>

\* setValue() and sendNewNumber(), which marks the property as busy; the image
\* of a camera is another property.
SendCommand ==
  /\ ipc = "send"
  /\ command' = command + 1 /\ tries' = 0
  /\ orders' = Append(orders, command + 1)
  /\ IF device = "camera" THEN UNCHANGED <<state, value>>
     ELSE state' = "BUSY" /\ value' = command + 1
  /\ ipc' = IF device = "mount" THEN "sleep" ELSE "wait"
  /\ UNCHANGED <<ifaults, device, timedOut, data_avail, signal, reports, busy, done>>

\* sleep(1) of MoveTo(): what was on its way has arrived.
SleepOne ==
  /\ ipc = "sleep"
  /\ \/ "slow" \in ifaults
     \/ orders = <<>> /\ reports = <<>> /\ ~signal
  /\ ipc' = "wait"
  /\ UNCHANGED <<ifaults, device, command, tries, timedOut, data_avail, state, value,
                 signal, orders, reports, busy, done>>

\* Wait() returns 0.
WaitEnds ==
  /\ ipc = "wait" /\ data_avail
  /\ timedOut' = FALSE
  /\ ipc' = "check"
  /\ UNCHANGED <<ifaults, device, command, tries, data_avail, state, value, signal, orders,
                 reports, busy, done>>

\* Nothing moves and nothing is on its way.
Quiet == orders = <<>> /\ reports = <<>> /\ ~signal /\ busy = 0

\* Wait() returns ETIMEDOUT.  Unless the answer is slow, a device is done
\* before the waits it is given, less three for reports and a late Signal(), are
\* used up; a camera is given one.
WaitTimesOut ==
  /\ ipc = "wait" /\ ~data_avail
  /\ \/ Quiet \/ "slow" \in ifaults
     \/ device # "camera" /\ tries + 3 < MaxTries
  /\ timedOut' = TRUE
  /\ ipc' = "check"
  /\ UNCHANGED <<ifaults, device, command, tries, data_avail, state, value, signal, orders,
                 reports, busy, done>>

\* Mutant: the state of the property is not looked at.
M_CheckMount ==
  /\ device = "mount" /\ ipc = "check"
  /\ tries' = 0
  /\ ipc' = "returned"
  /\ UNCHANGED <<ifaults, device, command, timedOut, data_avail, state, value, signal,
                 orders, reports, busy, done>>

\* The loop of WaitForMoveDone(): no Setup() in it.
CheckMount ==
  /\ device = "mount" /\ ipc = "check"
  /\ tries' = IF timedOut THEN tries + 1 ELSE 0
  /\ ipc' = IF (timedOut /\ tries + 1 >= MaxTries) \/ state # "BUSY"
            THEN "returned" ELSE "wait"
  /\ UNCHANGED <<ifaults, device, command, timedOut, data_avail, state, value, signal,
                 orders, reports, busy, done>>

\* Mutant: the loop has no count.
M_CheckFocuser ==
  /\ device = "focuser" /\ ipc = "check"
  /\ ipc' = IF state # "BUSY" THEN "returned" ELSE "clear"
  /\ UNCHANGED <<ifaults, device, command, tries, timedOut, data_avail, state, value,
                 signal, orders, reports, busy, done>>

\* The loop of DoFocus(): what Wait() returned is not looked at.
CheckFocuser ==
  /\ device = "focuser" /\ ipc = "check"
  /\ tries' = tries + 1
  /\ ipc' = IF state # "BUSY" THEN "returned" ELSE "clear"
  /\ UNCHANGED <<ifaults, device, command, timedOut, data_avail, state, value, signal,
                 orders, reports, busy, done>>

\* Setup() at its end: a Signal() since the check is forgotten.
ClearFocuser ==
  /\ ipc = "clear"
  /\ data_avail' = FALSE
  /\ ipc' = IF tries >= MaxTries THEN "returned" ELSE "wait"
  /\ UNCHANGED <<ifaults, device, command, tries, timedOut, state, value, signal, orders,
                 reports, busy, done>>

\* WaitForImage(), after which ReceiveImage() takes what is in the property.
CheckCamera ==
  /\ device = "camera" /\ ipc = "check"
  /\ ipc' = "returned"
  /\ UNCHANGED <<ifaults, device, command, tries, timedOut, data_avail, state, value,
                 signal, orders, reports, busy, done>>

NextCommand ==
  /\ ipc = "returned"
  /\ ipc' = "idle"
  /\ UNCHANGED <<ifaults, device, command, tries, timedOut, data_avail, state, value,
                 signal, orders, reports, busy, done>>

-----------------------------------------------------------------------------
(* The INDI thread.                                                        *)

Update ==
  /\ ~signal /\ reports # <<>>
  /\ state' = Head(reports).state /\ value' = Head(reports).value
  /\ reports' = Tail(reports)
  /\ signal' = TRUE
  /\ UNCHANGED <<ifaults, device, programVars, data_avail, orders, busy, done>>

SignalBlocker ==
  /\ signal /\ signal' = FALSE
  /\ data_avail' = TRUE
  /\ UNCHANGED <<ifaults, device, programVars, state, value, orders, reports, busy, done>>

-----------------------------------------------------------------------------
(* The device.  A camera reports only its images.                          *)

Report(s, v) ==
  \/ reports' = Append(reports, [state |-> s, value |-> v])
  \/ "silent" \in ifaults /\ UNCHANGED reports

AcceptOrder ==
  /\ busy = 0 /\ orders # <<>>
  /\ busy' = Head(orders) /\ orders' = Tail(orders)
  /\ IF device = "camera" THEN UNCHANGED reports ELSE Report("BUSY", done)
  /\ UNCHANGED <<ifaults, device, programVars, data_avail, state, value, signal, done>>

OrderDone ==
  /\ busy # 0
  /\ busy' = 0 /\ done' = busy
  /\ Report("OK", busy)
  /\ UNCHANGED <<ifaults, device, programVars, data_avail, state, value, signal, orders>>

\* A mount reports where it is, again and again.
Poll ==
  /\ \/ device = "mount"
     \/ device = "focuser" /\ "chatty" \in ifaults /\ busy # 0
  /\ reports = <<>>
  /\ Report(IF busy = 0 THEN "OK" ELSE "BUSY", done)
  /\ UNCHANGED <<ifaults, device, programVars, data_avail, state, value, signal, orders,
                 busy, done>>

-----------------------------------------------------------------------------
ProgramStep ==
  \/ SendCommand \/ SleepOne \/ WaitEnds \/ WaitTimesOut \/ CheckMount \/ CheckFocuser
  \/ ClearFocuser \/ CheckCamera
InterfaceStep == Update \/ SignalBlocker
DeviceStep == AcceptOrder \/ OrderDone

IndiNext ==
  SetupCommand \/ NextCommand \/ ProgramStep \/ InterfaceStep \/ DeviceStep \/ Poll

IndiSpec == IndiInit /\ [][IndiNext]_indiVars

\* The threads run, and the device does what it was told.
IndiFairSpec ==
  /\ IndiSpec
  /\ WF_indiVars(ProgramStep) /\ WF_indiVars(InterfaceStep) /\ WF_indiVars(DeviceStep)

-----------------------------------------------------------------------------
(* Properties.                                                             *)

\* When a move, a focus change or an exposure returns, the device has done it,
\* and the image is that of this exposure: in spite of what was left in
\* data_avail, of reports from before the command, and of a Signal() that comes
\* between two looks at the property.
DoneMeansDone ==
  ifaults = {} /\ ipc = "returned" =>
    /\ done = command
    /\ device = "camera" => value = command

\* Every wait ends, also when the device leaves out reports, but for that of a
\* mount: data_avail stays set, and its timeout can never happen.
EveryWaitEnds ==
  ipc = "wait" /\ (device # "mount" \/ "silent" \notin ifaults) ~> ipc = "returned"
=============================================================================
