------------------------------- MODULE Cooler --------------------------------
(***************************************************************************)
(* The cooler thread of the camera server: CCD_SERVER/cooler.cc, and the   *)
(* message thread that gives it its orders, ccd_message_handler.cc.  An    *)
(* order is a mode and a value, written one after the other without a      *)
(* lock; the camera lock protects only the calls of the camera library.    *)
(* Temperatures and powers are small numbers, and the regulator is what it *)
(* works towards and how old the errors are that it has added up.          *)
(***************************************************************************)
EXTENDS Integers

CONSTANTS
  Values,           \* bound: the setpoints and powers that are ordered
  LeftOver,         \* the power an earlier run left in the camera
  MaxOrders,        \* bound: orders after that of initialize_ccd()
  RampPoints,       \* bound: points of a ramp
  CoolerFaultKinds  \* bound: the faults that may be met

\* refuse: a call of the camera library may fail;  leftover: the camera has a
\* power left from an earlier run when the server starts.
ASSUME CoolerConstants ==
  /\ Values \subseteq Nat \ {0} /\ Values # {} /\ LeftOver \in Nat
  /\ MaxOrders \in Nat /\ RampPoints \in Nat \ {0}
  /\ CoolerFaultKinds \subseteq {"refuse", "leftover"}

VARIABLES
  cfaults,        \* the faults of this behaviour, chosen at the start
  CoolerModeDesired, CoolerTempCommand, CoolerPWMCommand, CoolerCurrentMode,
  kpc,            \* where the cooler thread is
  mode_seen,      \* the mode its switch() read
  prior_request, prior_target_temp,
  current_ramp,   \* how many points the ramp has left
  power,        \* the order the thread is about to give the camera
  stale,          \* history: a pass in another mode came after the last error
  crossed,        \* history: the mode was written during the last other pass
  lpc,            \* where the message thread is
  order,          \* the last order
  ordered,        \* how many there were
  CameraData,     \* what status messages tell: manual mode, and the setpoint
  told,           \* history: what a client was told since the last order
  relied,         \* history: what it had been told when the last pass began
  camera_mutex,   \* whether the message thread holds it
  chip,           \* external: the setpoint the chip is near to, or 0
  hardware        \* external: the last order the camera took

coolerData == <<CoolerModeDesired, CoolerTempCommand, CoolerPWMCommand>>
regulator == <<prior_target_temp, current_ramp, stale>>
messageVars == <<lpc, order, ordered, camera_mutex>>
clientVars == <<CameraData, told, relied>>
coolerVars == <<cfaults, coolerData, CoolerCurrentMode, kpc, mode_seen, prior_request,
                regulator, power, crossed, messageVars, clientVars, chip, hardware>>

Order(m, v) == [mode |-> m, value |-> v]
Off == Order("OFF", 0)
Orders == {Off} \cup {Order(m, v) : m \in {"MAN", "AUTO"}, v \in Values}

\* initialize_ccd() has started the thread, and goes on to the camera lock.
CoolerInit ==
  /\ cfaults \in SUBSET CoolerFaultKinds
  /\ CoolerModeDesired = "MAN" /\ CoolerTempCommand = 0 /\ CoolerPWMCommand = 0
  /\ CoolerCurrentMode = "POWEROFF"
  /\ kpc = "sleep" /\ mode_seen = "OFF" /\ prior_request = "OFF"
  /\ prior_target_temp = 0 /\ current_ramp = 0 /\ power = Off
  /\ stale = TRUE /\ crossed = FALSE /\ chip = 0
  /\ lpc = "boot" /\ order = Order("MAN", 0) /\ ordered = 0 /\ camera_mutex = FALSE
  /\ CameraData = [CoolerManualMode |-> FALSE, CoolerTempCommand |-> 0]
  /\ told = Off /\ relied = Off
  /\ hardware = IF "leftover" \in cfaults THEN Order("MAN", LeftOver) ELSE Off

-----------------------------------------------------------------------------
(* The message thread.                                                     *)

\* Mutant: the flag is only cleared.
M_WriteMode(o) ==
  /\ order' = o
  /\ CoolerModeDesired' = o.mode
  /\ CameraData' = IF o.mode = "AUTO" THEN [CoolerManualMode |-> FALSE,
                                            CoolerTempCommand |-> o.value]
                                      ELSE CameraData
  /\ told' = Off /\ relied' = Off
  /\ crossed' = (crossed \/ (kpc \in {"ramp", "set", "prior"} /\ mode_seen # "AUTO"))
  /\ lpc' = IF o.mode = "OFF" THEN "idle" ELSE "value"

\* The mode is written first, after what clients are told of it.  The
\* initialisation tells them of a manual mode and of 30 degrees, for which 0
\* stands, though it orders the regulator to work towards 10.
WriteMode(o) ==
  /\ order' = o
  /\ CoolerModeDesired' = o.mode
  /\ CameraData' = [CoolerManualMode |-> o.mode # "AUTO" \/ lpc = "locked",
                    CoolerTempCommand |-> IF o.mode = "AUTO" /\ lpc # "locked"
                                          THEN o.value ELSE CameraData.CoolerTempCommand]
  /\ told' = Off /\ relied' = Off
  /\ crossed' = IF kpc \in {"ramp", "set", "prior"} /\ mode_seen # "AUTO"
                THEN TRUE ELSE crossed
  /\ lpc' = IF o.mode = "OFF" THEN "idle" ELSE "value"

\* InitializeCameraStatus(), with the lock held from before it to the end of it.
LockForInit ==
  /\ lpc = "boot" /\ ~camera_mutex
  /\ camera_mutex' = TRUE
  /\ lpc' = "locked"
  /\ UNCHANGED <<cfaults, coolerData, CoolerCurrentMode, kpc, mode_seen, prior_request,
                 regulator, power, crossed, order, ordered, clientVars, chip, hardware>>

InitializeCameraStatus ==
  /\ lpc = "locked"
  /\ \E v \in Values : WriteMode(Order("AUTO", v))
  /\ UNCHANGED <<cfaults, CoolerTempCommand, CoolerPWMCommand, CoolerCurrentMode, kpc,
                 mode_seen, prior_request, regulator, power, ordered, camera_mutex,
                 chip, hardware>>

\* handle_cooler_message() takes no lock for an order.
HandleCoolerMessage(o) ==
  /\ lpc = "idle" /\ ordered < MaxOrders
  /\ WriteMode(o)
  /\ ordered' = ordered + 1
  /\ UNCHANGED <<cfaults, CoolerTempCommand, CoolerPWMCommand, CoolerCurrentMode, kpc,
                 mode_seen, prior_request, regulator, power, camera_mutex, chip, hardware>>

\* The value comes second; the initialisation also sets a power (3), and gives
\* its lock back.
WriteValue ==
  /\ lpc = "value"
  /\ IF order.mode = "AUTO"
     THEN /\ CoolerTempCommand' = order.value
          /\ CoolerPWMCommand' \in IF ordered = 0 THEN Values ELSE {CoolerPWMCommand}
     ELSE CoolerPWMCommand' = order.value /\ UNCHANGED CoolerTempCommand
  /\ camera_mutex' = FALSE
  /\ lpc' = "idle"
  /\ UNCHANGED <<cfaults, CoolerModeDesired, CoolerCurrentMode, kpc, mode_seen,
                 prior_request, regulator, power, crossed, order, ordered, clientVars, chip,
                 hardware>>

\* An exposure, a status query or a readout that needs the camera.
UseCamera ==
  /\ lpc = "idle" /\ ~camera_mutex
  /\ camera_mutex' = TRUE
  /\ lpc' = "camera"
  /\ UNCHANGED <<cfaults, coolerData, CoolerCurrentMode, kpc, mode_seen, prior_request,
                 regulator, power, crossed, order, ordered, clientVars, chip, hardware>>

\* A status message, with the lock held: it tells OFF when the power that the
\* camera measures is 0, which it may be in any mode, and it does not matter to
\* told; else whether the mode is manual, and the setpoint.
SendStatusMessage ==
  /\ lpc = "camera"
  /\ \/ CameraData.CoolerManualMode /\ told' = Order("MAN", 0)
     \/ /\ ~CameraData.CoolerManualMode
        /\ told' = Order("AUTO", CameraData.CoolerTempCommand)
  /\ UNCHANGED <<cfaults, coolerData, CoolerCurrentMode, kpc, mode_seen, prior_request,
                 regulator, power, crossed, messageVars, CameraData, relied, chip, hardware>>

ReleaseCamera ==
  /\ lpc = "camera"
  /\ camera_mutex' = FALSE
  /\ lpc' = "idle"
  /\ UNCHANGED <<cfaults, coolerData, CoolerCurrentMode, kpc, mode_seen, prior_request,
                 regulator, power, crossed, order, ordered, clientVars, chip, hardware>>

-----------------------------------------------------------------------------
(* The cooler thread: one pass of ControlCooler().                         *)

\* RefreshCoolerStatus() with the lock; the humidity may not be had.
RefreshCoolerStatus ==
  /\ kpc = "sleep" /\ ~camera_mutex
  /\ \/ UNCHANGED CoolerCurrentMode
     \/ "refuse" \in cfaults /\ CoolerCurrentMode' = "ERROR"
  /\ kpc' = "switch"
  /\ UNCHANGED <<cfaults, coolerData, mode_seen, prior_request, regulator, power,
                 crossed, messageVars, clientVars, chip, hardware>>

\* Mutant: the regulator is never reset.
M_Regulate ==
  /\ kpc = "switch" /\ CoolerModeDesired = "AUTO"
  /\ mode_seen' = "AUTO" /\ CoolerCurrentMode' = "REGULATING"
  /\ current_ramp' = IF prior_target_temp # CoolerTempCommand THEN 0 ELSE current_ramp
  /\ prior_target_temp' = CoolerTempCommand
  /\ kpc' = "ramp" /\ relied' = told
  /\ UNCHANGED <<cfaults, coolerData, prior_request, power, stale, crossed, messageVars,
                 CameraData, told, chip, hardware>>

\* case COOLER_AUTO: Reset() unless the pass before was such a pass too, and
\* the beginning of Cycle().
Regulate ==
  /\ kpc = "switch" /\ CoolerModeDesired = "AUTO"
  /\ mode_seen' = "AUTO" /\ CoolerCurrentMode' = "REGULATING"
  /\ stale' = IF prior_request # "AUTO" THEN FALSE ELSE stale
  /\ current_ramp' = IF prior_request # "AUTO" \/ prior_target_temp # CoolerTempCommand
                     THEN 0 ELSE current_ramp
  /\ prior_target_temp' = CoolerTempCommand
  /\ kpc' = "ramp" /\ relied' = told
  /\ UNCHANGED <<cfaults, coolerData, prior_request, power, crossed, messageVars,
                 CameraData, told, chip, hardware>>

\* The middle of Cycle(): a ramp is started when the chip is far from the
\* setpoint, its next point is taken, or the setpoint itself; then the error is
\* added up.  A ramp brings the chip near to the setpoint, where it stays.  A
\* value of 0 stands for a point of a ramp.
Ramp ==
  /\ kpc = "ramp"
  /\ \E far \in BOOLEAN :
       LET points == IF current_ramp = 0 /\ far THEN RampPoints ELSE current_ramp
       IN /\ far => chip # CoolerTempCommand
          /\ IF points > 0
             THEN /\ current_ramp' = points - 1
                  /\ power' = Order("AUTO", 0)
                  /\ chip' = IF points = 1 THEN CoolerTempCommand ELSE 0
             ELSE /\ UNCHANGED current_ramp
                  /\ power' = Order("AUTO", CoolerTempCommand)
                  /\ chip' = CoolerTempCommand
  /\ stale' = FALSE
  /\ kpc' = "set"
  /\ UNCHANGED <<cfaults, coolerData, CoolerCurrentMode, mode_seen, prior_request,
                 prior_target_temp, crossed, messageVars, clientVars, hardware>>

\* case COOLER_MAN: the power is read when the lock is held.
Manual ==
  /\ kpc = "switch" /\ CoolerModeDesired = "MAN"
  /\ mode_seen' = "MAN"
  /\ stale' = TRUE /\ crossed' = FALSE /\ chip' = 0
  /\ kpc' = "set" /\ relied' = told
  /\ UNCHANGED <<cfaults, coolerData, CoolerCurrentMode, prior_request, prior_target_temp,
                 current_ramp, power, messageVars, CameraData, told, hardware>>

\* Mutant: the power is taken away only in the first pass.
M_PowerOff ==
  /\ kpc = "switch" /\ CoolerModeDesired = "OFF"
  /\ mode_seen' = "OFF"
  /\ stale' = TRUE /\ crossed' = FALSE /\ chip' = 0
  /\ kpc' = IF prior_request # "OFF" THEN "set" ELSE "prior"
  /\ relied' = told
  /\ UNCHANGED <<cfaults, coolerData, CoolerCurrentMode, prior_request, prior_target_temp,
                 current_ramp, power, messageVars, CameraData, told, hardware>>

\* case COOLER_OFF: nothing to do once the power is off.
PowerOff ==
  /\ kpc = "switch" /\ CoolerModeDesired = "OFF"
  /\ mode_seen' = "OFF"
  /\ stale' = TRUE /\ crossed' = FALSE /\ chip' = 0
  /\ kpc' = IF CoolerCurrentMode # "POWEROFF" THEN "set" ELSE "prior"
  /\ relied' = told
  /\ UNCHANGED <<cfaults, coolerData, CoolerCurrentMode, prior_request, prior_target_temp,
                 current_ramp, power, messageVars, CameraData, told, hardware>>

\* What is given to SetQHYCCDParam().
Command ==
  CASE mode_seen = "AUTO" -> power
    [] mode_seen = "MAN"  -> Order("MAN", CoolerPWMCommand)
    [] mode_seen = "OFF"  -> Off

\* SetQHYCCDParam(), which may fail; the regulator does not mind.
SetParam ==
  /\ kpc = "set" /\ ~camera_mutex
  /\ \/ /\ hardware' = Command /\ UNCHANGED relied
        /\ CoolerCurrentMode' = CASE mode_seen = "AUTO" -> CoolerCurrentMode
                                  [] mode_seen = "MAN"  -> "MANPWM"
                                  [] mode_seen = "OFF"  -> "POWEROFF"
     \/ /\ "refuse" \in cfaults /\ UNCHANGED hardware /\ relied' = Off
        /\ CoolerCurrentMode' = IF mode_seen = "AUTO" THEN CoolerCurrentMode ELSE "ERROR"
  /\ kpc' = "prior"
  /\ UNCHANGED <<cfaults, coolerData, mode_seen, prior_request, regulator, power,
                 crossed, messageVars, CameraData, told, chip>>

\* The end of the pass: the mode is read again.
EndPass ==
  /\ kpc = "prior"
  /\ prior_request' = CoolerModeDesired
  /\ kpc' = "sleep"
  /\ UNCHANGED <<cfaults, coolerData, CoolerCurrentMode, mode_seen, regulator, power,
                 crossed, messageVars, clientVars, chip, hardware>>

-----------------------------------------------------------------------------
CoolerStep ==
  RefreshCoolerStatus \/ Regulate \/ Ramp \/ Manual \/ PowerOff \/ SetParam \/ EndPass
MessageStep == LockForInit \/ InitializeCameraStatus \/ WriteValue \/ ReleaseCamera

CoolerNext ==
  \/ CoolerStep \/ MessageStep \/ UseCamera \/ SendStatusMessage
  \/ \E o \in Orders : HandleCoolerMessage(o)

CoolerSpec == CoolerInit /\ [][CoolerNext]_coolerVars

\* The camera takes the power.
Reach == SetParam /\ hardware' = Command

\* Both threads run, the mutex is fair, and a call that is repeated succeeds
\* again and again.
CoolerFairSpec ==
  /\ CoolerSpec
  /\ WF_coolerVars(MessageStep) /\ SF_coolerVars(CoolerStep) /\ SF_coolerVars(Reach)

-----------------------------------------------------------------------------
(* Properties.                                                             *)

CoolerModes == {"OFF", "MAN", "AUTO"}

\* Every variable stays in its set.
CoolerTypeOK ==
  /\ cfaults \subseteq CoolerFaultKinds
  /\ CoolerModeDesired \in CoolerModes /\ mode_seen \in CoolerModes
  /\ prior_request \in CoolerModes
  /\ CoolerTempCommand \in Values \cup {0} /\ CoolerPWMCommand \in Values \cup {0}
  /\ prior_target_temp \in Values \cup {0}
  /\ CoolerCurrentMode \in {"POWEROFF", "MANPWM", "REGULATING", "ERROR"}
  /\ kpc \in {"sleep", "switch", "ramp", "set", "prior"}
  /\ current_ramp \in 0 .. RampPoints
  /\ power \in [mode : CoolerModes, value : Values \cup {0}]
  /\ hardware \in [mode : CoolerModes, value : Values \cup {0, LeftOver}]
  /\ order \in [mode : CoolerModes, value : Values \cup {0}]
  /\ CameraData \in [CoolerManualMode : BOOLEAN, CoolerTempCommand : Values \cup {0}]
  /\ told \in [mode : CoolerModes, value : Values \cup {0}]
  /\ relied \in [mode : CoolerModes, value : Values \cup {0}]
  /\ stale \in BOOLEAN /\ crossed \in BOOLEAN /\ camera_mutex \in BOOLEAN
  /\ chip \in Values \cup {0}
  /\ lpc \in {"boot", "locked", "value", "idle", "camera"} /\ ordered \in 0 .. MaxOrders

\* What a client was told of the cooler since the last order, by which a session
\* decides whether to start it, is what the camera has been given at the end of
\* every pass that began after that and whose call the camera took: to work
\* towards the setpoint told, at the end of a ramp or on it, or a power that is
\* not the regulator's.  Excepted is what is told before the first order of a
\* client, the manual mode of the initialisation.
ToldIsKept ==
  kpc \in {"prior", "sleep", "switch"} =>
    /\ relied.mode = "AUTO" => hardware \in {relied, Order("AUTO", 0)}
    /\ relied.mode = "MAN" /\ ordered > 0 => hardware.mode # "AUTO"

\* Cycle() never adds to errors from before a pass in another mode, unless an
\* order came in the middle of that pass: the pass then leaves the new mode in
\* prior_request, and Reset() is skipped.
RegulatorFresh == kpc = "ramp" /\ stale => crossed

\* Once the server has begun to give orders, in the end the camera has the power
\* of the last one, though mode and value are written apart, in the middle of a
\* pass, and calls fail.
CoolerSettles == lpc = "locked" /\ "leftover" \notin cfaults ~> [](hardware = order)
=============================================================================
