---------------------------- MODULE DeviceProofs -----------------------------
(****************************************************************************)
(* Proofs about Cooler, IndiWait and ScopeMount, the programs that wait for *)
(* a device: what clients are told of the cooler, when an INDI client       *)
(* returns, and when a goto is over, for any orders, faults and number of   *)
(* programs.                                                                *)
(****************************************************************************)
EXTENDS Cooler, IndiWait, ScopeMount, SequenceTheorems, WellFoundedInduction, TLAPS

-----------------------------------------------------------------------------
(****************************************************************************)
(* Cooler: whatever the order of the steps of both threads.                *)
(****************************************************************************)

\* The mode while the regulator is at work, which SetParam relies on, and why a
\* pass with COOLER_OFF may leave the camera alone.
PowerOffKnown ==
  /\ kpc \in {"ramp", "set"} /\ mode_seen = "AUTO" => CoolerCurrentMode = "REGULATING"
  /\ CoolerCurrentMode = "POWEROFF" => hardware.mode # "AUTO"

\* Where the errors of the regulator may be old: each place of the pass hands
\* this on to the next, and the end of the pass to the next pass.
Freshness ==
  /\ kpc = "ramp" => mode_seen = "AUTO"
  /\ kpc \in {"set", "prior"} /\ mode_seen = "AUTO" => ~stale
  /\ kpc \in {"set", "prior"} /\ mode_seen # "AUTO" /\ CoolerModeDesired = "AUTO" => crossed
  /\ kpc \in {"sleep", "switch"} /\ prior_request = "AUTO" /\ stale => crossed

\* What status messages tell and what the thread reads are one order, between
\* the orders of clients, and what a client was told is what they tell.
Resting == lpc \in {"idle", "camera"}
OneOrder ==
  /\ lpc \in {"boot", "locked"} => ordered = 0
  /\ CameraData.CoolerManualMode /\ ordered > 0 => CoolerModeDesired # "AUTO"
  /\ ~CameraData.CoolerManualMode /\ lpc = "value" =>
       CoolerModeDesired = "AUTO" /\ order = Order("AUTO", CameraData.CoolerTempCommand)
  /\ ~CameraData.CoolerManualMode /\ Resting =>
       CoolerModeDesired = "AUTO" /\ CoolerTempCommand = CameraData.CoolerTempCommand
ToldStands(t) ==
  /\ t.mode = "AUTO" => /\ Resting /\ ~CameraData.CoolerManualMode
                        /\ t = Order("AUTO", CameraData.CoolerTempCommand)
  /\ t.mode = "MAN" => Resting /\ CameraData.CoolerManualMode

\* A pass that a client relies on works on what the client was told.
Reliance ==
  /\ relied.mode = "AUTO" /\ kpc \in {"ramp", "set"} => mode_seen = "AUTO"
  /\ relied.mode = "AUTO" /\ kpc = "set" => power \in {relied, Order("AUTO", 0)}
  /\ relied.mode = "MAN" /\ ordered > 0 /\ kpc \in {"ramp", "set"} => mode_seen # "AUTO"

CoolerInv ==
  /\ CoolerTypeOK /\ PowerOffKnown /\ Freshness /\ RegulatorFresh
  /\ OneOrder /\ ToldStands(told) /\ ToldStands(relied) /\ Reliance /\ ToldIsKept

-----------------------------------------------------------------------------
LEMMA CoolerInitInv == CoolerInit => CoolerInv
<1> SUFFICES ASSUME CoolerInit PROVE CoolerInv
  OBVIOUS
<1>1. hardware \in [mode : CoolerModes, value : Values \cup {0, LeftOver}]
      /\ hardware.mode # "AUTO"
  BY DEF CoolerInit, CoolerModes, Off, Order
<1>2. \A x \in {power, order, told, relied} : x \in [mode : CoolerModes, value : Values \cup {0}]
  BY DEF CoolerInit, CoolerModes, Off, Order
<1>3. /\ current_ramp \in 0 .. RampPoints /\ ordered \in 0 .. MaxOrders
      /\ CameraData \in [CoolerManualMode : BOOLEAN, CoolerTempCommand : Values \cup {0}]
  BY CoolerConstants DEF CoolerInit
<1>4. CoolerTypeOK
  BY <1>1, <1>2, <1>3 DEF CoolerInit, CoolerTypeOK, CoolerModes
<1>5. told.mode = "OFF" /\ relied.mode = "OFF"
  BY DEF CoolerInit, Off, Order
<1>6. ToldStands(told) /\ ToldStands(relied) /\ Reliance /\ ToldIsKept
  BY <1>5 DEF ToldStands, Reliance, ToldIsKept
<1>7. OneOrder /\ PowerOffKnown /\ Freshness /\ RegulatorFresh
  BY <1>1 DEF CoolerInit, OneOrder, Resting, PowerOffKnown, Freshness, RegulatorFresh
<1> QED
  BY <1>4, <1>6, <1>7 DEF CoolerInv

\* The value of an order is a setpoint or a power.
LEMMA OrdersType == Orders \subseteq [mode : CoolerModes, value : Values \cup {0}]
BY DEF Orders, Off, Order, CoolerModes

\* A step that leaves an order, what is told of it and the cooler thread alone
\* keeps everything but, perhaps, the types.
LEMMA NothingTold ==
  ASSUME CoolerInv, CoolerTypeOK',
         UNCHANGED <<CoolerModeDesired, CoolerTempCommand, CoolerCurrentMode, kpc, mode_seen,
                     prior_request, stale, power, crossed, order, ordered, clientVars,
                     hardware>>,
         lpc' # "value" /\ (lpc' \in {"boot", "locked"} => lpc \in {"boot", "locked"}),
         lpc' \in {"idle", "camera"} <=> lpc \in {"idle", "camera"}
  PROVE  CoolerInv'
<1> USE DEF clientVars
<1>1. (PowerOffKnown /\ Freshness /\ RegulatorFresh /\ Reliance /\ ToldIsKept)'
  BY DEF CoolerInv, PowerOffKnown, Freshness, RegulatorFresh, Reliance, ToldIsKept, Order
<1>2. (OneOrder /\ ToldStands(told) /\ ToldStands(relied))'
  BY DEF CoolerInv, OneOrder, ToldStands, Resting, Order
<1> QED  BY <1>1, <1>2 DEF CoolerInv

\* Steps of the message thread: they write the mode, and the value later.
LEMMA MessageStepInv ==
  ASSUME CoolerInv,
         MessageStep \/ UseCamera \/ SendStatusMessage \/ \E o \in Orders : HandleCoolerMessage(o)
  PROVE  CoolerInv'
<1> USE DEF coolerData, regulator, messageVars, clientVars
<1>1. ASSUME NEW o \in [mode : CoolerModes, value : Values \cup {0}], WriteMode(o),
             o = Order(o.mode, o.value),
             ordered' \in 0 .. MaxOrders, camera_mutex' \in BOOLEAN,
             lpc = "locked" => o.mode = "AUTO" /\ ordered' = 0,
             UNCHANGED <<cfaults, CoolerTempCommand, CoolerPWMCommand, CoolerCurrentMode, kpc,
                         mode_seen, prior_request, regulator, power, chip, hardware>>
      PROVE  CoolerInv'
  <2>0. crossed' \in BOOLEAN /\ lpc' \in {"idle", "value"}
    BY <1>1 DEF WriteMode, CoolerTypeOK, CoolerInv
  <2>1. CoolerModeDesired' \in CoolerModes
        /\ order' \in [mode : CoolerModes, value : Values \cup {0}]
    BY <1>1 DEF WriteMode
  <2>2. told' = Off /\ relied' = Off /\ Off \in [mode : CoolerModes, value : Values \cup {0}]
        /\ Off.mode = "OFF"
    BY <1>1 DEF WriteMode, Off, Order, CoolerModes
  <2>3. CameraData' \in [CoolerManualMode : BOOLEAN, CoolerTempCommand : Values \cup {0}]
    BY <1>1 DEF WriteMode, CoolerTypeOK, CoolerInv
  <2>4. CoolerTypeOK'
    BY <1>1, <2>0, <2>1, <2>2, <2>3 DEF CoolerTypeOK, CoolerInv
  <2>5. Freshness' /\ RegulatorFresh'
    BY <1>1 DEF WriteMode, CoolerTypeOK, Freshness, RegulatorFresh, CoolerInv
  <2>6. ToldStands(told)' /\ ToldStands(relied)' /\ Reliance' /\ ToldIsKept'
    BY <2>2 DEF ToldStands, Reliance, ToldIsKept
  <2>7. OneOrder'
    <3>1. CASE lpc = "locked"
      <4>1. CameraData'.CoolerManualMode = (o.mode # "AUTO" \/ lpc = "locked")
        BY <1>1 DEF WriteMode
      <4>2. CameraData'.CoolerManualMode /\ lpc' = "value" /\ ordered' = 0
        BY <1>1, <3>1, <4>1 DEF WriteMode
      <4> QED  BY <4>2 DEF OneOrder, Resting
    <3>2. CASE lpc # "locked"
      <4>1. /\ CameraData'.CoolerManualMode = (o.mode # "AUTO")
            /\ o.mode = "AUTO" => CameraData'.CoolerTempCommand = o.value
            /\ order' = o /\ CoolerModeDesired' = o.mode
            /\ o.mode = "AUTO" => lpc' = "value"
        BY <1>1, <3>2 DEF WriteMode
      <4>2. CameraData'.CoolerManualMode => CoolerModeDesired' # "AUTO"
        BY <4>1
      <4>3. ~CameraData'.CoolerManualMode => order' = Order("AUTO", CameraData'.CoolerTempCommand)
        BY <1>1, <4>1
      <4> QED  BY <2>0, <4>1, <4>2, <4>3 DEF OneOrder, Resting
    <3> QED  BY <3>1, <3>2
  <2>8. PowerOffKnown'
    BY <1>1 DEF PowerOffKnown, CoolerInv
  <2> QED
    BY <2>4, <2>5, <2>6, <2>7, <2>8 DEF CoolerInv
<1>2. CASE LockForInit \/ ReleaseCamera \/ UseCamera
  <2>1. camera_mutex' \in BOOLEAN /\ lpc' \in {"locked", "idle", "camera"}
    BY <1>2 DEF LockForInit, ReleaseCamera, UseCamera
  <2>2. CoolerTypeOK'
    BY <1>2, <2>1 DEF LockForInit, ReleaseCamera, UseCamera, CoolerTypeOK, CoolerInv
  <2> QED
    BY <1>2, <2>2, NothingTold DEF LockForInit, ReleaseCamera, UseCamera
<1>3. CASE InitializeCameraStatus
  <2>1. PICK v \in Values : WriteMode(Order("AUTO", v))
    BY <1>3 DEF InitializeCameraStatus
  <2>2. Order("AUTO", v) \in [mode : CoolerModes, value : Values \cup {0}]
        /\ Order("AUTO", v).mode = "AUTO" /\ Order("AUTO", v).value = v
    BY DEF Order, CoolerModes
  <2>3. ordered' = 0 /\ ordered' \in 0 .. MaxOrders /\ camera_mutex' \in BOOLEAN
    BY <1>3 DEF InitializeCameraStatus, OneOrder, CoolerInv, CoolerTypeOK
  <2> QED  BY <1>1, <1>3, <2>1, <2>2, <2>3 DEF InitializeCameraStatus
<1>4. CASE \E o \in Orders : HandleCoolerMessage(o)
  <2>1. PICK o \in Orders : HandleCoolerMessage(o)
    BY <1>4
  <2>2. o \in [mode : CoolerModes, value : Values \cup {0}] /\ o = Order(o.mode, o.value)
    BY OrdersType DEF Orders, Off, Order
  <2>3. ordered' \in 0 .. MaxOrders /\ lpc # "locked" /\ camera_mutex' \in BOOLEAN
    BY <2>1, CoolerConstants DEF HandleCoolerMessage, CoolerTypeOK, CoolerInv
  <2> QED  BY <1>1, <2>1, <2>2, <2>3 DEF HandleCoolerMessage
<1>5. CASE SendStatusMessage
  <2>1. \/ CameraData.CoolerManualMode /\ told' = Order("MAN", 0)
        \/ ~CameraData.CoolerManualMode /\ told' = Order("AUTO", CameraData.CoolerTempCommand)
    BY <1>5, Zenon DEF SendStatusMessage
  <2>2. told' \in [mode : CoolerModes, value : Values \cup {0}]
    BY <2>1 DEF Order, CoolerModes, CoolerTypeOK, CoolerInv
  <2>3. CoolerTypeOK'
    BY <1>5, <2>2 DEF SendStatusMessage, CoolerTypeOK, CoolerInv
  <2>4. ToldStands(told)'
    BY <1>5, <2>1 DEF SendStatusMessage, ToldStands, Resting, Order
  <2>5. (OneOrder /\ ToldStands(relied) /\ Reliance /\ ToldIsKept)'
    BY <1>5 DEF SendStatusMessage, CoolerInv, OneOrder, ToldStands, Resting, Reliance, ToldIsKept,
                Order
  <2>6. (PowerOffKnown /\ Freshness /\ RegulatorFresh)'
    BY <1>5 DEF SendStatusMessage, CoolerInv, PowerOffKnown, Freshness, RegulatorFresh
  <2> QED  BY <2>3, <2>4, <2>5, <2>6 DEF CoolerInv
<1>6. CASE WriteValue
  <2>1. /\ CoolerTempCommand' \in Values \cup {0} /\ CoolerPWMCommand' \in Values \cup {0}
        /\ camera_mutex' \in BOOLEAN /\ lpc' = "idle" /\ lpc = "value"
        /\ order.mode = "AUTO" => CoolerTempCommand' = order.value
        /\ UNCHANGED <<cfaults, CoolerModeDesired, CoolerCurrentMode, kpc, mode_seen,
                       prior_request, regulator, power, crossed, order, ordered, CameraData,
                       told, relied, chip, hardware>>
    BY <1>6 DEF WriteValue, CoolerTypeOK, CoolerInv
  <2>2. CoolerTypeOK'
    BY <2>1 DEF CoolerTypeOK, CoolerInv
  <2>3. OneOrder'
    <3>1. ~CameraData.CoolerManualMode =>
            order.mode = "AUTO" /\ order.value = CameraData.CoolerTempCommand
      BY <2>1 DEF OneOrder, Order, CoolerInv
    <3> QED  BY <2>1, <3>1 DEF OneOrder, Resting, CoolerInv
  <2>4. (ToldStands(told) /\ ToldStands(relied))'
    BY <2>1 DEF ToldStands, Resting, CoolerInv
  <2>5. (PowerOffKnown /\ Freshness /\ RegulatorFresh /\ Reliance /\ ToldIsKept)'
    BY <2>1 DEF CoolerInv, PowerOffKnown, Freshness, RegulatorFresh, Reliance, ToldIsKept, Order
  <2> QED  BY <2>2, <2>3, <2>4, <2>5 DEF CoolerInv
<1> QED  BY <1>2, <1>3, <1>4, <1>5, <1>6 DEF MessageStep

\* The steps of the cooler thread take nothing from what holds of an order.
LEMMA ThreadKeepsOrder ==
  ASSUME CoolerInv, UNCHANGED <<coolerData, messageVars, CameraData, told>>,
         relied' \in {told, relied, Off}
  PROVE  (OneOrder /\ ToldStands(told) /\ ToldStands(relied))'
         /\ relied' \in [mode : CoolerModes, value : Values \cup {0}]
<1>1. Off \in [mode : CoolerModes, value : Values \cup {0}] /\ Off.mode = "OFF"
  BY DEF Off, Order, CoolerModes
<1>2. ToldStands(relied)'
  BY <1>1 DEF CoolerInv, ToldStands, Resting, coolerData, messageVars, Order
<1> QED
  BY <1>1, <1>2 DEF CoolerInv, CoolerTypeOK, OneOrder, ToldStands, Resting, Order, coolerData, messageVars

\* Steps of the cooler thread, one by one.
LEMMA CoolerStepInv ==
  ASSUME CoolerInv, CoolerStep
  PROVE  CoolerInv'
<1> USE DEF coolerData, regulator, messageVars, clientVars
<1>0. /\ (OneOrder /\ ToldStands(told) /\ ToldStands(relied))'
      /\ relied' \in [mode : CoolerModes, value : Values \cup {0}]
  BY ThreadKeepsOrder DEF CoolerStep, RefreshCoolerStatus, Regulate, Ramp, Manual, PowerOff,
     SetParam, EndPass
<1>1. CASE RefreshCoolerStatus
  <2>1. CoolerTypeOK'
    BY <1>1 DEF RefreshCoolerStatus, CoolerTypeOK, CoolerInv
  <2>2. (Reliance /\ ToldIsKept)'
    BY <1>1 DEF RefreshCoolerStatus, CoolerInv, Reliance, ToldIsKept, Order
  <2>3. (PowerOffKnown /\ Freshness /\ RegulatorFresh)'
    BY <1>1 DEF RefreshCoolerStatus, CoolerInv, PowerOffKnown, Freshness, RegulatorFresh
  <2> QED
    BY <1>0, <2>1, <2>2, <2>3 DEF CoolerInv
<1>2. CASE Regulate
  <2>0. stale' \in BOOLEAN
    <3>1. stale' = FALSE \/ stale' = stale
      BY <1>2 DEF Regulate
    <3> QED  BY <3>1 DEF CoolerTypeOK, CoolerInv
  <2>2. current_ramp' \in 0 .. RampPoints
    BY <1>2, CoolerConstants DEF Regulate, CoolerTypeOK, CoolerInv
  <2>3. /\ mode_seen' = "AUTO" /\ CoolerCurrentMode' = "REGULATING"
        /\ prior_target_temp' = CoolerTempCommand /\ kpc' = "ramp" /\ relied' = told
        /\ UNCHANGED <<cfaults, coolerData, prior_request, power, crossed, messageVars,
                       CameraData, told, chip, hardware>>
    BY <1>2 DEF Regulate
  <2>1. CoolerTypeOK'
    BY <1>0, <2>0, <2>2, <2>3 DEF CoolerTypeOK, CoolerModes, CoolerInv
  <2>4. (PowerOffKnown /\ Freshness /\ RegulatorFresh)'
    BY <1>2
       DEF Regulate, CoolerTypeOK, PowerOffKnown, Freshness, RegulatorFresh, CoolerInv
  <2>5. CoolerModeDesired = "AUTO"
    BY <1>2 DEF Regulate
  <2>6. ~(told.mode = "MAN" /\ ordered > 0)
    BY <2>5 DEF CoolerInv, ToldStands, OneOrder
  <2>7. (Reliance /\ ToldIsKept)'
    BY <2>3, <2>6 DEF Reliance, ToldIsKept
  <2> QED  BY <1>0, <2>1, <2>4, <2>7 DEF CoolerInv
<1>3. CASE Ramp
  <2>1. current_ramp' \in 0 .. RampPoints
    BY <1>3, CoolerConstants DEF Ramp, CoolerTypeOK, CoolerInv
  <2>2. power' \in [mode : CoolerModes, value : Values \cup {0}] /\ chip' \in Values \cup {0}
    BY <1>3 DEF Ramp, CoolerTypeOK, CoolerModes, Order, CoolerInv
  <2>3. /\ stale' = FALSE /\ kpc' = "set" /\ kpc = "ramp"
        /\ power' \in {Order("AUTO", 0), Order("AUTO", CoolerTempCommand)}
        /\ UNCHANGED <<cfaults, coolerData, CoolerCurrentMode, mode_seen, prior_request,
                       prior_target_temp, crossed, messageVars, clientVars, hardware>>
    BY <1>3 DEF Ramp
  <2>4. CoolerTypeOK'
    <3>1. stale' \in BOOLEAN
      BY <2>3
    <3> QED  BY <2>1, <2>2, <2>3, <3>1 DEF CoolerTypeOK, CoolerInv
  <2>5. (PowerOffKnown /\ Freshness /\ RegulatorFresh)'
    BY <2>3 DEF CoolerInv, PowerOffKnown, Freshness, RegulatorFresh
  <2>6. relied.mode = "AUTO" => relied = Order("AUTO", CoolerTempCommand)
    BY DEF CoolerInv, ToldStands, OneOrder
  <2>7. (Reliance /\ ToldIsKept)'
    BY <2>3, <2>6 DEF CoolerInv, Reliance, ToldIsKept, Order
  <2> QED  BY <1>0, <2>4, <2>5, <2>7 DEF CoolerInv
<1>4. CASE Manual \/ PowerOff
  <2>0. /\ relied' = told /\ kpc' \in {"set", "prior"} /\ mode_seen' # "AUTO"
        /\ CoolerModeDesired # "AUTO" /\ UNCHANGED <<hardware, power, ordered>>
        /\ kpc' = "prior" => CoolerCurrentMode = "POWEROFF"
        /\ mode_seen' \in CoolerModes /\ stale' \in BOOLEAN /\ crossed' \in BOOLEAN /\ chip' = 0
        /\ UNCHANGED <<cfaults, coolerData, CoolerCurrentMode, prior_request,
                       prior_target_temp, current_ramp, messageVars, CameraData, told>>
    BY <1>4 DEF Manual, PowerOff, CoolerModes
  <2>1. CoolerTypeOK'
    BY <1>0, <2>0 DEF CoolerTypeOK, CoolerInv
  <2>2. (PowerOffKnown /\ Freshness /\ RegulatorFresh)'
    BY <1>4 DEF Manual, PowerOff, PowerOffKnown, Freshness, RegulatorFresh, CoolerInv
  <2>3. told.mode # "AUTO"
    BY <2>0 DEF CoolerInv, ToldStands, OneOrder
  <2>4. (Reliance /\ ToldIsKept)'
    BY <2>0, <2>3 DEF CoolerInv, Reliance, ToldIsKept, PowerOffKnown
  <2> QED
    BY <1>0, <2>1, <2>2, <2>4 DEF CoolerInv
<1>5. CASE SetParam
  <2>1. Command \in [mode : CoolerModes, value : Values \cup {0}]
    BY DEF Command, CoolerTypeOK, CoolerModes, Off, Order, CoolerInv
  <2>2. CoolerTypeOK'
    BY <1>0, <1>5, <2>1 DEF SetParam, CoolerTypeOK, CoolerModes, CoolerInv
  <2>3. (Freshness /\ RegulatorFresh)'
    BY <1>5 DEF SetParam, Freshness, RegulatorFresh, CoolerInv
  <2>4. PowerOffKnown'
    BY <1>5 DEF SetParam, Command, CoolerTypeOK, CoolerModes, PowerOffKnown, Off, Order, CoolerInv
  <2>5. Reliance'
    BY <1>5 DEF SetParam, Reliance
  <2>6. ToldIsKept'
    <3>1. CASE hardware' = Command /\ UNCHANGED relied
      <4>1. kpc = "set" /\ UNCHANGED <<ordered>>
        BY <1>5 DEF SetParam
      <4>2. relied.mode = "AUTO" => Command \in {relied, Order("AUTO", 0)}
        BY <4>1 DEF Command, Reliance, CoolerInv
      <4>3. mode_seen # "AUTO" => Command.mode # "AUTO"
        BY DEF Command, Off, Order, CoolerInv, CoolerTypeOK, CoolerModes
      <4> QED  BY <3>1, <4>1, <4>2, <4>3 DEF ToldIsKept, Reliance, CoolerInv, Order
    <3>2. CASE relied' = Off
      BY <3>2 DEF ToldIsKept, Off, Order
    <3> QED  BY <1>5, <3>1, <3>2 DEF SetParam
  <2> QED  BY <1>0, <2>2, <2>3, <2>4, <2>5, <2>6 DEF CoolerInv
<1>6. CASE EndPass
  <2>1. CoolerTypeOK'
    BY <1>6 DEF EndPass, CoolerTypeOK, CoolerInv
  <2>2. (PowerOffKnown /\ Freshness /\ RegulatorFresh)'
    BY <1>6 DEF EndPass, CoolerTypeOK, CoolerModes, PowerOffKnown, Freshness, RegulatorFresh,
                CoolerInv
  <2>3. (Reliance /\ ToldIsKept)'
    BY <1>6 DEF EndPass, CoolerInv, Reliance, ToldIsKept, Order
  <2> QED
    BY <1>0, <2>1, <2>2, <2>3 DEF CoolerInv
<1> QED  BY <1>1, <1>2, <1>3, <1>4, <1>5, <1>6 DEF CoolerStep

\* The cooler's invariant, from which the three theorems below follow.
LEMMA CoolerInvariant == CoolerSpec => []CoolerInv
<1>1. CoolerInv /\ [CoolerNext]_coolerVars => CoolerInv'
  <2> SUFFICES ASSUME CoolerInv, [CoolerNext]_coolerVars PROVE CoolerInv'
    OBVIOUS
  <2>1. CASE UNCHANGED coolerVars
    <3> USE <2>1 DEF coolerVars, coolerData, regulator, messageVars, clientVars
    <3>1. CoolerTypeOK'
      BY DEF CoolerInv, CoolerTypeOK
    <3>2. (PowerOffKnown /\ Freshness /\ RegulatorFresh)'
      BY DEF CoolerInv, PowerOffKnown, Freshness, RegulatorFresh
    <3>3. (OneOrder /\ ToldStands(told) /\ ToldStands(relied) /\ Reliance /\ ToldIsKept)'
      BY DEF CoolerInv, OneOrder, ToldStands, Resting, Reliance, ToldIsKept, Order
    <3> QED  BY <3>1, <3>2, <3>3 DEF CoolerInv
  <2> QED  BY <2>1, CoolerStepInv, MessageStepInv DEF CoolerNext
<1> QED  BY <1>1, CoolerInitInv, PTL DEF CoolerSpec

\* Every variable of the cooler thread, of its orders and of what is told of them
\* keeps its type.
THEOREM CoolerTyped == CoolerSpec => []CoolerTypeOK
BY CoolerInvariant, PTL DEF CoolerInv

\* What a status message told since the last order is what the passes that began
\* after it make of the camera, for any setpoints, orders, ramps and failures.
THEOREM ToldIsWhatIsDone == CoolerSpec => []ToldIsKept
BY CoolerInvariant, PTL DEF CoolerInv

\* The regulator starts afresh after a pass in another mode, but for an order in
\* the middle of that pass.
THEOREM RegulatorIsFresh == CoolerSpec => []RegulatorFresh
BY CoolerInvariant, PTL DEF CoolerInv

-----------------------------------------------------------------------------
(****************************************************************************)
(* IndiWait: a client that has not timed out.                              *)
(****************************************************************************)

IndiTypeOK ==
  /\ device \in {"mount", "focuser", "camera"}
  /\ ipc \in {"idle", "send", "sleep", "wait", "check", "clear", "returned"}
  /\ command \in Nat /\ tries \in Nat /\ timedOut \in BOOLEAN
  /\ data_avail \in BOOLEAN /\ signal \in BOOLEAN
  /\ state \in {"OK", "BUSY"} /\ value \in Nat
  /\ orders \in Seq(Nat) /\ reports \in Seq([state : {"OK", "BUSY"}, value : Nat])
  /\ busy \in Nat /\ done \in Nat

Executed == orders = <<>> /\ busy = 0

\* One command at a time: that of the program is on its way, executed or done.
OneCommand ==
  /\ \/ Executed /\ done = command
     \/ /\ ipc \in {"sleep", "wait", "check", "clear"} /\ command > 0 /\ done = command - 1
        /\ \/ orders = <<>> /\ busy = command
           \/ orders = <<command>> /\ busy = 0
  /\ ipc = "sleep" => device = "mount"
  /\ ipc = "clear" => device = "focuser"

\* A mount: what it reported before the command is over after the sleep, and its
\* last report says whether it moves.
MountReports ==
  /\ ipc = "sleep" /\ busy # 0 =>
       IF reports = <<>> THEN state = "BUSY" ELSE reports[Len(reports)].state = "BUSY"
  /\ ipc \in {"wait", "check"} =>
       /\ orders = <<>>
       /\ busy # 0 =>
            state = "BUSY" /\ \A i \in DOMAIN reports : reports[i].state = "BUSY"
  /\ ipc = "check" /\ timedOut /\ tries + 1 >= MaxTries => busy = 0

\* How many calls of Signal() are still to come.
Called == IF signal THEN 1 ELSE 0
Owed == IF orders # <<>> THEN 2 ELSE IF busy # 0 THEN 1 ELSE 0
SignalsToCome == Len(reports) + Called + Owed

\* A wait that is about to end early, and a try that is about to be counted.
Early == IF ipc = "wait" /\ data_avail THEN 1 ELSE 0
Counted == IF ipc = "check" THEN 1 ELSE 0

\* A focuser: it says OK last, and each wait that ends early is due to one of the
\* signals, for which there are tries enough.
FocuserReports ==
  /\ state = "OK" => Executed /\ reports = <<>>
  /\ Executed /\ reports = <<>> => state = "OK"
  /\ \A i \in DOMAIN reports : reports[i].state = "OK" <=> Executed /\ i = Len(reports)
  /\ ipc \in {"idle", "send", "returned"} => reports = <<>>
  /\ ipc = "send" => ~data_avail \/ ~signal
  /\ ipc \in {"wait", "check", "clear"} /\ SignalsToCome # 0 =>
       SignalsToCome + Early <= 3 /\ tries + Early + SignalsToCome + Counted <= MaxTries

\* A camera: its image is there before its signal, and no signal is left when the
\* next exposure begins.
CameraReports ==
  /\ \/ reports = <<>>
     \/ Executed /\ reports = <<[state |-> "OK", value |-> command]>>
  /\ Executed /\ reports = <<>> => value = command
  /\ signal => Executed /\ reports = <<>>
  /\ ipc # "wait" \/ data_avail => Executed /\ reports = <<>> /\ ~signal
  /\ ipc = "send" => ~data_avail

IndiInv ==
  /\ IndiTypeOK
  /\ ifaults = {} =>
       /\ OneCommand
       /\ device = "mount" => MountReports
       /\ device = "focuser" => FocuserReports
       /\ device = "camera" => CameraReports

-----------------------------------------------------------------------------
LEMMA IndiInitInv == IndiInit => IndiInv
<1> SUFFICES ASSUME IndiInit PROVE IndiInv
  OBVIOUS
<1>1. device \in {"mount", "focuser", "camera"}
  BY IndiWaitConstants DEF IndiInit
<1>2. <<>> \in Seq(Nat) /\ <<>> \in Seq([state : {"OK", "BUSY"}, value : Nat])
  BY EmptySeq
<1>3. IndiTypeOK
  BY <1>1, <1>2 DEF IndiInit, IndiTypeOK
<1> QED
  BY <1>3 DEF IndiInit, IndiInv, OneCommand, Executed, MountReports, FocuserReports,
              CameraReports

LEMMA ProgramTypeInv ==
  ASSUME IndiTypeOK, ProgramStep \/ SetupCommand \/ NextCommand
  PROVE  IndiTypeOK'
<1>1. CASE SendCommand
  BY <1>1 DEF SendCommand, IndiTypeOK
<1>2. CASE SetupCommand \/ NextCommand \/ SleepOne \/ WaitEnds \/ WaitTimesOut
  BY <1>2 DEF SetupCommand, NextCommand, SleepOne, WaitEnds, WaitTimesOut, IndiTypeOK
<1>3. CASE CheckMount \/ CheckFocuser
  BY <1>3 DEF CheckMount, CheckFocuser, IndiTypeOK
<1>4. CASE ClearFocuser \/ CheckCamera
  BY <1>4 DEF ClearFocuser, CheckCamera, IndiTypeOK
<1> QED  BY <1>1, <1>2, <1>3, <1>4 DEF ProgramStep

LEMMA ReportType ==
  ASSUME IndiTypeOK, NEW s \in {"OK", "BUSY"}, NEW v \in Nat, Report(s, v)
  PROVE  reports' \in Seq([state : {"OK", "BUSY"}, value : Nat])
<1> DEFINE R == [state : {"OK", "BUSY"}, value : Nat]
<1>1. [state |-> s, value |-> v] \in R /\ reports \in Seq(R)
  BY DEF IndiTypeOK
<1> HIDE DEF R
<1>2. Append(reports, [state |-> s, value |-> v]) \in Seq(R)
  BY <1>1
<1>3. reports' \in Seq(R)
  BY <1>1, <1>2 DEF Report
<1> QED  BY <1>3 DEF R

LEMMA InterfaceTypeInv ==
  ASSUME IndiTypeOK, InterfaceStep \/ DeviceStep \/ Poll
  PROVE  IndiTypeOK'
<1> USE DEF programVars
<1>1. CASE Update
  <2> DEFINE R == [state : {"OK", "BUSY"}, value : Nat]
  <2>1. reports \in Seq(R) /\ reports # <<>>
    BY <1>1 DEF Update, IndiTypeOK
  <2> HIDE DEF R
  <2>2. Head(reports) \in R /\ Tail(reports) \in Seq(R)
    BY <2>1
  <2> USE DEF R
  <2> QED  BY <1>1, <2>2 DEF Update, IndiTypeOK
<1>2. CASE SignalBlocker
  BY <1>2 DEF SignalBlocker, IndiTypeOK
<1>3. CASE AcceptOrder
  <2>1. reports' \in Seq([state : {"OK", "BUSY"}, value : Nat])
    BY <1>3, ReportType DEF AcceptOrder, IndiTypeOK
  <2> QED  BY <1>3, <2>1 DEF AcceptOrder, IndiTypeOK
<1>4. CASE OrderDone
  <2>1. reports' \in Seq([state : {"OK", "BUSY"}, value : Nat])
    BY <1>4, ReportType DEF OrderDone, IndiTypeOK
  <2> QED  BY <1>4, <2>1 DEF OrderDone, IndiTypeOK
<1>5. CASE Poll
  <2>1. reports' \in Seq([state : {"OK", "BUSY"}, value : Nat])
    BY <1>5, ReportType DEF Poll, IndiTypeOK
  <2> QED  BY <1>5, <2>1 DEF Poll, IndiTypeOK
<1> QED  BY <1>1, <1>2, <1>3, <1>4, <1>5 DEF InterfaceStep, DeviceStep

-----------------------------------------------------------------------------
(* Without faults.                                                         *)

LEMMA SignalsType ==
  ASSUME IndiTypeOK
  PROVE  /\ SignalsToCome \in Nat /\ Early \in 0 .. 1 /\ Counted \in 0 .. 1
         /\ SignalsToCome = 0 => Executed /\ reports = <<>> /\ ~signal
<1>1. Len(reports) \in Nat /\ (Len(reports) = 0 => reports = <<>>)
  BY DEF IndiTypeOK
<1>2. Called \in 0 .. 1 /\ Owed \in 0 .. 2
  BY DEF Called, Owed
<1>3. Called = 0 => ~signal
  BY DEF Called
<1>4. Owed = 0 => Executed
  BY DEF Owed, Executed
<1>5. Early \in 0 .. 1 /\ Counted \in 0 .. 1
  BY DEF Early, Counted
<1> QED  BY <1>1, <1>2, <1>3, <1>4, <1>5 DEF SignalsToCome

\* The first report is taken.
LEMMA FirstReport ==
  ASSUME IndiTypeOK, Update
  PROVE  /\ Len(reports) \in Nat \ {0} /\ DOMAIN reports = 1 .. Len(reports)
         /\ Len(reports) > 0 /\ 1 \in DOMAIN reports
         /\ Len(reports') = Len(reports) - 1 /\ DOMAIN reports' = 1 .. Len(reports')
         /\ \A i \in DOMAIN reports' : reports'[i] = reports[i + 1] /\ i + 1 \in DOMAIN reports
         /\ state' = reports[1].state /\ value' = reports[1].value
         /\ reports' = <<>> <=> Len(reports) = 1
<1>1. reports \in Seq([state : {"OK", "BUSY"}, value : Nat]) /\ reports # <<>>
  BY DEF IndiTypeOK, Update
<1>2. reports' = Tail(reports) /\ state' = Head(reports).state /\ value' = Head(reports).value
  BY DEF Update
<1>3. Head(reports) = reports[1]
  BY <1>1
<1>4. /\ Len(Tail(reports)) = Len(reports) - 1 /\ Len(reports) \in Nat \ {0}
      /\ \A i \in 1 .. Len(reports) - 1 : Tail(reports)[i] = reports[i + 1]
      /\ Tail(reports) \in Seq([state : {"OK", "BUSY"}, value : Nat])
  BY <1>1
<1>5. DOMAIN reports = 1 .. Len(reports) /\ DOMAIN Tail(reports) = 1 .. Len(reports) - 1
  BY <1>1, <1>4
<1>6. Tail(reports) = <<>> <=> Len(reports) = 1
  BY <1>4
<1> QED  BY <1>2, <1>3, <1>4, <1>5, <1>6

\* A report is added.
LEMMA LastReport ==
  ASSUME IndiTypeOK, NEW s \in {"OK", "BUSY"}, NEW v \in Nat,
         reports' = Append(reports, [state |-> s, value |-> v])
  PROVE  /\ Len(reports') = Len(reports) + 1 /\ DOMAIN reports' = 1 .. Len(reports')
         /\ \A i \in DOMAIN reports : reports'[i] = reports[i]
         /\ reports'[Len(reports')].state = s /\ reports' # <<>>
<1> DEFINE r == [state |-> s, value |-> v]
<1>1. reports \in Seq([state : {"OK", "BUSY"}, value : Nat]) /\ r.state = s
  BY DEF IndiTypeOK
<1> HIDE DEF r
<1>2. /\ Len(Append(reports, r)) = Len(reports) + 1 /\ Len(reports) \in Nat
      /\ DOMAIN Append(reports, r) = 1 .. Len(reports) + 1
      /\ \A i \in 1 .. Len(reports) : Append(reports, r)[i] = reports[i]
      /\ Append(reports, r)[Len(reports) + 1] = r
  BY <1>1
<1>3. reports' = Append(reports, r) /\ DOMAIN reports = 1 .. Len(reports)
  BY <1>1 DEF r
<1> QED  BY <1>1, <1>2, <1>3

\* Whichever way a wait ends, the device is done.
LEMMA ReturnsExecuted ==
  ASSUME IndiInv, ifaults = {}, ProgramStep, ipc' = "returned"
  PROVE  Executed /\ done = command
<1> USE IndiWaitConstants DEF IndiInv, IndiTypeOK, OneCommand, Executed
<1>1. CASE CheckMount
  BY <1>1 DEF CheckMount, MountReports
<1>2. CASE CheckFocuser
  BY <1>2 DEF CheckFocuser, FocuserReports
<1>3. CASE ClearFocuser
  <2>1. device = "focuser" /\ ipc = "clear" /\ tries >= MaxTries
    BY <1>3 DEF ClearFocuser
  <2>2. SignalsToCome \in Nat
    BY SignalsType
  <2>5. Early = 0 /\ Counted = 0
    BY <2>1 DEF Early, Counted
  <2>3. SignalsToCome = 0
    <3>1. FocuserReports /\ tries \in Nat /\ MaxTries \in Nat
      BY <2>1
    <3>2. SignalsToCome # 0 => tries + Early + SignalsToCome + Counted <= MaxTries
      BY <2>1, <3>1 DEF FocuserReports
    <3> QED  BY <2>1, <2>2, <2>5, <3>1, <3>2
  <2>4. Executed
    BY <2>3, SignalsType
  <2> QED  BY <2>4
<1>4. CASE CheckCamera
  BY <1>4 DEF CheckCamera, CameraReports
<1>5. ~(SendCommand \/ SleepOne \/ WaitEnds \/ WaitTimesOut)
  BY DEF SendCommand, SleepOne, WaitEnds, WaitTimesOut
<1> QED  BY <1>1, <1>2, <1>3, <1>4, <1>5 DEF ProgramStep

LEMMA OneCommandInv ==
  ASSUME IndiInv, ifaults = {}, IndiNext
  PROVE  OneCommand'
<1> USE DEF OneCommand, Executed
<1>0. OneCommand /\ IndiTypeOK
  BY DEF IndiInv
<1>1. CASE SetupCommand \/ NextCommand
  BY <1>0, <1>1 DEF SetupCommand, NextCommand
<1>2. CASE ProgramStep
  <2>1. CASE SendCommand
    <3>1. Executed /\ done = command
      BY <1>0, <2>1 DEF SendCommand
    <3>2. orders' = <<command'>> /\ command' = command + 1 /\ busy' = 0 /\ done' = done
          /\ ipc' \in {"sleep", "wait"} /\ (ipc' = "sleep" => device' = "mount")
      BY <2>1, <3>1 DEF SendCommand
    <3> QED  BY <1>0, <3>1, <3>2 DEF IndiTypeOK
  <2>2. CASE ~SendCommand
    <3>1. UNCHANGED <<orders, busy, done, command, device>>
      BY <1>2, <2>2 DEF ProgramStep, SleepOne, WaitEnds, WaitTimesOut, CheckMount,
                        CheckFocuser, ClearFocuser, CheckCamera
    <3>2. /\ ipc' \in {"wait", "check", "clear", "returned"}
          /\ ipc' = "clear" => device = "focuser"
          /\ ipc \in {"sleep", "wait", "check", "clear"}
      BY <1>2, <2>2, <1>0
         DEF ProgramStep, SleepOne, WaitEnds, WaitTimesOut, CheckMount,
             CheckFocuser, ClearFocuser, CheckCamera
    <3> QED  BY <1>0, <1>2, <3>1, <3>2, ReturnsExecuted
  <2> QED  BY <2>1, <2>2
<1>3. CASE InterfaceStep \/ Poll
  BY <1>0, <1>3 DEF InterfaceStep, Update, SignalBlocker, Poll, programVars
<1>4. CASE AcceptOrder
  <2>1. orders = <<command>> => Head(orders) = command /\ Tail(orders) = <<>> /\ orders # <<>>
    OBVIOUS
  <2>2. /\ busy = 0 /\ orders # <<>> /\ busy' = Head(orders) /\ orders' = Tail(orders)
        /\ UNCHANGED <<ipc, command, device, done>>
    BY <1>4 DEF AcceptOrder, programVars
  <2> QED  BY <1>0, <2>1, <2>2 DEF IndiTypeOK
<1>5. CASE OrderDone
  BY <1>0, <1>5 DEF OrderDone, programVars, IndiTypeOK
<1> QED  BY <1>1, <1>2, <1>3, <1>4, <1>5 DEF IndiNext, DeviceStep

LEMMA MountInv ==
  ASSUME IndiInv, ifaults = {}, device = "mount", IndiNext
  PROVE  MountReports'
<1>0. IndiTypeOK /\ MountReports /\ OneCommand
  BY DEF IndiInv
<1>1. CASE SetupCommand \/ NextCommand
  BY <1>0, <1>1 DEF SetupCommand, NextCommand, MountReports
<1>2. CASE SendCommand
  BY <1>0, <1>2 DEF SendCommand, MountReports, OneCommand, Executed
<1>3. CASE SleepOne
  BY <1>0, <1>3 DEF SleepOne, MountReports, IndiTypeOK
<1>4. CASE WaitEnds
  BY <1>0, <1>4 DEF WaitEnds, MountReports
<1>5. CASE WaitTimesOut
  BY <1>0, <1>5, IndiWaitConstants DEF WaitTimesOut, Quiet, MountReports, IndiTypeOK
<1>6. CASE CheckMount
  BY <1>0, <1>6 DEF CheckMount, MountReports
<1>7. CASE CheckFocuser \/ ClearFocuser \/ CheckCamera
  BY <1>0, <1>7 DEF CheckFocuser, ClearFocuser, CheckCamera, OneCommand
<1>8. CASE Update
  <2>1. /\ state' = Head(reports).state /\ reports' = Tail(reports) /\ reports # <<>>
        /\ UNCHANGED <<ipc, orders, busy, timedOut, tries>>
    BY <1>8 DEF Update, programVars
  <2>2. /\ \A i \in DOMAIN reports' : reports'[i] = reports[i + 1] /\ i + 1 \in DOMAIN reports
        /\ state' = reports[1].state /\ 1 \in DOMAIN reports
    BY <1>0, <1>8, FirstReport
  <2>4. reports' = <<>> <=> Len(reports) = 1
    BY <1>0, <1>8, FirstReport
  <2>3. reports' # <<>> => reports'[Len(reports')] = reports[Len(reports)]
    BY <1>0, <1>8, FirstReport
  <2> QED  BY <1>0, <2>1, <2>2, <2>3, <2>4 DEF MountReports
<1>9. CASE SignalBlocker
  BY <1>0, <1>9 DEF SignalBlocker, MountReports, programVars
<1>10. CASE AcceptOrder
  <2>1. /\ reports' = Append(reports, [state |-> "BUSY", value |-> done])
        /\ UNCHANGED <<ipc, state, timedOut, tries>> /\ orders # <<>>
    BY <1>10 DEF AcceptOrder, Report, programVars
  <2> QED  BY <1>0, <2>1 DEF MountReports, IndiTypeOK
<1>11. CASE OrderDone
  BY <1>0, <1>11 DEF OrderDone, MountReports, programVars
<1>12. CASE Poll
  <2>1. /\ reports' = Append(reports, [state |-> IF busy = 0 THEN "OK" ELSE "BUSY",
                                       value |-> done])
        /\ UNCHANGED <<ipc, state, timedOut, tries, orders, busy>>
    BY <1>12 DEF Poll, Report, programVars
  <2> QED  BY <1>0, <2>1 DEF MountReports, IndiTypeOK
<1> QED
  BY <1>1, <1>2, <1>3, <1>4, <1>5, <1>6, <1>7, <1>8, <1>9, <1>10, <1>11, <1>12
     DEF IndiNext, ProgramStep, InterfaceStep, DeviceStep

LEMMA CameraInv ==
  ASSUME IndiInv, ifaults = {}, device = "camera", IndiNext
  PROVE  CameraReports'
<1> USE DEF CameraReports, Executed
<1>0. IndiTypeOK /\ CameraReports /\ OneCommand
  BY DEF IndiInv
<1>1. CASE SetupCommand \/ NextCommand
  BY <1>0, <1>1 DEF SetupCommand, NextCommand
<1>2. CASE SendCommand
  BY <1>0, <1>2 DEF SendCommand, IndiTypeOK
<1>3. CASE SleepOne
  BY <1>0, <1>3 DEF SleepOne, OneCommand
<1>4. CASE WaitEnds
  BY <1>0, <1>4 DEF WaitEnds
<1>5. CASE WaitTimesOut
  BY <1>0, <1>5 DEF WaitTimesOut, Quiet
<1>6. CASE CheckCamera
  BY <1>0, <1>6 DEF CheckCamera
<1>7. CASE CheckFocuser \/ ClearFocuser \/ CheckMount
  BY <1>0, <1>7 DEF CheckFocuser, ClearFocuser, CheckMount, OneCommand
<1>8. CASE Update
  <2>1. UNCHANGED <<ipc, orders, busy, data_avail, command>> /\ signal' = TRUE
    BY <1>8 DEF Update, programVars
  <2>2. reports # <<>> /\ Len(reports) = 1 /\ reports[1] = [state |-> "OK", value |-> command]
    BY <1>0, <1>8, FirstReport DEF Update
  <2>3. reports' = <<>> /\ value' = command
    BY <1>0, <1>8, <2>2, FirstReport
  <2> QED  BY <1>0, <2>1, <2>2, <2>3
<1>9. CASE SignalBlocker
  BY <1>0, <1>9 DEF SignalBlocker, programVars
<1>10. CASE AcceptOrder
  BY <1>0, <1>10 DEF AcceptOrder, programVars, IndiTypeOK, OneCommand
<1>11. CASE OrderDone
  <2>1. /\ reports' = Append(reports, [state |-> "OK", value |-> command]) /\ reports = <<>>
        /\ busy' = 0 /\ orders' = <<>>
        /\ UNCHANGED <<ipc, value, data_avail, signal, command>>
    BY <1>0, <1>11 DEF OrderDone, Report, programVars, OneCommand
  <2>2. reports' = <<[state |-> "OK", value |-> command]>> /\ reports' # <<>>
    BY <2>1
  <2> QED  BY <1>0, <1>11, <2>1, <2>2 DEF OrderDone
<1>12. CASE Poll
  BY <1>12 DEF Poll
<1> QED
  BY <1>1, <1>2, <1>3, <1>4, <1>5, <1>6, <1>7, <1>8, <1>9, <1>10, <1>11, <1>12
     DEF IndiNext, ProgramStep, InterfaceStep, DeviceStep

LEMMA FocuserInv ==
  ASSUME IndiInv, ifaults = {}, device = "focuser", IndiNext
  PROVE  FocuserReports'
<1> USE DEF Executed
<1>0. IndiTypeOK /\ FocuserReports /\ OneCommand
  BY DEF IndiInv
<1>t. /\ SignalsToCome \in Nat /\ Len(reports) \in Nat /\ DOMAIN reports = 1 .. Len(reports)
      /\ Early \in 0 .. 1 /\ Counted \in 0 .. 1 /\ tries \in Nat /\ MaxTries \in Nat
      /\ MaxTries >= 3 /\ Called \in 0 .. 1 /\ Owed \in 0 .. 2
  BY <1>0, SignalsType, IndiWaitConstants DEF IndiTypeOK, Called, Owed
<1> USE <1>t
<1>s. UNCHANGED <<reports, signal, orders, busy>> => SignalsToCome' = SignalsToCome
  BY DEF SignalsToCome, Called, Owed
<1>e. UNCHANGED <<ipc, data_avail>> => Early' = Early /\ Counted' = Counted
  BY DEF Early, Counted
<1>1. CASE SetupCommand \/ NextCommand
  BY <1>0, <1>1 DEF SetupCommand, NextCommand, FocuserReports
<1>2. CASE SendCommand
  <2>1. /\ reports' = <<>> /\ state' = "BUSY" /\ ipc' = "wait" /\ tries' = 0
        /\ orders' = <<command'>> /\ orders' # <<>>
        /\ UNCHANGED <<data_avail, signal>> /\ (~data_avail \/ ~signal)
    BY <1>0, <1>2 DEF SendCommand, FocuserReports, OneCommand, IndiTypeOK
  <2>2. Owed' = 2 /\ Counted' = 0 /\ Early' + Called' <= 1
    BY <2>1 DEF Owed, Counted, Early, Called
  <2>3. SignalsToCome' = Called' + 2 /\ Called' \in 0 .. 1 /\ Early' \in 0 .. 1
    BY <2>1, <2>2 DEF SignalsToCome, Early, Called
  <2>4. SignalsToCome' + Early' <= 3 /\ tries' + Early' + SignalsToCome' + Counted' <= MaxTries
    <3>1. \A t, c, e, k, m : /\ c \in 0 .. 1 /\ e \in 0 .. 1 /\ e + c <= 1
                             /\ t = 0 /\ k = 0 /\ m \in Nat /\ m >= 3
                             => c + 2 + e <= 3 /\ t + e + (c + 2) + k <= m
      OBVIOUS
    <3> QED  BY <2>1, <2>2, <2>3, <3>1
  <2> QED  BY <2>1, <2>4 DEF FocuserReports
<1>3. CASE SleepOne
  BY <1>0, <1>3 DEF SleepOne, OneCommand
<1>4. CASE WaitEnds
  <2>1. /\ ipc = "wait" /\ data_avail /\ ipc' = "check"
        /\ UNCHANGED <<tries, data_avail, state, signal, orders, reports, busy>>
    BY <1>4 DEF WaitEnds
  <2>2. Early = 1 /\ Counted = 0 /\ Early' = 0 /\ Counted' = 1
    BY <2>1 DEF Early, Counted
  <2> QED  BY <1>0, <1>s, <2>1, <2>2 DEF FocuserReports
<1>5. CASE WaitTimesOut
  <2>1. /\ ipc = "wait" /\ ~data_avail /\ ipc' = "check"
        /\ UNCHANGED <<tries, data_avail, state, signal, orders, reports, busy>>
        /\ Quiet \/ tries + 3 < MaxTries
    BY <1>5 DEF WaitTimesOut
  <2>2. Early = 0 /\ Counted = 0 /\ Early' = 0 /\ Counted' = 1
    BY <2>1 DEF Early, Counted
  <2>3. Quiet => SignalsToCome = 0
    BY DEF Quiet, SignalsToCome, Called, Owed
  <2>4. SignalsToCome # 0 => SignalsToCome <= 3 /\ tries + SignalsToCome + 1 <= MaxTries
    BY <1>0, <2>1, <2>2, <2>3 DEF FocuserReports
  <2> QED  BY <1>0, <1>s, <2>1, <2>2, <2>4 DEF FocuserReports
<1>6. CASE CheckFocuser
  <2>1. /\ ipc = "check" /\ tries' = tries + 1
        /\ ipc' = IF state # "BUSY" THEN "returned" ELSE "clear"
        /\ UNCHANGED <<data_avail, state, signal, orders, reports, busy>>
    BY <1>6 DEF CheckFocuser
  <2>2. Early = 0 /\ Counted = 1 /\ Early' = 0 /\ Counted' = 0
    BY <2>1 DEF Early, Counted
  <2>3. state # "BUSY" => reports = <<>>
    BY <1>0 DEF FocuserReports, IndiTypeOK
  <2> QED  BY <1>0, <1>s, <2>1, <2>2, <2>3 DEF FocuserReports
<1>7. CASE ClearFocuser
  <2>1. /\ ipc = "clear" /\ ~data_avail'
        /\ ipc' = IF tries >= MaxTries THEN "returned" ELSE "wait"
        /\ UNCHANGED <<tries, state, signal, orders, reports, busy>>
    BY <1>7 DEF ClearFocuser
  <2>2. Early = 0 /\ Counted = 0 /\ Early' = 0 /\ Counted' = 0
    BY <2>1 DEF Early, Counted
  <2>3. tries >= MaxTries => SignalsToCome = 0
    BY <1>0, <2>1, <2>2 DEF FocuserReports
  <2>4. tries >= MaxTries => reports = <<>>
    BY <1>0, <2>3, SignalsType
  <2> QED  BY <1>0, <1>s, <2>1, <2>2, <2>4 DEF FocuserReports
<1>8. CASE CheckMount \/ CheckCamera
  BY <1>8 DEF CheckMount, CheckCamera
<1>9. CASE Update
  <2>1. UNCHANGED <<ipc, orders, busy, data_avail, tries>> /\ signal' = TRUE /\ ~signal
    BY <1>9 DEF Update, programVars
  <2>2. /\ Len(reports') = Len(reports) - 1 /\ DOMAIN reports' = 1 .. Len(reports')
        /\ \A i \in DOMAIN reports' : reports'[i] = reports[i + 1] /\ i + 1 \in DOMAIN reports
        /\ state' = reports[1].state /\ 1 \in DOMAIN reports
        /\ Len(reports) > 0
    BY <1>0, <1>9, FirstReport
  <2>9. reports' = <<>> <=> Len(reports) = 1
    BY <1>0, <1>9, FirstReport
  <2>3. SignalsToCome' = SignalsToCome
    <3>1. Called = 0 /\ Called' = 1 /\ Owed' = Owed
      BY <2>1 DEF Called, Owed
    <3> QED  BY <2>2, <3>1 DEF SignalsToCome
  <2>4. \A i \in DOMAIN reports' : i + 1 = Len(reports) <=> i = Len(reports')
    BY <2>2
  <2>5. reports[1].state = "OK" => Executed /\ reports' = <<>>
    BY <1>0, <2>2, <2>9 DEF FocuserReports
  <2>6. Executed /\ reports' = <<>> => reports[1].state = "OK"
    BY <1>0, <2>2, <2>9 DEF FocuserReports
  <2>7. \A i \in DOMAIN reports' :
          reports'[i].state = "OK" <=> Executed /\ i = Len(reports')
    BY <1>0, <2>2, <2>4 DEF FocuserReports
  <2>8. ipc \notin {"idle", "send", "returned"}
    BY <1>0, <2>2 DEF FocuserReports
  <2> QED  BY <1>0, <1>e, <2>1, <2>2, <2>3, <2>5, <2>6, <2>7, <2>8 DEF FocuserReports
<1>10. CASE SignalBlocker
  <2>1. /\ UNCHANGED <<ipc, orders, busy, tries, reports, state>>
        /\ signal' = FALSE /\ signal /\ data_avail'
    BY <1>10 DEF SignalBlocker, programVars
  <2>2. Called = 1 /\ Called' = 0 /\ Owed' = Owed
    BY <2>1 DEF Called, Owed
  <2>3. SignalsToCome' = SignalsToCome - 1 /\ SignalsToCome >= 1
    BY <2>1, <2>2 DEF SignalsToCome
  <2>4. Counted' = Counted /\ Early' <= Early + 1 /\ Early' \in 0 .. 1
    BY <2>1 DEF Counted, Early
  <2>5. SignalsToCome' # 0 /\ ipc \in {"wait", "check", "clear"} =>
          SignalsToCome' + Early' <= 3 /\ tries + Early' + SignalsToCome' + Counted <= MaxTries
    <3> SUFFICES ASSUME ipc \in {"wait", "check", "clear"}
                 PROVE  /\ SignalsToCome' + Early' <= 3
                        /\ tries + Early' + SignalsToCome' + Counted <= MaxTries
      OBVIOUS
    <3>1. SignalsToCome + Early <= 3 /\ tries + Early + SignalsToCome + Counted <= MaxTries
      BY <1>0, <2>3 DEF FocuserReports
    <3>2. \A t, n, e, f, k, m : /\ n \in Nat /\ e \in 0 .. 1 /\ f \in 0 .. 1 /\ f <= e + 1
                                /\ t \in Nat /\ k \in 0 .. 1 /\ m \in Nat
                                /\ n + e <= 3 /\ t + e + n + k <= m
                                => n - 1 + f <= 3 /\ t + f + (n - 1) + k <= m
      OBVIOUS
    <3> QED  BY <2>3, <2>4, <3>1, <3>2
  <2> QED  BY <1>0, <2>1, <2>4, <2>5 DEF FocuserReports
<1>11. CASE AcceptOrder
  <2>0. orders = <<command>> /\ command > 0 /\ ipc \in {"sleep", "wait", "check", "clear"}
    BY <1>0, <1>11 DEF AcceptOrder, OneCommand
  <2>1. /\ reports' = Append(reports, [state |-> "BUSY", value |-> done])
        /\ busy = 0 /\ busy' = Head(orders) /\ orders' = Tail(orders)
        /\ UNCHANGED <<ipc, state, data_avail, signal, tries>>
    BY <1>11 DEF AcceptOrder, Report, programVars
  <2>5. busy' = command /\ orders' = <<>> /\ orders # <<>>
    BY <1>0, <2>0, <2>1 DEF IndiTypeOK
  <2>2. /\ Len(reports') = Len(reports) + 1 /\ DOMAIN reports' = 1 .. Len(reports')
        /\ \A i \in DOMAIN reports : reports'[i] = reports[i]
        /\ reports'[Len(reports')].state = "BUSY" /\ reports' # <<>>
    BY <1>0, <2>1, LastReport DEF IndiTypeOK
  <2>3. SignalsToCome' = SignalsToCome
    <3>1. Called' = Called /\ Owed = 2 /\ Owed' = 1
      BY <1>0, <2>0, <2>1, <2>5 DEF Called, Owed, IndiTypeOK
    <3> QED  BY <2>2, <3>1 DEF SignalsToCome
  <2>4. \A i \in DOMAIN reports' : reports'[i].state # "OK"
    BY <1>0, <2>0, <2>2, <2>5 DEF FocuserReports
  <2> QED  BY <1>0, <1>e, <2>0, <2>1, <2>2, <2>3, <2>4, <2>5 DEF FocuserReports, IndiTypeOK
<1>12. CASE OrderDone
  <2>1. /\ reports' = Append(reports, [state |-> "OK", value |-> busy])
        /\ busy # 0 /\ busy' = 0 /\ orders = <<>> /\ orders' = <<>>
        /\ UNCHANGED <<ipc, state, data_avail, signal, tries>>
        /\ ipc \in {"sleep", "wait", "check", "clear"}
    BY <1>0, <1>12 DEF OrderDone, Report, programVars, OneCommand, IndiTypeOK
  <2>2. /\ Len(reports') = Len(reports) + 1 /\ DOMAIN reports' = 1 .. Len(reports')
        /\ \A i \in DOMAIN reports : reports'[i] = reports[i]
        /\ reports'[Len(reports')].state = "OK" /\ reports' # <<>>
    BY <1>0, <2>1, LastReport DEF IndiTypeOK
  <2>3. SignalsToCome' = SignalsToCome
    <3>1. Called' = Called /\ Owed = 1 /\ Owed' = 0
      BY <2>1 DEF Called, Owed
    <3> QED  BY <2>2, <3>1 DEF SignalsToCome
  <2>4. \A i \in DOMAIN reports' : reports'[i].state = "OK" <=> i = Len(reports')
    BY <1>0, <2>1, <2>2 DEF FocuserReports
  <2> QED  BY <1>0, <1>e, <2>1, <2>2, <2>3, <2>4 DEF FocuserReports
<1>13. CASE Poll
  BY <1>13 DEF Poll
<1> QED
  BY <1>1, <1>2, <1>3, <1>4, <1>5, <1>6, <1>7, <1>8, <1>9, <1>10, <1>11, <1>12, <1>13
     DEF IndiNext, ProgramStep, InterfaceStep, DeviceStep

LEMMA IndiInvariant == IndiSpec => []IndiInv
<1>1. IndiInv /\ [IndiNext]_indiVars => IndiInv'
  <2> SUFFICES ASSUME IndiInv, [IndiNext]_indiVars PROVE IndiInv'
    OBVIOUS
  <2>1. CASE UNCHANGED indiVars
    <3>1. IndiTypeOK'
      BY <2>1 DEF indiVars, programVars, IndiInv, IndiTypeOK
    <3>2. OneCommand => OneCommand'
      BY <2>1 DEF indiVars, programVars, OneCommand, Executed
    <3>3. MountReports => MountReports'
      BY <2>1 DEF indiVars, programVars, MountReports
    <3>4. FocuserReports => FocuserReports'
      BY <2>1 DEF indiVars, programVars, FocuserReports, Executed, SignalsToCome, Called, Owed,
                  Early, Counted
    <3>5. CameraReports => CameraReports'
      BY <2>1 DEF indiVars, programVars, CameraReports, Executed
    <3>6. UNCHANGED <<ifaults, device>>
      BY <2>1 DEF indiVars
    <3> QED  BY <3>1, <3>2, <3>3, <3>4, <3>5, <3>6 DEF IndiInv
  <2>2. CASE IndiNext
    <3>1. IndiTypeOK'
      BY <2>2, ProgramTypeInv, InterfaceTypeInv DEF IndiNext, IndiInv
    <3>2. UNCHANGED <<ifaults, device>>
      BY <2>2 DEF IndiNext, SetupCommand, NextCommand, ProgramStep, SendCommand, SleepOne,
                  WaitEnds, WaitTimesOut, CheckMount, CheckFocuser, ClearFocuser,
                  CheckCamera, InterfaceStep, Update, SignalBlocker, DeviceStep,
                  AcceptOrder, OrderDone, Poll
    <3> QED
      BY <2>2, <3>1, <3>2, OneCommandInv, MountInv, CameraInv, FocuserInv DEF IndiInv
  <2> QED  BY <2>1, <2>2
<1> QED  BY <1>1, IndiInitInv, PTL DEF IndiSpec

\* For any number of commands, and for any number of tries from three upwards: when
\* a command returns without a fault, the device has done it, and an image is that of
\* this exposure.
THEOREM ReturnMeansDone == IndiSpec => []DoneMeansDone
<1>1. IndiInv => DoneMeansDone
  BY DEF IndiInv, OneCommand, CameraReports, DoneMeansDone, Executed
<1> QED  BY <1>1, IndiInvariant, PTL

-----------------------------------------------------------------------------
(****************************************************************************)
(* ScopeMount: in a call that is not disturbed, each answer of the mount is *)
(* to the command that is waited for, whatever happened before the call.   *)
(****************************************************************************)

-----------------------------------------------------------------------------
(* The invariant.                                                          *)

Commands == {"Sr", "Sd", "MS", "pS", "NUDGE", "FLIP", "hP", "PO", "Gstat"}
Parks == {"ParkTelescope", "UnParkTelescope"}
CommandsOf(f) ==
  {"Gstat", FirstCommand(f)} \cup (IF f = "MoveTo" THEN {"Sd", "MS"} ELSE {})
                             \cup (IF f = "SmallMove" THEN {"NUDGE"} ELSE {})
Statuses == {TRACKING, PARKING, UNPARKING, PARKED, SLEWING}
Someone == Movers \cup {NoMover}

ScopeTypes ==
  /\ scall \in [Movers -> Calls \cup {"none"}] /\ swant \in [Movers -> Commands]
  /\ sconn \in [Movers -> {"none", "asked", "resync", "answered"}]
  /\ sreply \in [Movers -> Seq(Int)] /\ sretry \in [Movers -> BOOLEAN]
  /\ accepted \in [Movers -> BOOLEAN] /\ spc \in {"select", "await", "flush", "flush again"}
  /\ mount \in [status : Statuses, ra : Someone, dec : Someone, goal : Someone, at : Someone]

\* One program has called, and the server serves it.
OneCall ==
  /\ \A p, q \in Movers : scall[p] # "none" /\ scall[q] # "none" => p = q
  /\ returned # <<>> => \A p \in Movers : scall[p] = "none"
  /\ \A p \in Movers : scall[p] = "none" <=> sconn[p] = "none"
  /\ \A p \in Movers : scall[p] # "none" => swant[p] \in CommandsOf(scall[p])
  /\ (\A p \in Movers : scall[p] = "none") => spc = "select" /\ line = <<>> /\ orders_out = <<>>
  /\ spc # "select" => serving \in Movers /\ sconn[serving] = IF spc = "await" THEN "asked" ELSE "resync"

\* The mount took the goto of p and goes there, or is there.
Gone(p) ==
  /\ mount.goal = p
  /\ mount.status = SLEWING \/ (mount.status = TRACKING /\ mount.at = p)

\* What the answer to the last command of p is, and what it says of the mount.
Tells(p, text) ==
  /\ swant[p] \in {"Sr", "Sd"} => text = <<1>>
  /\ swant[p] = "Sr" => mount.ra = p
  /\ swant[p] = "Sd" => mount.dec = p
  /\ swant[p] \in {"MS", "NUDGE"} => text \in {<<0>>, Refusal}
  /\ swant[p] = "MS" /\ text = <<0>> => Gone(p)
  /\ swant[p] = "FLIP" => text \in {<<0>>, <<1>>}
  /\ swant[p] = "pS" => text = <<Glyph, Hash>>
  /\ swant[p] = "Gstat" =>
       \E s \in Statuses :
         /\ text = <<s, Hash>>
         /\ scall[p] = "MoveTo" /\ accepted[p] => s = SLEWING \/ mount.status = TRACKING

Sent(p, c) == [from |-> p, command |-> c]

\* The order to park may be on its way when the status is asked for.
ParkSent(p) ==
  scall[p] \in Parks /\ swant[p] = "Gstat" /\ orders_out = <<Sent(p, FirstCommand(scall[p]))>>

\* The line between the server and the mount, in each phase of a command.
Exchange(p) ==
  /\ sconn[p] = "asked" /\ spc = "select" => line = <<>> /\ (orders_out = <<>> \/ ParkSent(p))
  /\ sconn[p] = "asked" /\ spc = "await" =>
       /\ swant[p] \notin {"hP", "PO"}
       /\ \/ line = <<>> /\ orders_out = <<Sent(p, swant[p])>>
          \/ /\ line = <<>> /\ scall[p] \in Parks /\ swant[p] = "Gstat"
             /\ orders_out = <<Sent(p, FirstCommand(scall[p])), Sent(p, "Gstat")>>
          \/ orders_out = <<>> /\ Tells(p, line)
  /\ sconn[p] = "answered" =>
       /\ spc = "select" /\ line = <<>>
       /\ swant[p] \in {"hP", "PO"} => orders_out = <<>> \/ orders_out = <<Sent(p, swant[p])>>
       /\ swant[p] \notin {"hP", "PO"} => orders_out = <<>> /\ Tells(p, sreply[p])
  /\ sconn[p] = "resync" => scall[p] \notin Parks
  /\ sconn[p] = "resync" /\ spc = "select" => line = <<>> /\ orders_out = <<>>
  /\ sconn[p] = "resync" /\ spc \in {"flush", "flush again"} =>
       \/ line = <<>> /\ orders_out = <<Sent(p, "ACK")>>
       \/ orders_out = <<>> /\ line \in {<<>>, <<Glyph>>}

\* What the mount was told before the command that is sent now.
Told(p) ==
  /\ scall[p] = "MoveTo" /\ swant[p] \in {"Sd", "MS"} => mount.ra = p
  /\ scall[p] = "MoveTo" /\ swant[p] = "MS" => mount.dec = p
  /\ scall[p] = "MoveTo" /\ swant[p] = "Gstat" /\ accepted[p] => Gone(p)

\* Where the mount is when MoveTo() has returned.
Arrived ==
  \A p \in Movers :
    returned = <<p, "MoveTo">> /\ accepted[p] => mount.status = TRACKING /\ mount.at = p

\* What holds as long as the call is not disturbed.
Orderly == ~disturbed
ScopeInv ==
  Orderly => ScopeTypes /\ OneCall /\ (\A p \in Movers : Exchange(p) /\ Told(p)) /\ Arrived

\* What holds always, and lets a call begin anew after others that were disturbed:
\* the server rests when nobody has called.
MountOrders == [from : Movers, command : Commands \cup {"ACK"}]
Served ==
  /\ line \in Seq(Int) /\ orders_out \in Seq(MountOrders)
  /\ \A p \in Movers : scall[p] = "none" <=> sconn[p] = "none"
  /\ spc # "select" =>
       serving \in Movers /\ sconn[serving] = IF spc = "await" THEN "asked" ELSE "resync"
  /\ spc = "await" => swant[serving] \notin {"hP", "PO"}
ScopeBase == ScopeTypes /\ Served

-----------------------------------------------------------------------------
(* Lemmas about sequences and numbers.                                     *)

LEMMA ShortSequences ==
  /\ \A a : /\ Append(<<>>, a) = <<a>> /\ Head(<<a>>) = a /\ Tail(<<a>>) = <<>> /\ <<a>> # <<>>
            /\ Len(<<a>>) = 1
  /\ \A a, b : /\ Append(<<a>>, b) = <<a, b>> /\ Head(<<a, b>>) = a /\ Tail(<<a, b>>) = <<b>>
               /\ <<a, b>> # <<>> /\ Len(<<a, b>>) = 2
  /\ \A a, b, c : /\ Head(<<a, b, c>>) = a /\ Tail(<<a, b, c>>) = <<b, c>> /\ <<a, b, c>> # <<>>
                  /\ Len(<<a, b, c>>) = 3
<1>1. \A a : Append(<<>>, a) = <<a>>
  OBVIOUS
<1>2. \A a : Head(<<a>>) = a /\ Tail(<<a>>) = <<>> /\ <<a>> # <<>>
  OBVIOUS
<1>3. ASSUME NEW a, NEW b PROVE Append(<<a>>, b) = <<a, b>>
  <2> DEFINE T == {a, b}
             s == <<a, b>>
             r == Append(<<a>>, b)
  <2>1. s \in Seq(T) /\ Len(s) = 2 /\ s[1] = a /\ s[2] = b
    OBVIOUS
  <2>2. <<a>> \in Seq(T) /\ Len(<<a>>) = 1 /\ <<a>>[1] = a
    OBVIOUS
  <2>3. r \in Seq(T) /\ Len(r) = 2 /\ r[1] = a /\ r[2] = b
    BY <2>2, AppendProperties
  <2> HIDE DEF T, s, r
  <2>4. \A i \in 1 .. Len(r) : r[i] = s[i]
    BY <2>1, <2>3
  <2>5. r = s
    BY <2>1, <2>3, <2>4, SeqEqual
  <2> QED  BY <2>5 DEF r, s
<1>9. \A a, b : Head(<<a, b>>) = a
  OBVIOUS
<1>4. \A a, b : Tail(<<a, b>>) = <<b>>
  BY SMTT(60)
<1>5. \A a, b : <<a, b>> # <<>>
  OBVIOUS
<1>6. \A a, b, c : Head(<<a, b, c>>) = a /\ <<a, b, c>> # <<>>
  OBVIOUS
<1>7. \A a, b, c : Tail(<<a, b, c>>) = <<b, c>>
  BY SMTT(60)
<1>8. /\ \A a : Len(<<a>>) = 1
      /\ \A a, b : Len(<<a, b>>) = 2
      /\ \A a, b, c : Len(<<a, b, c>>) = 3
  OBVIOUS
<1> QED  BY <1>1, <1>2, <1>3, <1>4, <1>5, <1>6, <1>7, <1>8, <1>9

\* A sequence of one element.
LEMMA OneElement ==
  ASSUME NEW T, NEW q \in Seq(T), Len(q) = 1
  PROVE  q = <<q[1]>>
<1>1. <<q[1]>> \in Seq(T) /\ Len(<<q[1]>>) = 1 /\ <<q[1]>>[1] = q[1]
  BY ElementOfSeq
<1> DEFINE r == <<q[1]>>
<1> HIDE DEF r
<1>2. r \in Seq(T) /\ Len(q) = Len(r) /\ \A i \in 1 .. Len(q) : q[i] = r[i]
  BY <1>1 DEF r
<1>3. q = r
  BY <1>2, SeqEqual
<1> QED  BY <1>3 DEF r

\* All of a sequence is read.
LEMMA ReadAll ==
  ASSUME NEW T, NEW s \in Seq(T)
  PROVE  SubSeq(s, 1, Len(s)) = s /\ SubSeq(s, Len(s) + 1, Len(s)) = <<>>
<1>1. Len(s) \in Int /\ Len(s) + 1 \in Int /\ Len(s) < Len(s) + 1
  OBVIOUS
<1>2. SubSeq(s, Len(s) + 1, Len(s)) = <<>>
  BY <1>1, SubSeqEmpty
<1> QED  BY <1>2, SubSeqFull

\* Where a string ends.
LEMMA StringEnds ==
  ASSUME NEW c, c # Hash
  PROVE  Seqs!SelectInSeq(<<c, Hash>>, LAMBDA x : x = Hash) = 2
<1> DEFINE t == <<c, Hash>>
           I == {i \in 1 .. Len(t) : t[i] = Hash}
<1>1. I = {2}
  BY DEF Hash
<1>2. Seqs!Min({2}) = 2
  BY DEF Seqs!Min
<1>3. Seqs!SelectInSeq(t, LAMBDA x : x = Hash) = IF I # {} THEN Seqs!Min(I) ELSE 0
  BY DEF Seqs!SelectInSeq
<1> QED  BY <1>1, <1>2, <1>3

\* A status is the number of its digit.
LEMMA StatusNumber ==
  ASSUME NEW s \in Statuses
  PROVE  HasNumber(<<s, Hash>>) /\ Number(<<s, Hash>>) = s
<1> DEFINE t == <<s, Hash>>
<1>1. s \in 0 .. 9 /\ s \in Int /\ Hash \notin 0 .. 9 /\ Hash \in Int
  BY DEF Statuses, Hash, TRACKING, PARKING, UNPARKING, PARKED, SLEWING
<1>2. Digits(t) = 1
  <2> DEFINE I == {i \in 1 .. Len(t) : t[i] \notin 0 .. 9}
  <2>1. I = {2}
    BY <1>1
  <2>2. Seqs!Min({2}) = 2
    BY DEF Seqs!Min
  <2>3. Seqs!SelectInSeq(t, LAMBDA x : x \notin 0 .. 9) = IF I # {} THEN Seqs!Min(I) ELSE 0
    BY DEF Seqs!SelectInSeq
  <2> QED  BY <2>1, <2>2, <2>3 DEF Digits
<1>3. SubSeq(t, 1, 1) = <<s>>
  <2>1. t[1] = s /\ t[1] \in Int
    BY <1>1
  <2> DEFINE q == SubSeq(t, 1, 1)
  <2> HIDE DEF t
  <2>2. q \in Seq(Int) /\ Len(q) = 1 /\ q[1] = s
    BY <2>1, SubSeqProperties
  <2> HIDE DEF q
  <2>3. q = <<q[1]>>
    BY <2>2, OneElement
  <2> QED  BY <2>2, <2>3 DEF q
<1>4. Seqs!FoldLeft(LAMBDA n, c : 10 * n + c, 0, <<s>>) = s
  <2> DEFINE iter == CHOOSE f : f = [u \in SUBSET {1} |->
                       IF u = {} THEN 0
                       ELSE LET x == Seqs!Max(u) IN 10 * f[u \ {x}] + <<s>>[x]]
             g == [u \in SUBSET {1} |-> IF u = {} THEN 0 ELSE s]
  <2>1. DOMAIN <<s>> = {1} /\ Seqs!Max({1}) = 1
    BY DEF Seqs!Max
  <2>2. Seqs!FoldLeft(LAMBDA n, c : 10 * n + c, 0, <<s>>) = iter[{1}]
    BY <2>1 DEF Seqs!FoldLeft, Seqs!MapThenFoldSet
  <2>3. g = [u \in SUBSET {1} |->
               IF u = {} THEN 0 ELSE LET x == Seqs!Max(u) IN 10 * g[u \ {x}] + <<s>>[x]]
    <3>1. \A u \in SUBSET {1} : u = {} \/ u = {1}
      OBVIOUS
    <3>2. g[{1} \ {1}] = 0 /\ 10 * 0 + s = s
      BY <1>1
    <3> DEFINE h == [u \in SUBSET {1} |->
                      IF u = {} THEN 0 ELSE LET x == Seqs!Max(u) IN 10 * g[u \ {x}] + <<s>>[x]]
    <3>3. \A u \in SUBSET {1} : g[u] = h[u]
      <4>1. g[{}] = h[{}]
        OBVIOUS
      <4>2. Seqs!Max({1}) = 1 /\ g[{1}] = s /\ <<s>>[1] = s /\ {1} # {}
        BY <2>1
      <4>3. h[{1}] = 10 * g[{1} \ {1}] + s
        BY <4>2
      <4>4. g[{1} \ {1}] = 0
        BY <3>2
      <4> HIDE DEF g, h
      <4>5. h[{1}] = s
        BY <1>1, <4>3, <4>4
      <4>6. g[{1}] = h[{1}]
        BY <4>2, <4>5
      <4> QED  BY <3>1, <4>1, <4>6
    <3> QED  BY <3>3
  <2>4. iter = [u \in SUBSET {1} |->
                  IF u = {} THEN 0 ELSE LET x == Seqs!Max(u) IN 10 * iter[u \ {x}] + <<s>>[x]]
    BY <2>3
  <2> HIDE DEF iter, g
  <2>5. iter[{}] = 0
    BY <2>4
  <2>6. {1} \ {1} = {} /\ {1} # {} /\ <<s>>[1] = s
    OBVIOUS
  <2>7. iter[{1}] = 10 * iter[{}] + s
    BY <2>1, <2>4, <2>6
  <2>8. iter[{1}] = s
    BY <1>1, <2>5, <2>7
  <2> QED  BY <2>2, <2>8
<1>5. Number(t) = s
  <2>1. Number(t) = Seqs!FoldLeft(LAMBDA n, c : 10 * n + c, 0,
                                  IF Digits(t) < 0 THEN t ELSE SubSeq(t, 1, Digits(t)))
    BY DEF Number
  <2>2. (IF Digits(t) < 0 THEN t ELSE SubSeq(t, 1, Digits(t))) = <<s>>
    BY <1>2, <1>3
  <2> QED  BY <1>4, <2>1, <2>2
<1>6. t # <<>>
  BY ShortSequences
<1> QED  BY <1>2, <1>5, <1>6 DEF HasNumber

\* An answer is read whole.
LEMMA AnswerIsRead ==
  ASSUME NEW p, swant[p] \in Commands \ {"hP", "PO"}, Tells(p, line)
  PROVE  /\ line # <<>> /\ line \in Seq(Int) /\ ToRead(swant[p]) = Len(line) /\ Len(line) > 0
         /\ SubSeq(line, 1, Len(line)) = line
         /\ SubSeq(line, Len(line) + 1, Len(line)) = <<>>
<1>1. Glyph # Hash /\ Glyph \in Int /\ Hash \in Int /\ \A s \in Statuses : s # Hash /\ s \in Int
  BY DEF Glyph, Hash, Statuses, TRACKING, PARKING, UNPARKING, PARKED, SLEWING
<1>2. CASE line \in {<<0>>, <<1>>} /\ swant[p] \in {"Sr", "Sd", "FLIP"}
  <2>3. \A c \in Int : <<c>> \in Seq(Int) /\ Len(<<c>>) = 1
    OBVIOUS
  <2>1. line # <<>> /\ Len(line) = 1 /\ line \in Seq(Int)
    <3>1. 0 \in Int /\ 1 \in Int
      OBVIOUS
    <3>2. PICK c \in {0, 1} : line = <<c>>
      BY <1>2
    <3> QED  BY <2>3, <3>1, <3>2
  <2>2. ToRead(swant[p]) = 1
    BY <1>2, <2>1 DEF ToRead
  <2> QED  BY <2>1, <2>2, ReadAll
<1>3. CASE line = <<0>> /\ swant[p] \in {"MS", "NUDGE"}
  <2>1. line # <<>> /\ Len(line) = 1 /\ line \in Seq(Int) /\ Head(line) = 0
    BY <1>3, ShortSequences
  <2>2. ToRead(swant[p]) = 1
    BY <1>3, <2>1 DEF ToRead
  <2> QED  BY <2>1, <2>2, ReadAll
<1>4. CASE line = Refusal /\ swant[p] \in {"MS", "NUDGE"}
  <2>1. line = <<1, Glyph, Hash>> /\ Head(line) = 1 /\ Tail(line) = <<Glyph, Hash>> /\ line # <<>>
    BY <1>4, ShortSequences DEF Refusal
  <2>2. Seqs!SelectInSeq(Tail(line), LAMBDA x : x = Hash) = 2
    BY <1>1, <2>1, StringEnds
  <2>3. ToRead(swant[p]) = 3
    BY <1>4, <2>1, <2>2 DEF ToRead
  <2>4. Len(line) = 3 /\ line \in Seq(Int)
    BY <1>1, <2>1
  <2>5. SubSeq(line, 1, Len(line)) = line /\ SubSeq(line, Len(line) + 1, Len(line)) = <<>>
    BY <2>4, ReadAll
  <2> QED  BY <2>1, <2>3, <2>4, <2>5
<1>5. CASE swant[p] \in {"pS", "Gstat"} /\ \E c \in Int : c # Hash /\ line = <<c, Hash>>
  <2>1. PICK c \in Int : c # Hash /\ line = <<c, Hash>>
    BY <1>5
  <2>2. line # <<>> /\ Len(line) = 2 /\ line \in Seq(Int)
    BY <1>1, <2>1
  <2>3. Seqs!SelectInSeq(line, LAMBDA x : x = Hash) = 2
    BY <2>1, StringEnds
  <2>4. ToRead(swant[p]) = 2
    BY <1>5, <2>2, <2>3 DEF ToRead
  <2> QED  BY <2>2, <2>4, ReadAll
<1> QED  BY <1>1, <1>2, <1>3, <1>4, <1>5 DEF Tells, Commands

-----------------------------------------------------------------------------
(* Each step keeps the invariant.                                          *)

\* A program that does not call takes no part.
LEMMA OthersIdle ==
  ASSUME NEW q, scall'[q] = "none", sconn'[q] = "none"
  PROVE  (Exchange(q) /\ Told(q))'
BY DEF Exchange, Told

\* What is known when a program has called.
LEMMA Caller ==
  ASSUME ScopeInv, Orderly, NEW p \in Movers, sconn[p] # "none"
  PROVE  /\ ScopeTypes /\ Exchange(p) /\ Told(p) /\ returned = <<>> /\ scall[p] \in Calls
         /\ \A q \in Movers \ {p} : scall[q] = "none" /\ sconn[q] = "none"
         /\ swant[p] \in CommandsOf(scall[p])
         /\ spc # "select" =>
              serving \in Movers /\ serving = p /\ sconn[p] = IF spc = "await" THEN "asked" ELSE "resync"
<1>1. ScopeTypes /\ OneCall /\ Exchange(p) /\ Told(p)
  BY DEF ScopeInv
<1>2. scall[p] # "none" /\ scall[p] \in Calls
  BY <1>1 DEF ScopeTypes, OneCall
<1>3. returned = <<>> /\ \A q \in Movers \ {p} : scall[q] = "none" /\ sconn[q] = "none"
  BY <1>1, <1>2 DEF OneCall
<1>4. swant[p] \in CommandsOf(scall[p])
  BY <1>1, <1>2 DEF OneCall
<1>5. spc # "select" =>
        serving \in Movers /\ serving = p /\ sconn[p] = IF spc = "await" THEN "asked" ELSE "resync"
  BY <1>1, <1>3 DEF OneCall
<1> QED  BY <1>1, <1>2, <1>3, <1>4, <1>5

\* What has to be shown when only the caller takes part.
LEMMA CallerKeeps ==
  ASSUME NEW p \in Movers, ScopeTypes', Exchange(p)', Told(p)', returned' = <<>>,
         scall'[p] \in Calls, sconn'[p] # "none", swant'[p] \in CommandsOf(scall'[p]),
         \A q \in Movers \ {p} : scall'[q] = "none" /\ sconn'[q] = "none",
         spc' # "select" => serving' = p /\ sconn'[p] = IF spc' = "await" THEN "asked" ELSE "resync"
  PROVE  ScopeInv'
<1>1. scall'[p] # "none"
  BY DEF Calls
<1>2. OneCall'
  BY <1>1 DEF OneCall
<1>3. \A q \in Movers : (Exchange(q) /\ Told(q))'
  BY OthersIdle
<1>4. Arrived'
  BY DEF Arrived
<1> QED  BY <1>2, <1>3, <1>4 DEF ScopeInv

LEMMA CommandsAreCommands ==
  ASSUME NEW f \in Calls
  PROVE  CommandsOf(f) \subseteq Commands /\ FirstCommand(f) \in CommandsOf(f)
BY DEF CommandsOf, Commands, FirstCommand, Calls

\* A program sends its next command, after a resync or at once.
LEMMA AskKeeps ==
  ASSUME ScopeInv, Orderly, NEW p \in Movers, sconn[p] = "answered", NEW c \in CommandsOf(scall[p]),
         NEW s \in {"asked", "resync"},
         swant' = [swant EXCEPT ![p] = c], sconn' = [sconn EXCEPT ![p] = s],
         s = "resync" => scall[p] \notin Parks,
         sretry' \in [Movers -> BOOLEAN], accepted' \in [Movers -> BOOLEAN],
         UNCHANGED <<scall, sreply, spc, serving, orders_out, line, mount, returned>>,
         orders_out = <<>> \/ ParkSent(p)', Told(p)'
  PROVE  ScopeInv'
<1>1. /\ ScopeTypes /\ Exchange(p) /\ Told(p) /\ returned = <<>> /\ scall[p] \in Calls
      /\ \A q \in Movers \ {p} : scall[q] = "none" /\ sconn[q] = "none"
  BY Caller
<1>2. c \in Commands
  BY <1>1, CommandsAreCommands
<1>3. ScopeTypes'
  BY <1>1, <1>2 DEF ScopeTypes
<1>4. sconn'[p] = s /\ swant'[p] = c /\ \A q \in Movers \ {p} : sconn'[q] = "none"
  BY <1>1 DEF ScopeTypes
<1>5. spc = "select" /\ line = <<>>
  BY <1>1 DEF Exchange
<1>6. s = "resync" => orders_out = <<>>
  BY DEF ParkSent
<1>7. Exchange(p)'
  BY <1>4, <1>5, <1>6 DEF Exchange
<1> QED  BY <1>1, <1>3, <1>4, <1>5, <1>7, CallerKeeps

\* A call returns.
LEMMA ReturnKeeps ==
  ASSUME ScopeInv, Orderly, NEW p \in Movers, sconn[p] = "answered", orders_out = <<>>,
         CallReturns(p), accepted' \in [Movers -> BOOLEAN], sretry' = sretry,
         UNCHANGED <<sreply, spc, serving, orders_out, line, mount>>,
         scall[p] = "MoveTo" /\ accepted'[p] => mount.status = TRACKING /\ mount.at = p
  PROVE  ScopeInv'
<1>1. /\ ScopeTypes /\ Exchange(p) /\ scall[p] \in Calls
      /\ \A q \in Movers \ {p} : scall[q] = "none" /\ sconn[q] = "none"
  BY Caller
<1>2. ScopeTypes'
  BY <1>1 DEF ScopeTypes, CallReturns
<1>3. \A q \in Movers : scall'[q] = "none" /\ sconn'[q] = "none"
  BY <1>1 DEF ScopeTypes, CallReturns
<1>4. spc = "select" /\ line = <<>>
  BY <1>1 DEF Exchange
<1>5. OneCall'
  BY <1>3, <1>4 DEF OneCall
<1>6. \A q \in Movers : (Exchange(q) /\ Told(q))'
  BY <1>3, OthersIdle
<1>7. Arrived'
  BY DEF Arrived, CallReturns
<1> QED  BY <1>2, <1>5, <1>6, <1>7 DEF ScopeInv

\* Which function sends a command.
LEMMA WhoSends ==
  ASSUME NEW f \in Calls, NEW c \in CommandsOf(f)
  PROVE  /\ c \in {"Sr", "Sd", "MS"} => f = "MoveTo"
         /\ c \in {"pS", "NUDGE"} => f = "SmallMove"
         /\ c = "FLIP" => f = "PerformMeridianFlip"
         /\ c \in {"hP", "PO"} => f \in Parks /\ c = FirstCommand(f)
         /\ c # "Gstat" /\ f \in Parks => c \in {"hP", "PO"} /\ c = FirstCommand(f)
BY DEF CommandsOf, FirstCommand, Calls, Parks

LEMMA GotTargetKeeps ==
  ASSUME ScopeInv, Orderly, NEW p \in Movers, GotTarget(p)
  PROVE  ScopeInv'
<1>1. /\ ScopeTypes /\ Exchange(p) /\ Told(p) /\ scall[p] \in Calls
      /\ swant[p] \in CommandsOf(scall[p])
      /\ sconn[p] = "answered" /\ swant[p] \in {"Sr", "Sd"}
  BY Caller DEF GotTarget
<1>2. scall[p] = "MoveTo" /\ orders_out = <<>> /\ Tells(p, sreply[p])
  BY <1>1, WhoSends DEF Exchange
<1>3. sreply[p] = <<1>> /\ <<1>> # Late
  BY <1>1, <1>2 DEF Tells, Late
<1> DEFINE next == IF swant[p] = "Sr" THEN "Sd" ELSE "MS"
<1>4. /\ Ask(p, next) /\ sretry' = [sretry EXCEPT ![p] = IF next = "MS" THEN FALSE ELSE @]
      /\ UNCHANGED <<scall, accepted, sreply, spc, serving, orders_out, line, mount, returned>>
  BY <1>3 DEF GotTarget, scopeHistory
<1>5. next \in CommandsOf(scall[p])
  BY <1>2 DEF CommandsOf
<1>6. sretry' \in [Movers -> BOOLEAN] /\ accepted' \in [Movers -> BOOLEAN]
  BY <1>1, <1>4 DEF ScopeTypes
<1>7. swant'[p] = next
  BY <1>1, <1>4 DEF ScopeTypes, Ask
<1>8. Told(p)'
  BY <1>1, <1>2, <1>4, <1>7 DEF Told, Tells
<1> QED  BY <1>1, <1>2, <1>4, <1>5, <1>6, <1>8, AskKeeps DEF Ask

LEMMA GotGoToKeeps ==
  ASSUME ScopeInv, Orderly, NEW p \in Movers, GotGoTo(p)
  PROVE  ScopeInv'
<1>1. /\ ScopeTypes /\ Exchange(p) /\ Told(p) /\ scall[p] \in Calls
      /\ swant[p] \in CommandsOf(scall[p])
      /\ sconn[p] = "answered" /\ swant[p] = "MS"
  BY Caller DEF GotGoTo
<1>2. scall[p] = "MoveTo" /\ orders_out = <<>> /\ Tells(p, sreply[p])
  BY <1>1, WhoSends DEF Exchange
<1>3. sreply[p] \in {<<0>>, Refusal} /\ Head(<<0>>) = 0 /\ Head(Refusal) = 1
  BY <1>1, <1>2, ShortSequences DEF Tells, Refusal
<1>4. /\ accepted' = [accepted EXCEPT ![p] = Head(sreply[p]) = 0]
      /\ UNCHANGED <<scall, sreply, spc, serving, orders_out, line, mount, returned>>
  BY DEF GotGoTo, scopeHistory
<1>5. "Gstat" \in CommandsOf(scall[p]) /\ "MS" \in CommandsOf(scall[p]) /\ scall[p] \notin Parks
  BY <1>2 DEF CommandsOf, Parks
<1>6. accepted' \in [Movers -> BOOLEAN] /\ accepted'[p] = (Head(sreply[p]) = 0)
  BY <1>1, <1>4 DEF ScopeTypes
<1>7. CASE sreply[p] = <<0>>
  <2>1. Ask(p, "Gstat") /\ sretry' = sretry
    BY <1>3, <1>7 DEF GotGoTo
  <2>2. sretry' \in [Movers -> BOOLEAN] /\ swant'[p] = "Gstat"
    BY <1>1, <2>1 DEF ScopeTypes, Ask
  <2>3. Gone(p)
    BY <1>1, <1>2, <1>7 DEF Tells
  <2>4. Told(p)'
    BY <1>4, <2>2, <2>3 DEF Told, Gone
  <2> QED  BY <1>1, <1>2, <1>4, <1>5, <1>6, <2>1, <2>2, <2>4, AskKeeps DEF Ask
<1>8. CASE sreply[p] = Refusal
  <2> DEFINE c == IF sretry[p] THEN "Gstat" ELSE "MS"
  <2>1. ResyncThen(p, c) /\ sretry' = [sretry EXCEPT ![p] = TRUE]
    BY <1>3, <1>8 DEF GotGoTo
  <2>2. sretry' \in [Movers -> BOOLEAN] /\ swant'[p] = c
    BY <1>1, <2>1 DEF ScopeTypes, ResyncThen
  <2>3. ~accepted'[p]
    BY <1>3, <1>6, <1>8
  <2>4. Told(p)'
    BY <1>1, <1>4, <2>2, <2>3 DEF Told
  <2> QED  BY <1>1, <1>2, <1>4, <1>5, <1>6, <2>1, <2>2, <2>4, AskKeeps DEF ResyncThen
<1> QED  BY <1>3, <1>7, <1>8

LEMMA GotPierSideKeeps ==
  ASSUME ScopeInv, Orderly, NEW p \in Movers, GotPierSide(p)
  PROVE  ScopeInv'
<1>1. /\ ScopeTypes /\ Exchange(p) /\ Told(p) /\ scall[p] \in Calls
      /\ swant[p] \in CommandsOf(scall[p])
      /\ sconn[p] = "answered" /\ swant[p] = "pS"
  BY Caller DEF GotPierSide
<1>2. scall[p] = "SmallMove" /\ orders_out = <<>>
  BY <1>1, WhoSends DEF Exchange
<1>3. PICK s \in {"asked", "resync"} :
        /\ swant' = [swant EXCEPT ![p] = "NUDGE"] /\ sconn' = [sconn EXCEPT ![p] = s]
  BY DEF GotPierSide, Ask, ResyncThen
<1>4. UNCHANGED <<scall, sreply, sretry, accepted, spc, serving, orders_out, line, mount, returned>>
  BY DEF GotPierSide, scopeHistory
<1>5. "NUDGE" \in CommandsOf(scall[p]) /\ scall[p] \notin Parks
  BY <1>2 DEF CommandsOf, Parks
<1>6. Told(p)'
  BY <1>2, <1>4 DEF Told
<1>7. sretry' \in [Movers -> BOOLEAN] /\ accepted' \in [Movers -> BOOLEAN]
  BY <1>1, <1>4 DEF ScopeTypes
<1> QED  BY <1>1, <1>2, <1>3, <1>4, <1>5, <1>6, <1>7, AskKeeps

\* A small move and a flip, both of which end or wait.
LEMMA GotNudgeOrFlipKeeps ==
  ASSUME ScopeInv, Orderly, NEW p \in Movers, GotNudge(p) \/ GotFlip(p)
  PROVE  ScopeInv'
<1>1. /\ ScopeTypes /\ Exchange(p) /\ scall[p] \in Calls /\ swant[p] \in CommandsOf(scall[p])
      /\ sconn[p] = "answered" /\ swant[p] \in {"NUDGE", "FLIP"}
  BY Caller DEF GotNudge, GotFlip
<1>2. scall[p] # "MoveTo" /\ scall[p] \notin Parks /\ orders_out = <<>>
  BY <1>1, WhoSends DEF Exchange, Parks
<1>3. UNCHANGED <<sreply, sretry, accepted, spc, serving, orders_out, line, mount>>
  BY DEF GotNudge, GotFlip
<1>4. sretry' \in [Movers -> BOOLEAN] /\ accepted' \in [Movers -> BOOLEAN]
  BY <1>1, <1>3 DEF ScopeTypes
<1>5. CASE CallReturns(p)
  BY <1>1, <1>2, <1>3, <1>4, <1>5, ReturnKeeps
<1>6. CASE Ask(p, "Gstat") /\ UNCHANGED <<scall, returned>>
  <2>1. "Gstat" \in CommandsOf(scall[p])
    BY DEF CommandsOf
  <2>2. Told(p)'
    BY <1>2, <1>6 DEF Told
  <2> QED  BY <1>1, <1>2, <1>3, <1>4, <1>6, <2>1, <2>2, AskKeeps DEF Ask
<1> QED  BY <1>5, <1>6 DEF GotNudge, GotFlip

\* What a status says, which was not late.
LEMMA StatusRead ==
  ASSUME NEW p, swant[p] = "Gstat", Tells(p, sreply[p])
  PROVE  /\ sreply[p] # Late /\ HasNumber(sreply[p]) /\ Status(p) \in Statuses
         /\ scall[p] = "MoveTo" /\ accepted[p] => Status(p) = SLEWING \/ mount.status = TRACKING
<1>1. PICK s \in Statuses :
        /\ sreply[p] = <<s, Hash>>
        /\ scall[p] = "MoveTo" /\ accepted[p] => s = SLEWING \/ mount.status = TRACKING
  BY DEF Tells
<1>2. HasNumber(sreply[p]) /\ Number(sreply[p]) = s
  BY <1>1, StatusNumber
<1>3. sreply[p] # Late
  <2>1. Len(<<s, Hash>>) = 2 /\ Len(<<-1>>) = 1
    BY ShortSequences
  <2> QED  BY <1>1, <2>1 DEF Late
<1> QED  BY <1>1, <1>2, <1>3 DEF Status

LEMMA GotStatusKeeps ==
  ASSUME ScopeInv, Orderly, NEW p \in Movers, GotStatus(p)
  PROVE  ScopeInv'
<1>1. /\ ScopeTypes /\ Exchange(p) /\ Told(p) /\ scall[p] \in Calls
      /\ sconn[p] = "answered" /\ swant[p] = "Gstat" /\ scall[p] \notin Parks
  BY Caller DEF GotStatus, Parks
<1>2. orders_out = <<>> /\ Tells(p, sreply[p])
  BY <1>1 DEF Exchange
<1>3. UNCHANGED <<sreply, sretry, accepted, spc, serving, orders_out, line, mount>>
  BY DEF GotStatus
<1>4. sretry' \in [Movers -> BOOLEAN] /\ accepted' \in [Movers -> BOOLEAN]
  BY <1>1, <1>3 DEF ScopeTypes
<1>5. /\ sreply[p] # Late /\ HasNumber(sreply[p])
      /\ scall[p] = "MoveTo" /\ accepted[p] => Status(p) = SLEWING \/ mount.status = TRACKING
  BY <1>1, <1>2, StatusRead
<1>6. CASE Status(p) \in {PARKING, UNPARKING, 4, SLEWING}
  <2>1. Ask(p, "Gstat") /\ UNCHANGED <<scall, returned>>
    BY <1>5, <1>6 DEF GotStatus
  <2>2. swant'[p] = "Gstat"
    BY <1>1, <2>1 DEF ScopeTypes, Ask
  <2>3. Told(p)'
    BY <1>1, <1>3, <2>1, <2>2 DEF Told, Gone
  <2>4. "Gstat" \in CommandsOf(scall[p])
    BY DEF CommandsOf
  <2> QED  BY <1>1, <1>2, <1>3, <1>4, <2>1, <2>3, <2>4, AskKeeps DEF Ask
<1>7. CASE Status(p) \notin {PARKING, UNPARKING, 4, SLEWING}
  <2>1. CallReturns(p)
    BY <1>5, <1>7 DEF GotStatus
  <2>2. scall[p] = "MoveTo" /\ accepted'[p] => mount.status = TRACKING /\ mount.at = p
    BY <1>1, <1>3, <1>5, <1>7 DEF Told, Gone, TRACKING, SLEWING
  <2> QED  BY <1>1, <1>2, <1>3, <1>4, <2>1, <2>2, ReturnKeeps
<1> QED  BY <1>6, <1>7

LEMMA GotParkStatusKeeps ==
  ASSUME ScopeInv, Orderly, NEW p \in Movers, GotParkStatus(p)
  PROVE  ScopeInv'
<1>1. /\ ScopeTypes /\ Exchange(p) /\ scall[p] \in Calls /\ swant[p] \in CommandsOf(scall[p])
      /\ sconn[p] = "answered" /\ scall[p] \in Parks
  BY Caller DEF GotParkStatus, Parks
<1>2. UNCHANGED <<sreply, sretry, accepted, spc, serving, orders_out, line, mount>>
  BY DEF GotParkStatus
<1>3. scall[p] # "MoveTo" /\ "Gstat" \in CommandsOf(scall[p])
  BY <1>1 DEF Parks, CommandsOf
<1>4. sretry' \in [Movers -> BOOLEAN] /\ accepted' \in [Movers -> BOOLEAN]
  BY <1>1, <1>2 DEF ScopeTypes
<1>5. swant[p] = "Gstat" => orders_out = <<>>
  BY <1>1 DEF Exchange
<1>6. swant[p] # "Gstat" => swant[p] \in {"hP", "PO"} /\ swant[p] = FirstCommand(scall[p])
  BY <1>1, WhoSends
<1>7. CASE Ask(p, "Gstat") /\ UNCHANGED <<scall, returned>>
  <2>1. swant'[p] = "Gstat"
    BY <1>1, <1>7 DEF ScopeTypes, Ask
  <2>2. Told(p)'
    BY <1>3, <1>7 DEF Told
  <2>3. orders_out = <<>> \/ orders_out = <<Sent(p, FirstCommand(scall[p]))>>
    BY <1>1, <1>5, <1>6 DEF Exchange
  <2>4. orders_out = <<>> \/ ParkSent(p)'
    BY <1>1, <1>2, <1>7, <2>1, <2>3 DEF ParkSent
  <2> QED  BY <1>1, <1>2, <1>3, <1>4, <1>7, <2>2, <2>4, AskKeeps DEF Ask
<1>8. CASE swant[p] = "Gstat" /\ CallReturns(p)
  BY <1>1, <1>2, <1>3, <1>4, <1>5, <1>8, ReturnKeeps
<1> QED  BY <1>7, <1>8 DEF GotParkStatus

\* A call that meets nothing begins: this needs nothing of those before it.
LEMMA CallScopeKeeps ==
  ASSUME ScopeBase, Orderly', NEW p \in Movers, NEW f \in Calls, CallScope(p, f)
  PROVE  ScopeInv'
<1>1. ScopeTypes /\ Served /\ scall[p] = "none"
  BY DEF ScopeBase, CallScope
<1>2. \A q \in Movers : scall[q] = "none" /\ sconn[q] = "none"
  BY <1>1 DEF CallScope, Orderly, Served
<1>3. spc = "select" /\ line = <<>> /\ orders_out = <<>>
  <2>1. line = <<>> /\ orders_out = <<>>
    BY DEF CallScope, Orderly
  <2> QED  BY <1>1, <1>2, <2>1 DEF Served
<1>4. FirstCommand(f) \in CommandsOf(f) /\ FirstCommand(f) \in Commands
  BY CommandsAreCommands
<1>5. /\ scall' = [scall EXCEPT ![p] = f] /\ swant' = [swant EXCEPT ![p] = FirstCommand(f)]
      /\ sconn' = [sconn EXCEPT ![p] = "asked"] /\ sretry' = [sretry EXCEPT ![p] = FALSE]
      /\ accepted' = [accepted EXCEPT ![p] = FALSE] /\ returned' = <<>>
      /\ UNCHANGED <<sreply, spc, serving, orders_out, line, mount>>
  BY DEF CallScope, Ask
<1>6. ScopeTypes'
  BY <1>1, <1>4, <1>5 DEF ScopeTypes
<1>7. /\ scall'[p] = f /\ swant'[p] = FirstCommand(f) /\ sconn'[p] = "asked"
      /\ \A q \in Movers \ {p} : scall'[q] = "none" /\ sconn'[q] = "none"
  BY <1>1, <1>2, <1>5 DEF ScopeTypes
<1>8. Exchange(p)'
  BY <1>3, <1>5, <1>7 DEF Exchange
<1>9. Told(p)'
  <2>1. FirstCommand(f) \notin {"Sd", "MS", "Gstat"}
    BY DEF FirstCommand, Calls
  <2> QED  BY <1>7, <2>1 DEF Told
<1> QED  BY <1>3, <1>4, <1>5, <1>6, <1>7, <1>8, <1>9, CallerKeeps

LEMMA HandleMessageKeeps ==
  ASSUME ScopeInv, Orderly, NEW p \in Movers, HandleScopeMessage(p)
  PROVE  ScopeInv'
<1>1. /\ ScopeTypes /\ Exchange(p) /\ Told(p) /\ returned = <<>> /\ scall[p] \in Calls
      /\ \A q \in Movers \ {p} : scall[q] = "none" /\ sconn[q] = "none"
      /\ swant[p] \in CommandsOf(scall[p]) /\ sconn[p] = "asked" /\ spc = "select"
  BY Caller DEF HandleScopeMessage
<1>2. line = <<>> /\ (orders_out = <<>> \/ ParkSent(p))
  BY <1>1 DEF Exchange
<1>3. /\ orders_out' = Append(orders_out, Sent(p, swant[p]))
      /\ UNCHANGED <<scall, swant, sretry, accepted, line, mount, returned>>
  BY DEF HandleScopeMessage, ToMount, Sent, scopeHistory
<1>4. Told(p)'
  BY <1>1, <1>3 DEF Told, Gone
<1>5. Append(<<>>, Sent(p, swant[p])) = <<Sent(p, swant[p])>>
  BY ShortSequences
<1>6. Append(<<Sent(p, FirstCommand(scall[p]))>>, Sent(p, swant[p]))
        = <<Sent(p, FirstCommand(scall[p])), Sent(p, swant[p])>>
  BY ShortSequences
<1>7. CASE swant[p] \in {"hP", "PO"}
  <2>1. AnswerProgram(p, <<>>)
    BY <1>7 DEF HandleScopeMessage
  <2>2. orders_out' = <<Sent(p, swant[p])>>
    BY <1>2, <1>3, <1>5, <1>7 DEF ParkSent
  <2>3. <<>> \in Seq(Int)
    OBVIOUS
  <2>4. ScopeTypes'
    BY <1>1, <1>3, <2>1, <2>3 DEF ScopeTypes, AnswerProgram
  <2>5. sconn'[p] = "answered" /\ \A q \in Movers \ {p} : sconn'[q] = "none"
    BY <1>1, <2>1 DEF ScopeTypes, AnswerProgram
  <2>6. Exchange(p)'
    BY <1>2, <1>3, <1>7, <2>1, <2>2, <2>5 DEF Exchange, AnswerProgram
  <2> QED  BY <1>1, <1>3, <1>4, <2>1, <2>4, <2>5, <2>6, CallerKeeps DEF AnswerProgram
<1>8. CASE swant[p] \notin {"hP", "PO"}
  <2>1. spc' = "await" /\ serving' = p /\ UNCHANGED <<sreply, sconn>>
    BY <1>8 DEF HandleScopeMessage
  <2>2. ScopeTypes'
    BY <1>1, <1>3, <2>1 DEF ScopeTypes
  <2>3. \/ orders_out' = <<Sent(p, swant[p])>>
        \/ /\ scall[p] \in Parks /\ swant[p] = "Gstat"
           /\ orders_out' = <<Sent(p, FirstCommand(scall[p])), Sent(p, "Gstat")>>
    BY <1>2, <1>3, <1>5, <1>6 DEF ParkSent
  <2>4. Exchange(p)'
    BY <1>1, <1>2, <1>3, <1>8, <2>1, <2>3 DEF Exchange
  <2> QED  BY <1>1, <1>3, <1>4, <2>1, <2>2, <2>4, CallerKeeps
<1> QED  BY <1>7, <1>8

LEMMA ReadAnswerKeeps ==
  ASSUME ScopeInv, Orderly, ReadAnswer
  PROVE  ScopeInv'
<1>1. PICK p \in Movers : p = serving /\ sconn[p] = "asked" /\ spc = "await"
  BY DEF ReadAnswer, ScopeInv, OneCall
<1>2. /\ ScopeTypes /\ Exchange(p) /\ Told(p) /\ returned = <<>> /\ scall[p] \in Calls
      /\ \A q \in Movers \ {p} : scall[q] = "none" /\ sconn[q] = "none"
      /\ swant[p] \in CommandsOf(scall[p])
  BY <1>1, Caller
<1>3. line # <<>>
  BY DEF ReadAnswer, ToRead
<1>4. swant[p] \notin {"hP", "PO"} /\ orders_out = <<>> /\ Tells(p, line)
  BY <1>1, <1>2, <1>3 DEF Exchange
<1>5. swant[p] \in Commands \ {"hP", "PO"}
  BY <1>2, <1>4, CommandsAreCommands
<1>6. /\ line \in Seq(Int) /\ ToRead(swant[p]) = Len(line)
      /\ SubSeq(line, 1, Len(line)) = line /\ SubSeq(line, Len(line) + 1, Len(line)) = <<>>
  BY <1>4, <1>5, AnswerIsRead
<1>7. AnswerProgram(p, line) /\ line' = <<>>
  BY <1>1, <1>6 DEF ReadAnswer
<1>8. UNCHANGED <<scall, swant, sretry, accepted, orders_out, mount, returned>>
  BY DEF ReadAnswer, scopeHistory
<1>9. ScopeTypes'
  BY <1>2, <1>6, <1>7, <1>8 DEF ScopeTypes, AnswerProgram
<1>10. /\ sconn'[p] = "answered" /\ sreply'[p] = line
       /\ \A q \in Movers \ {p} : sconn'[q] = "none"
  BY <1>1, <1>2, <1>7 DEF ScopeTypes, AnswerProgram
<1>11. Tells(p, sreply[p])'
  BY <1>4, <1>8, <1>10 DEF Tells, Gone
<1>12. Exchange(p)'
  BY <1>4, <1>7, <1>8, <1>10, <1>11 DEF Exchange, AnswerProgram
<1>13. Told(p)'
  BY <1>2, <1>8 DEF Told, Gone
<1> QED  BY <1>1, <1>2, <1>7, <1>8, <1>9, <1>10, <1>12, <1>13, CallerKeeps DEF AnswerProgram

LEMMA HandleResyncKeeps ==
  ASSUME ScopeInv, Orderly, NEW p \in Movers, HandleResync(p)
  PROVE  ScopeInv'
<1>1. /\ ScopeTypes /\ Exchange(p) /\ Told(p) /\ returned = <<>> /\ scall[p] \in Calls
      /\ \A q \in Movers \ {p} : scall[q] = "none" /\ sconn[q] = "none"
      /\ swant[p] \in CommandsOf(scall[p]) /\ sconn[p] = "resync" /\ spc = "select"
  BY Caller DEF HandleResync
<1>2. line = <<>> /\ orders_out = <<>> /\ scall[p] \notin Parks
  BY <1>1 DEF Exchange
<1>3. /\ orders_out' = <<Sent(p, "ACK")>> /\ spc' = "flush" /\ serving' = p
      /\ UNCHANGED <<scall, swant, sconn, sreply, sretry, accepted, line, mount, returned>>
  BY <1>2, ShortSequences DEF HandleResync, ToMount, Sent, programs, scopeHistory
<1>4. ScopeTypes'
  BY <1>1, <1>3 DEF ScopeTypes
<1>5. Exchange(p)'
  BY <1>1, <1>2, <1>3 DEF Exchange
<1>6. Told(p)'
  BY <1>1, <1>3 DEF Told, Gone
<1> QED  BY <1>1, <1>3, <1>4, <1>5, <1>6, CallerKeeps

LEMMA FlushKeeps ==
  ASSUME ScopeInv, Orderly, FlushScopeData
  PROVE  ScopeInv'
<1>1. PICK p \in Movers : p = serving /\ sconn[p] = "resync" /\ spc \in {"flush", "flush again"}
  BY DEF FlushScopeData, ScopeInv, OneCall
<1>2. /\ ScopeTypes /\ Exchange(p) /\ Told(p) /\ returned = <<>> /\ scall[p] \in Calls
      /\ \A q \in Movers \ {p} : scall[q] = "none" /\ sconn[q] = "none"
      /\ swant[p] \in CommandsOf(scall[p])
  BY <1>1, Caller
<1>3. scall[p] \notin Parks
  BY <1>1, <1>2 DEF Exchange
<1>4. orders_out = <<>>
  <2>1. line # <<>> \/ orders_out = <<>>
    BY DEF FlushScopeData
  <2> QED  BY <1>1, <1>2, <2>1 DEF Exchange
<1>5. line' = <<>> /\ UNCHANGED <<scall, swant, sreply, sretry, accepted, mount, returned>>
  BY DEF FlushScopeData, scopeHistory
<1>6. Told(p)'
  BY <1>2, <1>5 DEF Told, Gone
<1>7. CASE spc = "flush"
  <2>1. orders_out' = <<Sent(p, "ACK")>> /\ spc' = "flush again" /\ UNCHANGED <<serving, sconn>>
    BY <1>1, <1>4, <1>7, ShortSequences DEF FlushScopeData, ToMount, Sent
  <2>2. ScopeTypes'
    BY <1>2, <1>5, <2>1 DEF ScopeTypes
  <2>3. Exchange(p)'
    BY <1>1, <1>3, <1>5, <2>1 DEF Exchange
  <2>4. serving' = p
    BY <1>1, <2>1
  <2> QED  BY <1>1, <1>2, <1>5, <1>6, <2>1, <2>2, <2>3, <2>4, CallerKeeps
<1>8. CASE spc = "flush again"
  <2>1. sconn' = [sconn EXCEPT ![p] = "asked"] /\ spc' = "select" /\ UNCHANGED orders_out
    BY <1>1, <1>8 DEF FlushScopeData
  <2>2. ScopeTypes'
    BY <1>2, <1>5, <2>1 DEF ScopeTypes
  <2>3. sconn'[p] = "asked" /\ \A q \in Movers \ {p} : sconn'[q] = "none"
    BY <1>1, <1>2, <2>1 DEF ScopeTypes
  <2>4. Exchange(p)'
    BY <1>4, <1>5, <2>1, <2>3 DEF Exchange
  <2> QED  BY <1>1, <1>2, <1>5, <1>6, <2>1, <2>2, <2>3, <2>4, CallerKeeps
<1> QED  BY <1>1, <1>7, <1>8

\* Whether the mount can take an order: somebody has called.
LEMMA WhoOrders ==
  ASSUME ScopeInv, Orderly, orders_out # <<>>
  PROVE  \E p \in Movers : sconn[p] # "none"
BY DEF ScopeInv, OneCall

\* What the mount makes of the order that is awaited.
LEMMA MountAnswers ==
  ASSUME ScopeTypes, NEW p \in Movers, Told(p), scall[p] \in Calls,
         swant[p] \in CommandsOf(scall[p]), swant[p] \notin {"hP", "PO"},
         line = <<>>, orders_out = <<Sent(p, swant[p])>>, MountExecutes
  PROVE  orders_out' = <<>> /\ Tells(p, line)' /\ Told(p)' /\ ScopeTypes'
<1>1. Head(orders_out) = Sent(p, swant[p]) /\ Tail(orders_out) = <<>>
  BY ShortSequences
<1>2. Head(orders_out).command = swant[p] /\ Head(orders_out).from = p
  BY <1>1 DEF Sent
<1>3. orders_out' = <<>> /\ UNCHANGED <<scall, swant, sconn, sreply, sretry, accepted, spc>>
  BY <1>1 DEF MountExecutes, programs
<1>4. swant[p] # "ACK" /\ swant[p] \in Commands
  BY CommandsAreCommands DEF Commands
<1>5. \A text : Says(text) /\ text \in Seq(Int) => line' = text
  BY DEF Says
<1>6. /\ <<0>> \in Seq(Int) /\ <<1>> \in Seq(Int) /\ Refusal \in Seq(Int) /\ <<Glyph, Hash>> \in Seq(Int)
      /\ \A s \in Statuses : <<s, Hash>> \in Seq(Int)
  BY DEF Refusal, Glyph, Hash, Statuses, TRACKING, PARKING, UNPARKING, PARKED, SLEWING
<1>7. mount.status \in Statuses /\ SLEWING \in Statuses /\ p \in Someone /\ NoMover \in Someone
  BY DEF ScopeTypes, Statuses, Someone
<1>8. \A m \in [status : Statuses, ra : Someone, dec : Someone, goal : Someone, at : Someone] :
        /\ [m EXCEPT !.ra = p].ra = p /\ [m EXCEPT !.dec = p].dec = p /\ [m EXCEPT !.dec = p].ra = m.ra
        /\ \A s \in Statuses, g \in Someone :
             LET n == [m EXCEPT !.status = s, !.goal = g] IN
               /\ n.status = s /\ n.goal = g /\ n.ra = m.ra /\ n.dec = m.dec
  OBVIOUS
<1>9. CASE swant[p] = "Sr"
  <2>1. line' = <<1>> /\ mount' = [mount EXCEPT !.ra = p]
    BY <1>2, <1>5, <1>6, <1>9 DEF MountExecutes
  <2>2. mount'.ra = p /\ ScopeTypes'
    BY <1>3, <1>7, <2>1 DEF ScopeTypes
  <2>3. Tells(p, line)' /\ Told(p)'
    BY <1>3, <1>9, <2>1, <2>2 DEF Tells, Told
  <2> QED  BY <1>3, <2>2, <2>3
<1>10. CASE swant[p] = "Sd"
  <2>1. line' = <<1>> /\ mount' = [mount EXCEPT !.dec = p]
    BY <1>2, <1>5, <1>6, <1>10 DEF MountExecutes
  <2>2. mount'.dec = p /\ mount'.ra = mount.ra /\ ScopeTypes'
    BY <1>3, <1>7, <2>1 DEF ScopeTypes
  <2>3. Tells(p, line)' /\ Told(p)'
    BY <1>3, <1>10, <2>1, <2>2 DEF Tells, Told
  <2> QED  BY <1>3, <2>2, <2>3
<1>11. CASE swant[p] = "MS"
  <2>1. scall[p] = "MoveTo" /\ mount.ra = p /\ mount.dec = p
    BY <1>11, WhoSends DEF Told
  <2>2. \/ line' = <<0>> /\ mount' = [mount EXCEPT !.status = SLEWING, !.goal = p]
        \/ line' = Refusal /\ UNCHANGED mount
    BY <1>2, <1>5, <1>6, <1>11, <2>1 DEF MountExecutes
  <2>3. mount'.ra = p /\ mount'.dec = p /\ ScopeTypes'
    BY <1>3, <1>7, <2>1, <2>2 DEF ScopeTypes
  <2>4. line' = <<0>> => Gone(p)'
    <3>1. Refusal # <<0>>
      BY DEF Refusal
    <3> QED  BY <1>7, <2>2, <3>1 DEF Gone, ScopeTypes
  <2>5. Tells(p, line)' /\ Told(p)'
    BY <1>3, <1>11, <2>2, <2>3, <2>4 DEF Tells, Told
  <2> QED  BY <1>3, <2>3, <2>5
<1>12. CASE swant[p] = "NUDGE"
  <2>1. scall[p] # "MoveTo" /\ mount.at \in Someone
    BY <1>12, WhoSends DEF ScopeTypes
  <2>2. \/ line' = <<0>> /\ mount' = [mount EXCEPT !.status = SLEWING, !.goal = mount.at]
        \/ line' = Refusal /\ UNCHANGED mount
    BY <1>2, <1>5, <1>6, <1>12 DEF MountExecutes
  <2>3. ScopeTypes'
    BY <1>3, <1>7, <2>1, <2>2 DEF ScopeTypes
  <2>4. Tells(p, line)' /\ Told(p)'
    BY <1>3, <1>12, <2>1, <2>2 DEF Tells, Told
  <2> QED  BY <1>3, <2>3, <2>4
<1>13. CASE swant[p] = "FLIP"
  <2>1. scall[p] # "MoveTo" /\ mount.at \in Someone
    BY <1>13, WhoSends DEF ScopeTypes
  <2>2. \/ line' = <<1>> /\ mount' = [mount EXCEPT !.status = SLEWING, !.goal = mount.at]
        \/ line' = <<0>> /\ UNCHANGED mount
    BY <1>2, <1>5, <1>6, <1>13 DEF MountExecutes
  <2>3. ScopeTypes'
    BY <1>3, <1>7, <2>1, <2>2 DEF ScopeTypes
  <2>4. Tells(p, line)' /\ Told(p)'
    BY <1>3, <1>13, <2>1, <2>2 DEF Tells, Told
  <2> QED  BY <1>3, <2>3, <2>4
<1>14. CASE swant[p] = "pS"
  <2>1. scall[p] # "MoveTo" /\ line' = <<Glyph, Hash>> /\ UNCHANGED mount
    BY <1>2, <1>5, <1>6, <1>14, WhoSends DEF MountExecutes
  <2>2. ScopeTypes'
    BY <1>3, <2>1 DEF ScopeTypes
  <2>3. Tells(p, line)' /\ Told(p)'
    BY <1>3, <1>14, <2>1 DEF Tells, Told
  <2> QED  BY <1>3, <2>2, <2>3
<1>15. CASE swant[p] = "Gstat"
  <2>1. line' = <<mount.status, Hash>> /\ UNCHANGED mount
    BY <1>2, <1>5, <1>6, <1>7, <1>15 DEF MountExecutes
  <2>2. ScopeTypes'
    BY <1>3, <2>1 DEF ScopeTypes
  <2>3. Told(p)'
    BY <1>3, <2>1 DEF Told, Gone
  <2>4. scall[p] = "MoveTo" /\ accepted[p] => mount.status = SLEWING \/ mount.status = TRACKING
    BY <1>15 DEF Told, Gone
  <2>5. Tells(p, line)'
    BY <1>3, <1>7, <1>15, <2>1, <2>4 DEF Tells
  <2> QED  BY <1>3, <2>2, <2>3, <2>5
<1> QED  BY <1>4, <1>9, <1>10, <1>11, <1>12, <1>13, <1>14, <1>15 DEF Commands

\* What the mount does with an order that has no answer, or none that is awaited.
LEMMA MountObeys ==
  ASSUME ScopeTypes, NEW p \in Movers, NEW c \in {"hP", "PO", "ACK"}, Told(p),
         Head(orders_out) = Sent(p, c), MountExecutes, line = <<>>,
         c # "ACK" => scall[p] # "MoveTo"
  PROVE  /\ ScopeTypes' /\ Told(p)' /\ orders_out' = Tail(orders_out)
         /\ line' = <<>> \/ (c = "ACK" /\ line' = <<Glyph>>)
<1>1. Head(orders_out).command = c
  BY DEF Sent
<1>2. /\ orders_out' = Tail(orders_out)
      /\ UNCHANGED <<scall, swant, sconn, sreply, sretry, accepted, spc>>
  BY DEF MountExecutes, programs
<1>3. Glyph \in Int /\ {PARKING, UNPARKING} \subseteq Statuses
  BY DEF Glyph, Statuses
<1>4. CASE c = "ACK"
  <2>1. Says(<<Glyph>>) => line' = <<Glyph>>
    BY <1>3 DEF Says
  <2>2. UNCHANGED mount /\ (line' = <<>> \/ line' = <<Glyph>>)
    BY <1>1, <1>4, <2>1 DEF MountExecutes
  <2>3. ScopeTypes' /\ Told(p)'
    BY <1>2, <2>2 DEF ScopeTypes, Told, Gone
  <2> QED  BY <1>2, <1>4, <2>2, <2>3
<1>5. CASE c \in {"hP", "PO"}
  <2>1. PICK s \in Statuses : line' = line /\ mount' = [mount EXCEPT !.status = s]
    <3>1. CASE c = "hP"
      BY <1>1, <1>3, <3>1 DEF MountExecutes
    <3>2. CASE c = "PO"
      <4>1. line' = line /\ mount' = [mount EXCEPT !.status = IF @ = PARKED THEN UNPARKING ELSE @]
        BY <1>1, <3>2 DEF MountExecutes
      <4>2. (IF mount.status = PARKED THEN UNPARKING ELSE mount.status) \in Statuses
        BY <1>3 DEF ScopeTypes
      <4> QED  BY <4>1, <4>2
    <3> QED  BY <1>5, <3>1, <3>2
  <2>2. ScopeTypes'
    BY <1>2, <2>1 DEF ScopeTypes
  <2>3. Told(p)'
    BY <1>2, <1>5 DEF Told
  <2> QED  BY <1>2, <2>1, <2>2, <2>3
<1> QED  BY <1>4, <1>5

LEMMA MountExecutesKeeps ==
  ASSUME ScopeInv, Orderly, MountExecutes
  PROVE  ScopeInv'
<1>1. orders_out # <<>>
  BY DEF MountExecutes
<1>2. PICK p \in Movers : sconn[p] # "none"
  BY <1>1, WhoOrders
<1>3. /\ ScopeTypes /\ Exchange(p) /\ Told(p) /\ returned = <<>> /\ scall[p] \in Calls
      /\ \A q \in Movers \ {p} : scall[q] = "none" /\ sconn[q] = "none"
      /\ swant[p] \in CommandsOf(scall[p])
      /\ spc # "select" => serving = p /\ sconn[p] = IF spc = "await" THEN "asked" ELSE "resync"
  BY <1>2, Caller
<1>4. UNCHANGED <<scall, swant, sconn, sreply, sretry, accepted, timer, spc, serving, returned>>
  BY DEF MountExecutes, programs, scopeHistory
<1>5. SUFFICES ScopeTypes' /\ Exchange(p)' /\ Told(p)'
  BY <1>2, <1>3, <1>4, CallerKeeps
<1> DEFINE f == FirstCommand(scall[p])
<1>6. scall[p] \in Parks => f \in {"hP", "PO"} /\ scall[p] # "MoveTo"
  BY DEF Parks, FirstCommand
<1>7. CASE sconn[p] = "asked" /\ spc = "await" /\ line = <<>> /\ orders_out = <<Sent(p, swant[p])>>
  <2>1. swant[p] \notin {"hP", "PO"}
    BY <1>3, <1>7 DEF Exchange
  <2>2. orders_out' = <<>> /\ Tells(p, line)' /\ Told(p)' /\ ScopeTypes'
    BY <1>3, <1>7, <2>1, MountAnswers
  <2>3. Exchange(p)'
    BY <1>4, <1>7, <2>1, <2>2 DEF Exchange
  <2> QED  BY <2>2, <2>3
<1>8. CASE /\ sconn[p] = "asked" /\ line = <<>> /\ scall[p] \in Parks /\ swant[p] = "Gstat"
           /\ \/ spc = "select" /\ orders_out = <<Sent(p, f)>>
              \/ spc = "await" /\ orders_out = <<Sent(p, f), Sent(p, "Gstat")>>
  <2>1. /\ Head(orders_out) = Sent(p, f)
        /\ Tail(orders_out) = IF spc = "select" THEN <<>> ELSE <<Sent(p, "Gstat")>>
    <3> HIDE DEF f
    <3>1. CASE spc = "select" /\ orders_out = <<Sent(p, f)>>
      BY <3>1, ShortSequences
    <3>2. CASE spc = "await" /\ orders_out = <<Sent(p, f), Sent(p, "Gstat")>>
      BY <3>2, ShortSequences
    <3> QED  BY <1>8, <3>1, <3>2
  <2>2. /\ ScopeTypes' /\ Told(p)' /\ line' = <<>>
        /\ orders_out' = IF spc = "select" THEN <<>> ELSE <<Sent(p, "Gstat")>>
    BY <1>3, <1>6, <1>8, <2>1, MountObeys
  <2>3. Exchange(p)'
    BY <1>4, <1>8, <2>2 DEF Exchange
  <2> QED  BY <2>2, <2>3
<1>9. CASE /\ sconn[p] = "answered" /\ line = <<>> /\ swant[p] \in {"hP", "PO"}
           /\ orders_out = <<Sent(p, swant[p])>> /\ spc = "select"
  <2>1. Head(orders_out) = Sent(p, swant[p]) /\ Tail(orders_out) = <<>> /\ scall[p] # "MoveTo"
    BY <1>3, <1>6, <1>9, ShortSequences, WhoSends
  <2>2. ScopeTypes' /\ Told(p)' /\ line' = <<>> /\ orders_out' = <<>>
    BY <1>3, <1>9, <2>1, MountObeys
  <2>3. Exchange(p)'
    BY <1>4, <1>9, <2>2 DEF Exchange
  <2> QED  BY <2>2, <2>3
<1>10. CASE /\ sconn[p] = "resync" /\ spc \in {"flush", "flush again"}
            /\ line = <<>> /\ orders_out = <<Sent(p, "ACK")>>
  <2>1. Head(orders_out) = Sent(p, "ACK") /\ Tail(orders_out) = <<>> /\ scall[p] \notin Parks
    BY <1>3, <1>10, ShortSequences DEF Exchange
  <2>2. ScopeTypes' /\ Told(p)' /\ line' \in {<<>>, <<Glyph>>} /\ orders_out' = <<>>
    BY <1>3, <1>10, <2>1, MountObeys
  <2>3. Exchange(p)'
    BY <1>4, <1>10, <2>1, <2>2 DEF Exchange
  <2> QED  BY <2>2, <2>3
<1> HIDE DEF f
<1>11. sconn[p] \in {"asked", "resync", "answered"} /\ spc \in {"select", "await", "flush", "flush again"}
  BY <1>2, <1>3 DEF ScopeTypes
<1>12. CASE sconn[p] = "asked"
  <2>1. spc \in {"select", "await"}
    BY <1>3, <1>11, <1>12
  <2> QED  BY <1>1, <1>3, <1>7, <1>8, <1>12, <2>1 DEF Exchange, ParkSent, f
<1>13. CASE sconn[p] = "answered"
  BY <1>1, <1>3, <1>9, <1>13 DEF Exchange
<1>14. CASE sconn[p] = "resync"
  <2>1. spc # "await"
    BY <1>3, <1>14
  <2> QED  BY <1>1, <1>3, <1>10, <1>11, <1>14, <2>1 DEF Exchange
<1> QED  BY <1>11, <1>12, <1>13, <1>14

LEMMA MountArrivesKeeps ==
  ASSUME ScopeInv, Orderly, MountArrives
  PROVE  ScopeInv'
<1>1. ScopeTypes /\ OneCall /\ (\A p \in Movers : Exchange(p) /\ Told(p)) /\ Arrived
  BY DEF ScopeInv
<1>2. UNCHANGED <<scall, swant, sconn, sreply, sretry, accepted, spc, serving, orders_out, line, returned>>
  BY DEF MountArrives, programs, scopeHistory
<1>3. /\ mount.status \in {SLEWING, PARKING, UNPARKING} /\ mount.status # TRACKING
      /\ {TRACKING, PARKED} \subseteq Statuses /\ mount.goal \in Someone /\ NoMover \in Someone
  <2>1. mount.goal \in Someone
    BY <1>1 DEF ScopeTypes
  <2>2. mount.status \in {SLEWING, PARKING, UNPARKING} /\ mount.status # TRACKING
    BY DEF MountArrives, SLEWING, PARKING, UNPARKING, TRACKING
  <2> QED  BY <2>1, <2>2 DEF Statuses, Someone
<1>4. PICK s \in Statuses, a \in Someone :
        /\ mount' = [mount EXCEPT !.status = s, !.at = a]
        /\ mount.status = SLEWING => s = TRACKING /\ a = mount.goal
  <2>1. mount' = [mount EXCEPT !.status = IF mount.status = PARKING THEN PARKED ELSE TRACKING,
                               !.at = IF mount.status = SLEWING THEN mount.goal ELSE NoMover]
    BY DEF MountArrives
  <2>2. SLEWING # PARKING
    BY DEF SLEWING, PARKING
  <2> QED  BY <1>3, <2>1, <2>2
<1>5. /\ mount' \in [status : Statuses, ra : Someone, dec : Someone, goal : Someone, at : Someone]
      /\ mount'.status = s /\ mount'.at = a
      /\ mount'.ra = mount.ra /\ mount'.dec = mount.dec /\ mount'.goal = mount.goal
  BY <1>1, <1>4 DEF ScopeTypes
<1>6. ScopeTypes'
  BY <1>1, <1>2, <1>5 DEF ScopeTypes
<1>7. OneCall'
  BY <1>1, <1>2 DEF OneCall
<1>8. \A p : Gone(p) => Gone(p)'
  BY <1>3, <1>4, <1>5 DEF Gone
<1>9. \A p \in Movers : Told(p)'
  BY <1>1, <1>2, <1>5, <1>8 DEF Told
<1>10. ASSUME NEW p \in Movers, NEW text, Tells(p, text)
       PROVE  (scall'[p] = scall[p] /\ swant'[p] = swant[p] /\ accepted'[p] = accepted[p])
              /\ (swant[p] \in {"Sr", "Sd"} => text = <<1>>)
              /\ (swant[p] = "Sr" => mount'.ra = p) /\ (swant[p] = "Sd" => mount'.dec = p)
              /\ (swant[p] \in {"MS", "NUDGE"} => text \in {<<0>>, Refusal})
              /\ (swant[p] = "MS" /\ text = <<0>> => Gone(p)')
              /\ (swant[p] = "FLIP" => text \in {<<0>>, <<1>>})
              /\ (swant[p] = "pS" => text = <<Glyph, Hash>>)
              /\ (swant[p] = "Gstat" =>
                    \E n \in Statuses :
                      /\ text = <<n, Hash>>
                      /\ scall[p] = "MoveTo" /\ accepted[p] => n = SLEWING \/ mount'.status = TRACKING)
  <2>1. swant[p] = "Gstat" =>
          \E n \in Statuses :
            /\ text = <<n, Hash>>
            /\ scall[p] = "MoveTo" /\ accepted[p] => n = SLEWING \/ mount'.status = TRACKING
    BY <1>3, <1>10 DEF Tells
  <2> QED  BY <1>2, <1>5, <1>8, <1>10, <2>1 DEF Tells
<1>11. ASSUME NEW p \in Movers PROVE Exchange(p)'
  <2>1. Tells(p, line) => Tells(p, line)'
    BY <1>2, <1>10 DEF Tells
  <2>2. Tells(p, sreply[p]) => Tells(p, sreply[p])'
    BY <1>2, <1>10 DEF Tells
  <2>3. ParkSent(p) => ParkSent(p)'
    BY <1>2 DEF ParkSent
  <2> QED  BY <1>1, <1>2, <2>1, <2>2, <2>3 DEF Exchange
<1>12. Arrived'
  BY <1>1, <1>2, <1>3 DEF Arrived
<1> QED  BY <1>6, <1>7, <1>9, <1>11, <1>12 DEF ScopeInv

-----------------------------------------------------------------------------
(* What holds always, late answers and crossed calls or not.               *)

\* The least of some numbers is one of them.
LEMMA LeastIsOne ==
  ASSUME NEW I \in SUBSET Nat, I # {}
  PROVE  Seqs!Min(I) \in I
<1> DEFINE R == {ss \in Nat \X Nat : ss[1] < ss[2]}
<1>1. IsWellFoundedOn(R, Nat)
  BY NatLessThanWellFounded DEF OpToRel
<1>2. \A n, m \in Nat : ~(<<n, m>> \in R) => m <= n
  OBVIOUS
<1> HIDE DEF R
<1>3. \E m \in I : \A n \in I : ~(<<n, m>> \in R)
  BY <1>1, WFMin
<1>4. \E m \in I : \A n \in I : m <= n
  BY <1>2, <1>3
<1> QED  BY <1>4 DEF Seqs!Min

\* Where a string ends, if it does.
LEMMA EndsWithin ==
  ASSUME NEW s \in Seq(Int)
  PROVE  Seqs!SelectInSeq(s, LAMBDA x : x = Hash) \in 0 .. Len(s)
<1> DEFINE I == {i \in 1 .. Len(s) : s[i] = Hash}
<1>1. Seqs!SelectInSeq(s, LAMBDA x : x = Hash) = IF I # {} THEN Seqs!Min(I) ELSE 0
  BY DEF Seqs!SelectInSeq
<1>2. I \in SUBSET Nat /\ I \subseteq 0 .. Len(s) /\ Len(s) \in Nat
  OBVIOUS
<1> HIDE DEF I
<1>3. I # {} => Seqs!Min(I) \in I
  BY <1>2, LeastIsOne
<1> QED  BY <1>1, <1>2, <1>3

\* No more is read than there is.
LEMMA ReadsWhatIsThere ==
  ASSUME line \in Seq(Int), NEW c \in Commands \ {"hP", "PO"}
  PROVE  ToRead(c) \in 0 .. Len(line)
<1> DEFINE string == Seqs!SelectInSeq(line, LAMBDA x : x = Hash)
           rest == Seqs!SelectInSeq(Tail(line), LAMBDA x : x = Hash)
<1>1. string \in 0 .. Len(line) /\ Len(line) \in Nat
  <2>1. string \in 0 .. Len(line)
    BY EndsWithin
  <2>2. Len(line) \in Nat
    OBVIOUS
  <2> QED  BY <2>1, <2>2
<1>2. line # <<>> => Tail(line) \in Seq(Int) /\ Len(Tail(line)) = Len(line) - 1 /\ Len(line) >= 1
  OBVIOUS
<1>3. line # <<>> => rest \in 0 .. Len(line) - 1
  BY <1>2, EndsWithin
<1> HIDE DEF string, rest
<1>4. CASE line = <<>>
  BY <1>1, <1>4 DEF ToRead
<1>5. CASE line # <<>> /\ c \in {"Sr", "Sd", "FLIP"}
  <2>1. ToRead(c) = 1
    BY <1>5 DEF ToRead
  <2> QED  BY <1>1, <1>2, <1>5, <2>1
<1>6. CASE line # <<>> /\ c \in {"MS", "NUDGE"}
  <2>1. ToRead(c) = IF Head(line) = 0 THEN 1 ELSE IF rest = 0 THEN 0 ELSE rest + 1
    BY <1>6 DEF ToRead, rest
  <2> QED  BY <1>1, <1>2, <1>3, <1>6, <2>1
<1>7. CASE line # <<>> /\ c \in {"Gstat", "pS"}
  <2>1. ToRead(c) = string
    BY <1>7 DEF ToRead, string
  <2> QED  BY <1>1, <2>1
<1> QED  BY <1>4, <1>5, <1>6, <1>7 DEF Commands

LEMMA ScopeInitBase == ScopeInit => ScopeBase
<1> SUFFICES ASSUME ScopeInit PROVE ScopeBase
  OBVIOUS
<1>1. <<>> \in Seq(Int) /\ <<>> \in Seq(MountOrders)
  OBVIOUS
<1> QED  BY <1>1 DEF ScopeInit, ScopeBase, ScopeTypes, Served, Commands, Statuses, Someone

\* A program goes on with the answer it has, whatever that is.
LEMMA ProgramKeepsBase ==
  ASSUME ScopeBase, NEW p \in Movers, sconn[p] = "answered",
         \/ UNCHANGED scall /\ \E c \in Commands : Ask(p, c) \/ ResyncThen(p, c)
         \/ CallReturns(p),
         sretry' \in [Movers -> BOOLEAN], accepted' \in [Movers -> BOOLEAN],
         UNCHANGED <<sreply, spc, serving, orders_out, line, mount>>
  PROVE  ScopeBase'
<1>1. ScopeTypes /\ Served
  BY DEF ScopeBase
<1>2. spc # "select" => serving \in Movers \ {p}
  BY <1>1 DEF Served
<1>3. scall[p] # "none"
  BY <1>1 DEF Served
<1>4. CASE UNCHANGED scall /\ \E c \in Commands : Ask(p, c) \/ ResyncThen(p, c)
  <2>1. PICK c \in Commands, t \in {"asked", "resync"} :
          swant' = [swant EXCEPT ![p] = c] /\ sconn' = [sconn EXCEPT ![p] = t]
    BY <1>4 DEF Ask, ResyncThen
  <2>2. ScopeTypes'
    BY <1>1, <1>4, <2>1 DEF ScopeTypes
  <2>3. sconn'[p] # "none" /\ \A q \in Movers \ {p} : sconn'[q] = sconn[q]
    BY <1>1, <2>1 DEF ScopeTypes
  <2>4. \A q \in Movers \ {p} : swant'[q] = swant[q]
    BY <1>1, <2>1 DEF ScopeTypes
  <2>5. Served'
    BY <1>1, <1>2, <1>3, <1>4, <2>3, <2>4 DEF Served
  <2> QED  BY <2>2, <2>5 DEF ScopeBase
<1>5. CASE CallReturns(p)
  <2>1. ScopeTypes'
    BY <1>1, <1>5 DEF ScopeTypes, CallReturns
  <2>2. /\ scall'[p] = "none" /\ sconn'[p] = "none"
        /\ \A q \in Movers \ {p} : scall'[q] = scall[q] /\ sconn'[q] = sconn[q]
    BY <1>1, <1>5 DEF ScopeTypes, CallReturns
  <2>3. Served'
    BY <1>1, <1>2, <1>5, <2>2 DEF Served, CallReturns
  <2> QED  BY <2>1, <2>3 DEF ScopeBase
<1> QED  BY <1>4, <1>5

LEMMA GotAnswerKeepsBase ==
  ASSUME ScopeBase, NEW p \in Movers, GotAnswer(p)
  PROVE  ScopeBase'
<1>1. ScopeTypes
  BY DEF ScopeBase
<1>2. {"Sr", "Sd", "MS", "NUDGE", "Gstat"} \subseteq Commands
  BY DEF Commands
<1>3. CASE GotTarget(p)
  <2>1. sretry' \in [Movers -> BOOLEAN] /\ accepted' \in [Movers -> BOOLEAN]
    BY <1>1, <1>3 DEF GotTarget, ScopeTypes
  <2>2. \E c \in Commands : Ask(p, c) \/ ResyncThen(p, c)
    BY <1>2, <1>3 DEF GotTarget
  <2>3. sconn[p] = "answered" /\ UNCHANGED <<scall, sreply, spc, serving, orders_out, line, mount>>
    BY <1>3 DEF GotTarget
  <2> QED  BY <2>1, <2>2, <2>3, ProgramKeepsBase
<1>4. CASE GotGoTo(p)
  <2>1. sretry' \in [Movers -> BOOLEAN] /\ accepted' \in [Movers -> BOOLEAN]
    BY <1>1, <1>4 DEF GotGoTo, ScopeTypes
  <2>2. \E c \in Commands : Ask(p, c) \/ ResyncThen(p, c)
    BY <1>2, <1>4 DEF GotGoTo
  <2>3. sconn[p] = "answered" /\ UNCHANGED <<scall, sreply, spc, serving, orders_out, line, mount>>
    BY <1>4 DEF GotGoTo
  <2> QED  BY <2>1, <2>2, <2>3, ProgramKeepsBase
<1>5. CASE GotPierSide(p)
  <2>1. sretry' \in [Movers -> BOOLEAN] /\ accepted' \in [Movers -> BOOLEAN]
    BY <1>1, <1>5 DEF GotPierSide, ScopeTypes
  <2>2. \E c \in Commands : Ask(p, c) \/ ResyncThen(p, c)
    BY <1>2, <1>5 DEF GotPierSide
  <2>3. sconn[p] = "answered" /\ UNCHANGED <<scall, sreply, spc, serving, orders_out, line, mount>>
    BY <1>5 DEF GotPierSide
  <2> QED  BY <2>1, <2>2, <2>3, ProgramKeepsBase
<1>6. CASE GotNudge(p) \/ GotFlip(p) \/ GotStatus(p) \/ GotParkStatus(p)
  <2>1. /\ sconn[p] = "answered"
        /\ UNCHANGED <<sreply, sretry, accepted, spc, serving, orders_out, line, mount>>
    BY <1>6 DEF GotNudge, GotFlip, GotStatus, GotParkStatus
  <2>2. sretry' \in [Movers -> BOOLEAN] /\ accepted' \in [Movers -> BOOLEAN]
    BY <1>1, <2>1 DEF ScopeTypes
  <2>3. \/ UNCHANGED scall /\ (Ask(p, "Gstat") \/ ResyncThen(p, "Gstat"))
        \/ CallReturns(p)
    BY <1>6 DEF GotNudge, GotFlip, GotStatus, GotParkStatus
  <2>4. \/ UNCHANGED scall /\ \E c \in Commands : Ask(p, c) \/ ResyncThen(p, c)
        \/ CallReturns(p)
    BY <1>2, <2>3
  <2> QED  BY <2>1, <2>2, <2>4, ProgramKeepsBase
<1> QED  BY <1>3, <1>4, <1>5, <1>6 DEF GotAnswer

\* The server has answered the program it serves, whatever the answer is.
LEMMA AnswerKeepsBase ==
  ASSUME ScopeBase, NEW p \in Movers, sconn[p] \in {"asked", "resync"}, NEW text \in Seq(Int),
         AnswerProgram(p, text), line' \in Seq(Int), orders_out' \in Seq(MountOrders),
         UNCHANGED <<scall, swant, sretry, accepted, mount>>
  PROVE  ScopeBase'
<1>1. ScopeTypes /\ Served
  BY DEF ScopeBase
<1>2. ScopeTypes'
  BY <1>1 DEF ScopeTypes, AnswerProgram
<1>3. sconn'[p] = "answered" /\ \A q \in Movers \ {p} : sconn'[q] = sconn[q]
  BY <1>1 DEF ScopeTypes, AnswerProgram
<1>4. Served'
  BY <1>1, <1>3 DEF Served, AnswerProgram
<1> QED  BY <1>2, <1>4 DEF ScopeBase

LEMMA ServerKeepsBase ==
  ASSUME ScopeBase,
         \/ \E p \in Movers : HandleScopeMessage(p) \/ HandleResync(p)
         \/ ReadAnswer \/ FlushScopeData \/ AnswerLate
  PROVE  ScopeBase'
<1>1. ScopeTypes /\ Served
  BY DEF ScopeBase
<1>2. \A o \in MountOrders : orders_out \in Seq(MountOrders) => Append(orders_out, o) \in Seq(MountOrders)
  OBVIOUS
<1>3. \A p \in Movers : Sent(p, "ACK") \in MountOrders /\ Sent(p, swant[p]) \in MountOrders
  BY <1>1 DEF Sent, MountOrders, ScopeTypes
<1>4. ASSUME NEW p \in Movers, HandleScopeMessage(p) PROVE ScopeBase'
  <2>1. orders_out' \in Seq(MountOrders)
    BY <1>1, <1>2, <1>3, <1>4 DEF HandleScopeMessage, ToMount, Sent, Served
  <2>2. spc = "select" /\ sconn[p] = "asked" /\ UNCHANGED <<scall, swant, sretry, accepted, mount, line>>
    BY <1>4 DEF HandleScopeMessage
  <2>3. CASE AnswerProgram(p, <<>>)
    <3>1. <<>> \in Seq(Int) /\ line' \in Seq(Int)
      BY <1>1, <2>2 DEF Served
    <3> QED  BY <2>1, <2>2, <2>3, <3>1, AnswerKeepsBase
  <2>4. CASE /\ swant[p] \notin {"hP", "PO"}
             /\ spc' = "await" /\ serving' = p /\ UNCHANGED <<sreply, sconn>>
    <3>1. ScopeTypes'
      BY <1>1, <2>2, <2>4 DEF ScopeTypes
    <3>2. Served'
      BY <1>1, <2>1, <2>2, <2>4 DEF Served
    <3> QED  BY <3>1, <3>2 DEF ScopeBase
  <2> QED  BY <1>4, <2>3, <2>4 DEF HandleScopeMessage
<1>5. ASSUME NEW p \in Movers, HandleResync(p) PROVE ScopeBase'
  <2>1. orders_out' \in Seq(MountOrders)
    BY <1>1, <1>2, <1>3, <1>5 DEF HandleResync, ToMount, Sent, Served
  <2>2. /\ sconn[p] = "resync" /\ spc' = "flush" /\ serving' = p
        /\ UNCHANGED <<scall, swant, sconn, sreply, sretry, accepted, mount, line>>
    BY <1>5 DEF HandleResync, programs
  <2>3. ScopeTypes' /\ Served'
    BY <1>1, <2>1, <2>2 DEF ScopeTypes, Served
  <2> QED  BY <2>3 DEF ScopeBase
<1>6. CASE ReadAnswer
  <2>1. serving \in Movers /\ sconn[serving] = "asked" /\ line \in Seq(Int) /\ swant[serving] \in Commands
    BY <1>1, <1>6 DEF ReadAnswer, Served, ScopeTypes
  <2> DEFINE n == ToRead(swant[serving])
  <2>2. n \in 0 .. Len(line) /\ n > 0
    <3>1. n > 0
      BY <1>6 DEF ReadAnswer
    <3>2. swant[serving] \notin {"hP", "PO"}
      BY <1>1, <1>6 DEF ReadAnswer, Served
    <3> QED  BY <2>1, <3>1, <3>2, ReadsWhatIsThere
  <2> HIDE DEF n
  <2>3. SubSeq(line, 1, n) \in Seq(Int) /\ SubSeq(line, n + 1, Len(line)) \in Seq(Int)
    <3>1. Len(line) \in Nat /\ \A i \in 1 .. Len(line) : line[i] \in Int
      BY <2>1
    <3>2. (\A i \in 1 .. n : line[i] \in Int) /\ (\A i \in n + 1 .. Len(line) : line[i] \in Int)
      BY <2>2, <3>1
    <3>3. n \in Int /\ n + 1 \in Int /\ Len(line) \in Int
      BY <2>2, <3>1
    <3> QED  BY <3>2, <3>3, SubSeqProperties
  <2>4. /\ AnswerProgram(serving, SubSeq(line, 1, n)) /\ line' = SubSeq(line, n + 1, Len(line))
        /\ UNCHANGED <<scall, swant, sretry, accepted, mount, orders_out>>
    BY <1>6 DEF ReadAnswer, n
  <2>5. orders_out' \in Seq(MountOrders)
    BY <1>1, <2>4 DEF Served
  <2> QED  BY <2>1, <2>3, <2>4, <2>5, AnswerKeepsBase
<1>7. CASE AnswerLate
  <2>1. serving \in Movers /\ sconn[serving] = "asked"
    BY <1>1, <1>7 DEF AnswerLate, Served
  <2>2. /\ AnswerProgram(serving, Late) /\ line' \in Seq(Int) /\ orders_out' \in Seq(MountOrders)
        /\ UNCHANGED <<scall, swant, sretry, accepted, mount>>
    BY <1>1, <1>7 DEF AnswerLate, Served
  <2>3. Late \in Seq(Int)
    BY DEF Late
  <2> QED  BY <2>1, <2>2, <2>3, AnswerKeepsBase
<1>8. CASE FlushScopeData
  <2>1. /\ serving \in Movers /\ sconn[serving] = "resync" /\ spc \in {"flush", "flush again"}
        /\ <<>> \in Seq(Int) /\ line' = <<>> /\ UNCHANGED <<scall, swant, sreply, sretry, accepted, mount>>
    <3>1. spc \in {"flush", "flush again"}
          /\ line' = <<>> /\ UNCHANGED <<scall, swant, sreply, sretry, accepted, mount>>
      BY <1>8 DEF FlushScopeData
    <3>2. serving \in Movers /\ sconn[serving] = "resync"
      BY <1>1, <3>1 DEF Served
    <3>3. <<>> \in Seq(Int)
      OBVIOUS
    <3> QED  BY <3>1, <3>2, <3>3
  <2>2. CASE spc = "flush"
    <3>1. spc' = "flush again" /\ UNCHANGED <<serving, sconn>> /\ orders_out' \in Seq(MountOrders)
      BY <1>1, <1>2, <1>3, <1>8, <2>1, <2>2 DEF FlushScopeData, ToMount, Sent, Served
    <3>2. ScopeTypes' /\ Served'
      BY <1>1, <2>1, <3>1 DEF ScopeTypes, Served
    <3> QED  BY <3>2 DEF ScopeBase
  <2>3. CASE spc = "flush again"
    <3>1. sconn' = [sconn EXCEPT ![serving] = "asked"] /\ spc' = "select" /\ UNCHANGED orders_out
      BY <1>8, <2>3 DEF FlushScopeData
    <3>2. ScopeTypes' /\ \A q \in Movers : sconn'[q] = "none" <=> sconn[q] = "none"
      BY <1>1, <2>1, <3>1 DEF ScopeTypes
    <3>3. Served'
      BY <1>1, <2>1, <3>1, <3>2 DEF Served
    <3> QED  BY <3>2, <3>3 DEF ScopeBase
  <2> QED  BY <2>1, <2>2, <2>3
<1> QED  BY <1>4, <1>5, <1>6, <1>7, <1>8

\* What the mount is told and does, in whatever order it was told.
LEMMA MountKeepsBase ==
  ASSUME ScopeBase, MountExecutes \/ MountArrives
  PROVE  ScopeBase'
<1>1. ScopeTypes /\ Served
  BY DEF ScopeBase
<1>2. UNCHANGED <<scall, swant, sconn, sreply, sretry, accepted, spc, serving>>
  BY DEF MountExecutes, MountArrives, programs
<1> DEFINE Mount == [status : Statuses, ra : Someone, dec : Someone, goal : Someone, at : Someone]
<1>3. SUFFICES line' \in Seq(Int) /\ orders_out' \in Seq(MountOrders) /\ mount' \in Mount
  <2> SUFFICES ASSUME line' \in Seq(Int), orders_out' \in Seq(MountOrders), mount' \in Mount
               PROVE  ScopeBase'
    OBVIOUS
  <2>1. ScopeTypes'
    BY <1>1, <1>2 DEF ScopeTypes
  <2>2. Served'
    BY <1>1, <1>2 DEF Served
  <2> QED  BY <2>1, <2>2 DEF ScopeBase
<1>4. mount \in Mount /\ line \in Seq(Int) /\ orders_out \in Seq(MountOrders)
  BY <1>1 DEF ScopeTypes, Served
<1>5. /\ {TRACKING, PARKING, UNPARKING, PARKED, SLEWING} \subseteq Statuses
      /\ NoMover \in Someone /\ Movers \subseteq Someone
  BY DEF Statuses, Someone
<1>6. mount.ra \in Someone /\ mount.goal \in Someone /\ mount.at \in Someone
      /\ mount.status \in Statuses
  BY <1>4
<1>7. CASE MountArrives
  <2>1. PICK n \in Statuses, a \in Someone : mount' = [mount EXCEPT !.status = n, !.at = a]
    <3>1. mount' = [mount EXCEPT !.status = IF mount.status = PARKING THEN PARKED ELSE TRACKING,
                                 !.at = IF mount.status = SLEWING THEN mount.goal ELSE NoMover]
      BY <1>7 DEF MountArrives
    <3> QED  BY <1>5, <1>6, <3>1
  <2>2. UNCHANGED <<line, orders_out>>
    BY <1>7 DEF MountArrives
  <2> QED  BY <1>4, <2>1, <2>2
<1>8. CASE MountExecutes
  <2> DEFINE c == Head(orders_out).command
             p == Head(orders_out).from
  <2>1. orders_out' \in Seq(MountOrders) /\ Head(orders_out) \in MountOrders
    BY <1>4, <1>8 DEF MountExecutes
  <2>2. p \in Someone
    BY <1>5, <2>1 DEF MountOrders
  <2>3. \A text \in Seq(Int) : Says(text) => line' \in Seq(Int)
    BY <1>4 DEF Says
  <2>4. /\ <<0>> \in Seq(Int) /\ <<1>> \in Seq(Int) /\ Refusal \in Seq(Int)
        /\ <<Glyph, Hash>> \in Seq(Int) /\ <<Glyph>> \in Seq(Int)
        /\ \A n \in Statuses : <<n, Hash>> \in Seq(Int)
    BY DEF Refusal, Glyph, Hash, Statuses, TRACKING, PARKING, UNPARKING, PARKED, SLEWING
  <2>5. line' = line \/ \E text \in Seq(Int) : Says(text)
    BY <1>6, <1>8, <2>4 DEF MountExecutes
  <2>6. line' \in Seq(Int)
    BY <1>4, <2>3, <2>5
  <2>7. \/ mount' = mount \/ mount' = [mount EXCEPT !.ra = p] \/ mount' = [mount EXCEPT !.dec = p]
        \/ \E g \in Someone : mount' = [mount EXCEPT !.status = SLEWING, !.goal = g]
        \/ \E n \in Statuses : mount' = [mount EXCEPT !.status = n]
    <3>1. (IF mount.status = PARKED THEN UNPARKING ELSE mount.status) \in Statuses
      BY <1>5, <1>6
    <3> QED  BY <1>5, <1>6, <1>8, <3>1 DEF MountExecutes
  <2>8. mount' \in Mount
    <3> HIDE DEF c, p
    <3> QED  BY <1>4, <1>5, <2>2, <2>7
  <2> QED  BY <2>1, <2>6, <2>8
<1> QED  BY <1>7, <1>8

LEMMA CallKeepsBase ==
  ASSUME ScopeBase, NEW p \in Movers, NEW f \in Calls, CallScope(p, f)
  PROVE  ScopeBase'
<1>1. ScopeTypes /\ Served
  BY DEF ScopeBase
<1>2. /\ scall[p] = "none" /\ scall' = [scall EXCEPT ![p] = f]
      /\ swant' = [swant EXCEPT ![p] = FirstCommand(f)] /\ sconn' = [sconn EXCEPT ![p] = "asked"]
      /\ sretry' = [sretry EXCEPT ![p] = FALSE] /\ accepted' = [accepted EXCEPT ![p] = FALSE]
      /\ UNCHANGED <<sreply, spc, serving, orders_out, line, mount>>
  BY DEF CallScope, Ask
<1>3. FirstCommand(f) \in Commands
  BY CommandsAreCommands
<1>4. ScopeTypes'
  BY <1>1, <1>2, <1>3 DEF ScopeTypes
<1>5. /\ scall'[p] # "none" /\ sconn'[p] # "none"
      /\ \A q \in Movers \ {p} :
           scall'[q] = scall[q] /\ sconn'[q] = sconn[q] /\ swant'[q] = swant[q]
  BY <1>1, <1>2 DEF ScopeTypes, Calls
<1>6. spc # "select" => serving \in Movers \ {p}
  BY <1>1, <1>2 DEF Served
<1>7. Served'
  BY <1>1, <1>2, <1>5, <1>6 DEF Served
<1> QED  BY <1>4, <1>7 DEF ScopeBase

LEMMA ScopeBaseKeeps == ScopeBase /\ [ScopeNext]_scopeVars => ScopeBase'
<1> SUFFICES ASSUME ScopeBase, [ScopeNext]_scopeVars PROVE ScopeBase'
  OBVIOUS
<1>1. CASE UNCHANGED scopeVars
  <2>1. UNCHANGED <<scall, swant, sconn, sreply, sretry, accepted, spc, serving, orders_out, line, mount>>
    BY <1>1 DEF scopeVars, programs
  <2> QED  BY <2>1 DEF ScopeBase, ScopeTypes, Served
<1>2. CASE ScopeNext
  BY <1>2, CallKeepsBase, GotAnswerKeepsBase, ServerKeepsBase, MountKeepsBase DEF ScopeNext, ScopeStep
<1> QED  BY <1>1, <1>2

LEMMA ScopeInitHolds == ScopeInit => ScopeInv
<1> SUFFICES ASSUME ScopeInit PROVE ScopeInv
  OBVIOUS
<1>1. ScopeTypes
  <2>1. <<>> \in Seq(Int)
    OBVIOUS
  <2> QED  BY <2>1 DEF ScopeInit, ScopeTypes, Commands, Statuses, Someone
<1>2. OneCall
  BY DEF ScopeInit, OneCall
<1>3. \A p \in Movers : Exchange(p) /\ Told(p)
  BY DEF ScopeInit, Exchange, Told
<1>4. Arrived
  BY DEF ScopeInit, Arrived
<1> QED  BY <1>1, <1>2, <1>3, <1>4 DEF ScopeInv

LEMMA ScopeStepKeeps == ScopeBase /\ ScopeInv /\ [ScopeNext]_scopeVars => ScopeInv'
<1> SUFFICES ASSUME ScopeBase, ScopeInv, [ScopeNext]_scopeVars, Orderly' PROVE ScopeInv'
  BY DEF ScopeInv
<1> USE DEF ScopeNext
<1>1. CASE UNCHANGED scopeVars
  <2>1. UNCHANGED <<scall, swant, sconn, sreply, sretry, accepted, spc, serving, orders_out, line, mount,
                    returned, disturbed>>
    BY <1>1 DEF scopeVars, programs, scopeHistory
  <2>2. ScopeTypes' = ScopeTypes /\ OneCall' = OneCall /\ Arrived' = Arrived /\ Orderly' = Orderly
    BY <2>1 DEF ScopeTypes, OneCall, Arrived, Orderly
  <2>3. ASSUME NEW p PROVE Told(p)' = Told(p) /\ Exchange(p)' = Exchange(p)
    BY <2>1 DEF Told, Gone, Exchange, Tells, ParkSent
  <2> QED  BY <2>2, <2>3 DEF ScopeInv
<1>2. ASSUME NEW p \in Movers, NEW f \in Calls, CallScope(p, f) PROVE ScopeInv'
  BY <1>2, CallScopeKeeps
<1>3. ASSUME ScopeStep PROVE ScopeInv'
  <2>1. Orderly
    <3>1. ASSUME NEW p \in Movers, GotAnswer(p) PROVE UNCHANGED disturbed
      BY <3>1 DEF GotAnswer, GotTarget, GotGoTo, GotPierSide, GotNudge, GotFlip, GotStatus,
                  GotParkStatus, scopeHistory
    <3>2. ASSUME NEW p \in Movers, HandleScopeMessage(p) \/ HandleResync(p)
          PROVE  UNCHANGED disturbed
      BY <3>2 DEF HandleScopeMessage, HandleResync, scopeHistory
    <3>3. ReadAnswer \/ FlushScopeData \/ MountExecutes => UNCHANGED disturbed
      BY DEF ReadAnswer, FlushScopeData, MountExecutes, scopeHistory
    <3>4. UNCHANGED disturbed
      BY <1>3, <3>1, <3>2, <3>3 DEF ScopeStep
    <3> QED  BY <3>4 DEF Orderly
  <2>2. ASSUME NEW p \in Movers, GotAnswer(p) PROVE ScopeInv'
    BY <2>1, <2>2, GotTargetKeeps, GotGoToKeeps, GotPierSideKeeps, GotNudgeOrFlipKeeps,
       GotStatusKeeps, GotParkStatusKeeps DEF GotAnswer
  <2> QED  BY <1>3, <2>1, <2>2, HandleMessageKeeps, HandleResyncKeeps, ReadAnswerKeeps, FlushKeeps,
              MountExecutesKeeps DEF ScopeStep
<1>4. CASE AnswerLate
  BY <1>4 DEF AnswerLate, Orderly
<1>5. CASE MountArrives
  <2>1. Orderly
    BY <1>5 DEF Orderly, MountArrives, scopeHistory
  <2> QED  BY <1>5, <2>1, MountArrivesKeeps
<1> QED  BY <1>1, <1>2, <1>3, <1>4, <1>5

\* When MoveTo() has returned and the call was not disturbed, a mount that took
\* the goto stands where this program wanted it, however many programs take turns,
\* however often the mount refused and whatever became of the calls before: the
\* resyncs and repeated coordinates of SetTargetPosition() never leave half of
\* another target, and the wait never ends before the slew (MoveTo(),
\* WaitForGoToDone()).
THEOREM GotoIsWaitedFor == ScopeFairSpec => []GotoArrives
<1>1. ScopeInv => GotoArrives
  <2> SUFFICES ASSUME ScopeInv PROVE GotoArrives
    OBVIOUS
  <2>1. ~disturbed => Arrived
    BY DEF ScopeInv, Orderly
  <2>2. TRACKING # SLEWING
    BY DEF TRACKING, SLEWING
  <2> QED  BY <2>1, <2>2 DEF GotoArrives, Arrived
<1>2. ScopeInit => ScopeBase
  BY ScopeInitBase
<1>3. ScopeBase /\ [ScopeNext]_scopeVars => ScopeBase'
  BY ScopeBaseKeeps
<1> QED  BY <1>1, <1>2, <1>3, ScopeInitHolds, ScopeStepKeeps, PTL DEF ScopeFairSpec
=============================================================================
