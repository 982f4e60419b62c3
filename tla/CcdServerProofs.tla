--------------------------- MODULE CcdServerProofs ---------------------------
(***************************************************************************)
(* Proofs about CcdServer: type correctness, the ownership of descriptors, *)
(* the timers, and the images of clients that coordinate, for every number *)
(* of clients, slots, filters and polls.                                   *)
(***************************************************************************)
EXTENDS CcdServer, TLAPS

-----------------------------------------------------------------------------
(* What the handlers leave behind.                                         *)

\* The copy of the wheel's state a handler works on.
WheelView == [pos : Positions, turning : Seq(Positions), at : Positions]

TimerResult == expired' \in BOOLEAN /\ armed' \in BOOLEAN /\ handler' \in Procedures
MoveResult == at' \in Positions /\ turning' \in Seq(Positions) /\ rbuf' \in Seq(Positions)
SendResult == pc' \in Places /\ inq' \in [Clients -> Seq(Image \cup StatusReply)]
ExposureResult ==
  /\ TimerResult /\ SendResult
  /\ exp' \in ExposureInfo /\ ecount' \in Int
  /\ sensor' \in [id : Ids \cup {0}, light : Positions, sharp : BOOLEAN]
HandlerResult == ExposureResult /\ MoveResult /\ fcount' \in Int

\* The staging slot is a slot of the wheel.
LEMMA StagingPosType ==
  ASSUME NEW p \in Positions PROVE StagingPos(p) \in Positions
BY ConstantsOK DEF StagingPos, Positions

\* GenMessage::send() appends to the queue of one client or stops the server.
LEMMA SendType ==
  ASSUME TypeOK, NEW fd, NEW m \in Image \cup StatusReply, Send(fd, m)
  PROVE  SendResult
<1> DEFINE c == PeerOf(fd)
<1>1. CASE UNCHANGED inq /\ pc' \in {"serve", "exited"}
  BY <1>1 DEF TypeOK, ClientOK, SendResult, Places
<1>2. CASE c # None /\ inq' = [inq EXCEPT ![c] = Append(@, m)] /\ pc' = "serve"
  <2>1. c \in Clients
    BY <1>2 DEF TypeOK, NetOK, PeerOf
  <2>2. Append(inq[c], m) \in Seq(Image \cup StatusReply)
    BY <2>1 DEF TypeOK, ClientOK
  <2> QED  BY <1>2, <2>1, <2>2 DEF TypeOK, ClientOK, SendResult, Places
<1> QED  BY <1>1, <1>2 DEF Send

\* SetTimeout() and a handler without it leave a well-formed timer slot.
LEMMA TimerType ==
  ASSUME TypeOK, NEW p \in Procedures, NEW x \in BOOLEAN, SetTimeout(p) \/ NoTimeout(x)
  PROVE  TimerResult
BY DEF TypeOK, ServerOK, SetTimeout, NoTimeout, TimerResult

LEMMA MoveType ==
  ASSUME NEW w \in WheelView, NEW p \in Positions, USBMoveFilterWheel(w, p)
  PROVE  MoveResult
<1>1. w.at \in Positions /\ w.turning \in Seq(Positions)
  BY DEF WheelView
<1>2. <<p>> \in Seq(Positions) /\ Append(w.turning, p) \in Seq(Positions)
       /\ <<>> \in Seq(Positions)
  BY <1>1
<1> QED  BY <1>1, <1>2 DEF USBMoveFilterWheel, MoveResult

LEMMA LeftType ==
  ASSUME NEW w \in WheelView, WheelLeft(w) PROVE MoveResult
<1>1. <<>> \in Seq(Positions)
  OBVIOUS
<1> QED  BY <1>1 DEF WheelView, WheelLeft, MoveResult

\* The image is labelled with a slot of the wheel.
LEMMA ReadoutType ==
  ASSUME TypeOK, NEW e \in ExposureInfo, NEW x \in BOOLEAN, NEW n \in Int,
         NEW light \in [id : Ids \cup {0}, light : Positions, sharp : BOOLEAN],
         NEW w, w.pos \in Positions,
         ReadoutExposure(e, light, n, x, w)
  PROVE  ExposureResult
<1> DEFINE m == [kind |-> "image", id |-> light.id, light |-> light.light,
                 label |-> w.pos, sharp |-> light.sharp /\ w.turning = <<>>]
<1>1. m \in Image
  <2>1. (light.sharp /\ w.turning = <<>>) \in BOOLEAN
    OBVIOUS
  <2> QED  BY <2>1 DEF Image
<1>2. SendResult
  <2>1. CASE Send(e.sock, m)
    BY <1>1, <2>1, SendType
  <2>2. CASE UNCHANGED inq /\ pc' \in {"serve", "exited"}
    BY <2>2 DEF TypeOK, ClientOK, SendResult, Places
  <2> QED  BY <2>1, <2>2 DEF ReadoutExposure
<1>3. TimerResult
  BY TimerType DEF ReadoutExposure, Procedures
<1>4. exp' \in ExposureInfo
  BY DEF ReadoutExposure, ExposureInfo, States
<1>5. NoLight \in [id : Ids \cup {0}, light : Positions, sharp : BOOLEAN]
  BY ConstantsOK DEF NoLight, Positions
<1> QED  BY <1>2, <1>3, <1>4, <1>5 DEF ReadoutExposure, ExposureResult

Light == [id : Ids \cup {0}, light : Positions, sharp : BOOLEAN]

LEMMA ExposureTimeoutType ==
  ASSUME TypeOK, NEW e \in ExposureInfo, NEW x \in BOOLEAN, NEW n \in Int,
         NEW light \in Light, NEW w, w.pos \in Positions,
         ExposureTimeout(e, light, n, x, w)
  PROVE  ExposureResult
<1>1. CASE ReadoutExposure(e, light, n, x, w)
  BY <1>1, ReadoutType DEF Light
<1>2. CASE /\ exp' = [e EXCEPT !.state = "ReadyForExposureToEnd"]
           /\ ecount' = n - 1 /\ sensor' = light
           /\ SetTimeout("ExposureTimeoutWithLock") \/ NoTimeout(x)
           /\ UNCHANGED inq /\ pc' = "serve"
  <2>1. exp' \in ExposureInfo
    BY <1>2 DEF ExposureInfo, States
  <2>2. TimerResult
    BY <1>2, TimerType DEF Procedures
  <2>3. SendResult
    BY <1>2 DEF TypeOK, ClientOK, SendResult, Places
  <2> QED  BY <1>2, <2>1, <2>2, <2>3 DEF ExposureResult, Light
<1> QED  BY <1>1, <1>2 DEF ExposureTimeout

LEMMA StartExposureType ==
  ASSUME TypeOK, NEW e \in ExposureInfo, NEW x \in BOOLEAN, NEW w \in WheelView,
         w.pos \in Positions, StartExposure(e, x, w)
  PROVE  ExposureResult
<1> DEFINE open == [e EXCEPT !.state = "Exposing"]
           light == [id |-> e.id, light |-> w.at, sharp |-> w.turning = <<>>]
<1>1. open \in ExposureInfo /\ [e EXCEPT !.state = "ReadyForExposure"] \in ExposureInfo
  BY DEF ExposureInfo, States
<1>2. light \in Light
  <2>1. (w.turning = <<>>) \in BOOLEAN
    OBVIOUS
  <2> QED  BY <2>1 DEF ExposureInfo, WheelView, Light
<1>3. EXP_MAX_TIMEOUTS \in Int
  BY ConstantsOK
<1>4. CASE ExposureTimeout(open, light, EXP_MAX_TIMEOUTS, x, w)
  BY <1>1, <1>2, <1>3, <1>4, ExposureTimeoutType
<1>5. CASE /\ exp' = open /\ ecount' = EXP_MAX_TIMEOUTS /\ sensor' = light
           /\ SetTimeout("ExposureTimeoutWithLock") /\ pc' = "serve" /\ UNCHANGED inq
  <2>1. TimerResult
    BY <1>5, TimerType DEF Procedures
  <2>2. SendResult
    BY <1>5 DEF TypeOK, ClientOK, SendResult, Places
  <2> QED  BY <1>1, <1>2, <1>3, <1>5, <2>1, <2>2 DEF ExposureResult, Light
<1>6. CASE /\ exp' \in {open, [e EXCEPT !.state = "ReadyForExposure"]}
           /\ NoTimeout(x) /\ pc' = "serve" /\ UNCHANGED <<ecount, sensor, inq>>
  <2>1. TimerResult
    BY <1>6, TimerType DEF Procedures
  <2>2. SendResult
    BY <1>6 DEF TypeOK, ClientOK, SendResult, Places
  <2> QED  BY <1>1, <1>6, <2>1, <2>2 DEF ExposureResult, TypeOK, ServerOK, WheelOK
<1> QED  BY <1>4, <1>5, <1>6 DEF StartExposure

LEMMA RotateWheelType ==
  ASSUME TypeOK, NEW e \in ExposureInfo, NEW w \in WheelView, RotateWheel(e, w)
  PROVE  HandlerResult
<1>1. e.desired \in Positions /\ StagingPos(e.desired) \in Positions
  BY StagingPosType DEF ExposureInfo
<1>2. exp' \in ExposureInfo
  BY <1>1 DEF RotateWheel, ExposureInfo
<1>3. MoveResult
  BY <1>1, MoveType DEF RotateWheel
<1>4. TimerResult
  BY TimerType DEF RotateWheel, Procedures
<1>5. SendResult
  BY DEF RotateWheel, TypeOK, ClientOK, SendResult, Places
<1>6. CFW_MAX_TIMEOUTS \in Int
  BY ConstantsOK
<1> QED  BY <1>2, <1>3, <1>4, <1>5, <1>6
         DEF RotateWheel, HandlerResult, ExposureResult, TypeOK, ServerOK, WheelOK

LEMMA ProcessAllType ==
  ASSUME TypeOK, NEW e \in ExposureInfo, NEW x \in BOOLEAN, NEW w \in WheelView,
         w.pos \in Positions, ProcessAll(e, x, w)
  PROVE  HandlerResult
<1>1. CASE RotateWheel(e, w)
  BY <1>1, RotateWheelType
<1>2. CASE StartExposure(e, x, w) /\ WheelLeft(w) /\ UNCHANGED fcount
  BY <1>2, StartExposureType, LeftType DEF HandlerResult, TypeOK, ServerOK
<1>3. CASE /\ exp' = e /\ NoTimeout(x) /\ pc' = "serve" /\ WheelLeft(w)
           /\ UNCHANGED <<fcount, ecount, sensor, inq>>
  <2>1. TimerResult
    BY <1>3, TimerType DEF Procedures
  <2>2. SendResult
    BY <1>3 DEF TypeOK, ClientOK, SendResult, Places
  <2> QED  BY <1>3, <2>1, <2>2, LeftType
           DEF HandlerResult, ExposureResult, TypeOK, ServerOK, WheelOK
<1> QED  BY <1>1, <1>2, <1>3 DEF ProcessAll

-----------------------------------------------------------------------------
(* Type correctness.                                                       *)

\* Before the first EXPOSE nothing can turn the wheel, report a position or
\* start a timer; from then on the position is known.
Initialised ==
  /\ initDone => pos # -1
  /\ handler # "none" \/ rbuf # <<>> \/ turning # <<>> => initDone

\* The loop calls accept() only when a connection waits.
AcceptWaits == Listen \in ready => backlog # <<>>

TypeInv == TypeOK /\ Initialised /\ AcceptWaits

LEMMA EmptySequence == \A S : <<>> \in Seq(S)
OBVIOUS

LEMMA InitType == Init => TypeInv
<1> SUFFICES ASSUME Init PROVE TypeInv
  OBVIOUS
<1>1. 0 \in Positions
  BY ConstantsOK DEF Positions
<1>2. ServerOK
  <2>1. exp \in ExposureInfo
    BY <1>1 DEF Init, ExposureInfo, States
  <2>2. fcount \in Int /\ ecount \in Int /\ ready \subseteq Slots \cup {Listen}
    BY DEF Init
  <2>3. pc \in Places /\ handler \in Procedures
    BY DEF Init, Places, Procedures
  <2> QED  BY <2>1, <2>2, <2>3 DEF Init, ServerOK
<1>3. WheelOK
  <2>1. rbuf \in Seq(Positions) /\ turning \in Seq(Positions)
    BY EmptySequence DEF Init
  <2>2. sensor \in [id : Ids \cup {0}, light : Positions, sharp : BOOLEAN]
    BY <1>1 DEF Init, NoLight
  <2> QED  BY <2>1, <2>2 DEF Init, WheelOK
<1>4. NetOK
  BY DEF Init, NetOK
<1>5. ClientOK
  <2>1. 0 \in 0 .. MaxRequests
    BY ConstantsOK
  <2> QED  BY <1>1, <2>1 DEF Init, ClientOK
<1> QED  BY <1>2, <1>3, <1>4, <1>5 DEF Init, TypeInv, TypeOK, Initialised, AcceptWaits

LEMMA ReportedType ==
  ASSUME TypeOK
  PROVE  /\ Reported \in Positions \cup {-1}
         /\ pos # -1 \/ rbuf # <<>> => Reported \in Positions
<1>1. rbuf # <<>> => Head(rbuf) \in Positions
  BY DEF TypeOK, WheelOK
<1> QED  BY <1>1 DEF Reported, TypeOK, WheelOK

LEMMA CfwReadyType ==
  ASSUME TypeInv, NEW w \in CfwReady
  PROVE  w \in WheelView /\ w.pos \in Positions
<1>1. 0 \in Positions
  BY ConstantsOK DEF Positions
<1>2. CASE initDone
  BY <1>2, ReportedType DEF TypeInv, Initialised, CfwReady, TypeOK, WheelOK, WheelView
<1>3. CASE ~initDone
  <2>1. <<>> \in Seq(Positions) /\ <<0>> \in Seq(Positions)
    BY <1>1
  <2>2. w.pos = 0 /\ w.turning \in {<<>>, <<0>>} /\ w.at \in {0, at}
        /\ w = [pos |-> w.pos, turning |-> w.turning, at |-> w.at]
    BY <1>3 DEF CfwReady
  <2> QED  BY <1>1, <2>1, <2>2 DEF TypeInv, TypeOK, WheelOK, WheelView
<1> QED  BY <1>2, <1>3

\* A handler that runs once the wheel is initialised keeps the invariant.
LEMMA HandlerKeeps ==
  ASSUME TypeInv, HandlerResult, pos' \in Positions, initDone' = TRUE,
         ready' \subseteq ready,
         NetOK', UNCHANGED backlog, cst' = cst, asked' = asked, nreq' = nreq,
         out' \in [Clients -> Seq(Expose \cup Status)]
  PROVE  TypeInv'
<1>1. ServerOK'
  BY DEF TypeInv, TypeOK, ServerOK, HandlerResult, ExposureResult, TimerResult,
         SendResult
<1>2. WheelOK'
  BY DEF HandlerResult, ExposureResult, MoveResult, WheelOK
<1>3. ClientOK'
  BY DEF TypeInv, TypeOK, ClientOK, HandlerResult, ExposureResult, SendResult
<1>4. Initialised'
  BY DEF Initialised, Positions
<1>5. AcceptWaits'
  BY DEF TypeInv, AcceptWaits
<1> QED  BY <1>1, <1>2, <1>3, <1>4, <1>5 DEF TypeInv, TypeOK

LEMMA DispatchType ==
  ASSUME TypeInv, DispatchTimeout PROVE TypeInv'
<1> USE DEF DispatchTimeout
<1>1. NetOK' /\ out' \in [Clients -> Seq(Expose \cup Status)]
  BY DEF TypeInv, TypeOK, NetOK, ClientOK, netVars, clientVars
<1>2. CASE ~expired
  <2>1. /\ pc' = "serve"
        /\ UNCHANGED <<expired, armed, handler, exp, fcount, ecount, ready, backlog>>
        /\ UNCHANGED <<pos, initDone, rbuf, turning, at, sensor>>
        /\ UNCHANGED <<cst, asked, nreq, inq>>
    BY <1>2 DEF timerVars, wheelVars, netVars, clientVars
  <2>2. ServerOK' /\ AcceptWaits'
    BY <2>1 DEF TypeInv, TypeOK, ServerOK, AcceptWaits, Places
  <2>3. WheelOK' /\ Initialised'
    BY <2>1 DEF TypeInv, TypeOK, WheelOK, Initialised
  <2>4. ClientOK'
    BY <1>1, <2>1 DEF TypeInv, TypeOK, ClientOK
  <2> QED  BY <1>1, <2>2, <2>3, <2>4 DEF TypeInv, TypeOK
<1>3. CASE expired /\ handler = "FilterTimeout"
  <2>1. initDone /\ Reported \in Positions
    BY <1>3, ReportedType DEF TypeInv, Initialised
  <2>2. FilterTimeout
    BY <1>3
  <2>3. Now \in WheelView /\ Now.pos = Reported
    BY <2>1 DEF Now, WheelView, TypeInv, TypeOK, WheelOK
  <2>4. HandlerResult
    <3>1. CASE ProcessAll([exp EXCEPT !.tgt = 1], FALSE, Now)
      <4>1. [exp EXCEPT !.tgt = 1] \in ExposureInfo
        BY DEF TypeInv, TypeOK, ServerOK, ExposureInfo
      <4> QED  BY <2>1, <2>3, <3>1, <4>1, ProcessAllType DEF TypeInv
    <3>2. CASE ProcessAll([exp EXCEPT !.tgt = 0, !.state = "ReadyForExposure"],
                          FALSE, Now)
      <4>1. [exp EXCEPT !.tgt = 0, !.state = "ReadyForExposure"] \in ExposureInfo
        BY DEF TypeInv, TypeOK, ServerOK, ExposureInfo, States
      <4> QED  BY <2>1, <2>3, <3>2, <4>1, ProcessAllType DEF TypeInv
    <3>3. CASE /\ fcount' = fcount - 1
               /\ SetTimeout("FilterTimeout") \/ NoTimeout(FALSE)
               /\ pc' \in {"serve", "exited"}
               /\ WheelLeft(Now) /\ UNCHANGED <<exp, ecount, sensor, inq>>
      <4>1. TimerResult
        BY <3>3, TimerType DEF TypeInv, Procedures
      <4>2. MoveResult
        BY <2>3, <3>3, LeftType
      <4>3. SendResult
        BY <3>3 DEF TypeInv, TypeOK, ClientOK, SendResult, Places
      <4> QED  BY <3>3, <4>1, <4>2, <4>3
               DEF HandlerResult, ExposureResult, TypeInv, TypeOK, ServerOK, WheelOK
    <3> QED  BY <2>2, <3>1, <3>2, <3>3 DEF FilterTimeout
  <2> QED  BY <1>1, <2>1, <2>2, <2>4, HandlerKeeps DEF FilterTimeout, clientVars, netVars
<1>4. CASE expired /\ handler = "ExposureTimeoutWithLock"
  <2>1. initDone /\ pos \in Positions
    BY <1>4 DEF TypeInv, Initialised, TypeOK, WheelOK
  <2> DEFINE w == [Now EXCEPT !.pos = pos]
  <2>2. w.pos = pos
    BY DEF Now
  <2>3. ExposureResult
    BY <1>4, <2>1, <2>2, ExposureTimeoutType DEF TypeInv, TypeOK, ServerOK, WheelOK, Light
  <2>4. MoveResult /\ fcount' \in Int /\ pos' = pos /\ initDone' = initDone
    BY <1>4 DEF wheelVars, MoveResult, TypeInv, TypeOK, ServerOK, WheelOK
  <2>5. initDone' = TRUE
    BY <2>1, <2>4 DEF TypeInv, TypeOK, WheelOK
  <2> QED  BY <1>1, <2>1, <2>3, <2>4, <2>5, HandlerKeeps
           DEF HandlerResult, clientVars, netVars
<1> QED  BY <1>2, <1>3, <1>4

LEMMA ServeType ==
  ASSUME TypeInv, NEW j \in Slots, ServeMessage(j) PROVE TypeInv'
<1> DEFINE c == PeerOf(slot[j])
           m == Head(out[c])
<1>1. NetOK' /\ backlog' = backlog /\ cst' = cst /\ asked' = asked /\ nreq' = nreq
  BY DEF ServeMessage, netVars, TypeInv, TypeOK, NetOK
<1>2. out' \in [Clients -> Seq(Expose \cup Status)]
  <2>1. out' = [out EXCEPT ![c] = Tail(@)] /\ out[c] # <<>>
    BY DEF ServeMessage
  <2>2. CASE c \in Clients
    <3>1. Tail(out[c]) \in Seq(Expose \cup Status)
      BY <2>1, <2>2 DEF TypeInv, TypeOK, ClientOK
    <3> QED  BY <2>1, <2>2, <3>1 DEF TypeInv, TypeOK, ClientOK
  <2>3. CASE c \notin Clients
    BY <2>1, <2>3 DEF TypeInv, TypeOK, ClientOK
  <2> QED  BY <2>2, <2>3
<1>3. ready' \subseteq ready
  BY DEF ServeMessage
<1>4. CASE m \in Expose /\ HandleExpose(slot[j], m)
  <2>1. PICK w \in CfwReady :
          /\ pos' = w.pos /\ initDone' = TRUE
          /\ ProcessAll([exp EXCEPT !.state = "ExposureRequested",
                                    !.desired = m.filter, !.sock = slot[j],
                                    !.id = m.id, !.short = m.short], expired, w)
    BY <1>4 DEF HandleExpose
  <2> DEFINE e == [exp EXCEPT !.state = "ExposureRequested", !.desired = m.filter,
                              !.sock = slot[j], !.id = m.id, !.short = m.short]
  <2>2. w \in WheelView /\ w.pos \in Positions
    BY CfwReadyType
  <2>3. slot[j] \in FDs \cup {0}
    BY DEF TypeInv, TypeOK, NetOK
  <2>4. e \in ExposureInfo
    BY <1>4, <2>3 DEF TypeInv, TypeOK, ServerOK, ExposureInfo, States, Expose
  <2>5. HandlerResult
    BY <2>1, <2>2, <2>4, ProcessAllType DEF TypeInv, TypeOK, ServerOK
  <2> QED  BY <1>1, <1>2, <1>3, <2>1, <2>2, <2>5, HandlerKeeps
<1>5. CASE m \in Status /\ HandleStatus(slot[j])
  <2>1. SendResult
    <3>1. [kind |-> "status"] \in Image \cup StatusReply
      BY DEF StatusReply
    <3> QED  BY <1>5, <3>1, SendType DEF HandleStatus, TypeInv
  <2>2. TimerResult
    BY <1>5, TimerType DEF HandleStatus, TypeInv, TypeOK, ServerOK, Procedures
  <2>3. MoveResult
    BY <1>5, EmptySequence DEF HandleStatus, MoveResult, TypeInv, TypeOK, WheelOK
  <2>4. ServerOK'
    BY <1>3, <1>5, <2>1, <2>2
       DEF HandleStatus, TypeInv, TypeOK, ServerOK, TimerResult, SendResult
  <2>5. WheelOK'
    BY <1>5, <2>3, ReportedType DEF HandleStatus, MoveResult, TypeInv, TypeOK, WheelOK
  <2>6. ClientOK'
    BY <1>1, <1>2, <2>1 DEF SendResult, TypeInv, TypeOK, ClientOK
  <2>7. Initialised'
    BY <1>5, ReportedType DEF HandleStatus, NoTimeout, TypeInv, Initialised, Positions
  <2>8. AcceptWaits'
    BY <1>1, <1>3 DEF TypeInv, AcceptWaits
  <2> QED  BY <1>1, <2>4, <2>5, <2>6, <2>7, <2>8 DEF TypeInv, TypeOK
<1> QED  BY <1>4, <1>5 DEF ServeMessage

LEMMA LoopType ==
  ASSUME TypeInv, LoopTop \/ SelectBlocks \/ SelectReturns \/ LoopEnd \/ Alarm
  PROVE  TypeInv'
<1>1. /\ UNCHANGED <<exp, fcount, ecount, pos, initDone, rbuf, turning, at, sensor>>
      /\ UNCHANGED <<slot, peer, backlog, cst, asked, out, nreq, inq, handler>>
      /\ expired' \in BOOLEAN /\ armed' \in BOOLEAN
  BY DEF LoopTop, SelectBlocks, SelectReturns, LoopEnd, Alarm, timerVars, wheelVars,
         netVars, clientVars, TypeInv, TypeOK, ServerOK
<1>2. pc' \in Places
  BY DEF LoopTop, SelectBlocks, SelectReturns, LoopEnd, Alarm, TypeInv, TypeOK,
         ServerOK, Places
<1>3. ready' \in {ready, {}, ReadySet}
  BY DEF LoopTop, SelectBlocks, SelectReturns, LoopEnd, Alarm
<1>4. ready' \subseteq Slots \cup {Listen} /\ (Listen \in ready' => backlog # <<>>)
  <2>1. Listen \notin Slots
    BY ConstantsOK DEF Listen, Slots
  <2> QED  BY <1>3, <2>1 DEF ReadySet, TypeInv, TypeOK, ServerOK, AcceptWaits
<1>5. ServerOK'
  BY <1>1, <1>2, <1>4 DEF ServerOK, TypeInv, TypeOK
<1>6. WheelOK' /\ Initialised'
  BY <1>1 DEF WheelOK, Initialised, TypeInv, TypeOK
<1>7. NetOK' /\ ClientOK'
  BY <1>1 DEF NetOK, ClientOK, TypeInv, TypeOK
<1> QED  BY <1>1, <1>4, <1>5, <1>6, <1>7 DEF TypeInv, TypeOK, AcceptWaits

LEMMA CloseType ==
  ASSUME TypeInv, NEW j \in Slots, CloseConnection(j) PROVE TypeInv'
<1>1. UNCHANGED <<pc, timerVars, exp, fcount, ecount, wheelVars, sensor, backlog,
                  clientVars, inq>>
  BY DEF CloseConnection
<1>2. NetOK'
  BY DEF CloseConnection, TypeInv, TypeOK, NetOK
<1>3. ServerOK' /\ AcceptWaits'
  BY <1>1 DEF CloseConnection, timerVars, TypeInv, TypeOK, ServerOK, AcceptWaits
<1>4. WheelOK' /\ Initialised'
  BY <1>1 DEF wheelVars, timerVars, WheelOK, Initialised, TypeInv, TypeOK
<1>5. ClientOK'
  BY <1>1 DEF clientVars, ClientOK, TypeInv, TypeOK
<1> QED  BY <1>2, <1>3, <1>4, <1>5 DEF TypeInv, TypeOK

LEMMA AcceptType ==
  ASSUME TypeInv, AcceptConnection PROVE TypeInv'
<1>1. UNCHANGED <<pc, timerVars, exp, fcount, ecount, wheelVars, sensor, clientVars,
                  inq>>
  BY DEF AcceptConnection
<1>2. backlog # <<>> /\ Head(backlog) \in Clients /\ Tail(backlog) \in Seq(Clients)
  BY DEF AcceptConnection, Turn, TypeInv, TypeOK, NetOK, AcceptWaits
<1>3. NetOK'
  BY <1>2 DEF AcceptConnection, TypeInv, TypeOK, NetOK
<1>4. ServerOK' /\ AcceptWaits'
  BY <1>1 DEF AcceptConnection, timerVars, TypeInv, TypeOK, ServerOK, AcceptWaits
<1>5. WheelOK' /\ Initialised'
  BY <1>1 DEF wheelVars, timerVars, WheelOK, Initialised, TypeInv, TypeOK
<1>6. ClientOK'
  BY <1>1 DEF clientVars, ClientOK, TypeInv, TypeOK
<1> QED  BY <1>3, <1>4, <1>5, <1>6 DEF TypeInv, TypeOK

LEMMA WheelType ==
  ASSUME TypeInv, WheelDone PROVE TypeInv'
<1>1. UNCHANGED <<pc, ready, timerVars, exp, fcount, ecount, pos, initDone, netVars,
                  clientVars, inq>>
  BY DEF WheelDone
<1>2. /\ Head(turning) \in Positions /\ Tail(turning) \in Seq(Positions)
      /\ Append(rbuf, Head(turning)) \in Seq(Positions)
  BY DEF WheelDone, TypeInv, TypeOK, WheelOK
<1>3. sensor' \in [id : Ids \cup {0}, light : Positions, sharp : BOOLEAN]
  BY DEF WheelDone, TypeInv, TypeOK, WheelOK
<1>4. WheelOK'
  BY <1>1, <1>2, <1>3 DEF WheelDone, TypeInv, TypeOK, WheelOK
<1>5. Initialised'
  BY <1>1 DEF WheelDone, timerVars, TypeInv, Initialised
<1>6. ServerOK' /\ AcceptWaits'
  BY <1>1 DEF timerVars, netVars, TypeInv, TypeOK, ServerOK, AcceptWaits
<1>7. NetOK' /\ ClientOK'
  BY <1>1 DEF netVars, clientVars, NetOK, ClientOK, TypeInv, TypeOK
<1> QED  BY <1>4, <1>5, <1>6, <1>7 DEF TypeInv, TypeOK

LEMMA ClientType ==
  ASSUME TypeInv, NEW c \in Clients, ClientStep(c) PROVE TypeInv'
<1>1. UNCHANGED <<pc, ready, timerVars, exp, fcount, ecount, wheelVars, sensor, slot,
                  peer>>
  BY DEF ClientStep, Connect, SendStatus, Receive, Leave, SendExpose, ServerVars, netVars
<1>2. ServerOK' /\ WheelOK' /\ Initialised'
  BY <1>1 DEF timerVars, wheelVars, ServerOK, WheelOK, Initialised, TypeInv, TypeOK
<1>3. backlog' \in {backlog, Append(backlog, c)}
  BY DEF ClientStep, Connect, SendStatus, Receive, Leave, SendExpose, netVars
<1>4. Append(backlog, c) \in Seq(Clients) /\ Append(backlog, c) # <<>>
  BY DEF TypeInv, TypeOK, NetOK
<1>5. NetOK' /\ AcceptWaits'
  BY <1>1, <1>3, <1>4 DEF NetOK, AcceptWaits, TypeInv, TypeOK
<1>6. ClientOK'
  <2>1. CASE Connect(c)
    BY <2>1 DEF Connect, TypeInv, TypeOK, ClientOK
  <2>2. CASE SendStatus(c)
    <3>1. Append(out[c], [id |-> 0]) \in Seq(Expose \cup Status)
      BY DEF Status, TypeInv, TypeOK, ClientOK
    <3> QED  BY <2>2, <3>1 DEF SendStatus, TypeInv, TypeOK, ClientOK
  <2>3. CASE Receive(c)
    <3>1. Tail(inq[c]) \in Seq(Image \cup StatusReply)
      BY <2>3 DEF Receive, TypeInv, TypeOK, ClientOK
    <3> QED  BY <2>3, <3>1 DEF Receive, TypeInv, TypeOK, ClientOK
  <2>4. CASE Leave(c)
    BY <2>4, EmptySequence DEF Leave, TypeInv, TypeOK, ClientOK
  <2>5. CASE \E f \in Positions, short \in BOOLEAN : SendExpose(c, f, short)
    <3>1. PICK f \in Positions, short \in BOOLEAN : SendExpose(c, f, short)
      BY <2>5
    <3> DEFINE m == [id |-> nreq + 1, filter |-> f, short |-> short]
    <3>2. nreq + 1 \in Ids /\ nreq' = nreq + 1
      BY <3>1, ConstantsOK DEF SendExpose, Ids, TypeInv, TypeOK, ClientOK
    <3>3. m \in Expose
      BY <3>2 DEF Expose
    <3>4. Append(out[c], m) \in Seq(Expose \cup Status)
      BY <3>3 DEF TypeInv, TypeOK, ClientOK
    <3>5. /\ cst' = [cst EXCEPT ![c] = "expose"]
          /\ asked' = [asked EXCEPT ![c] = m]
          /\ out' = [out EXCEPT ![c] = Append(@, m)]
          /\ inq' = inq
      BY <3>1, <3>2 DEF SendExpose
    <3>6. nreq' \in 0 .. MaxRequests
      BY <3>2, ConstantsOK DEF Ids
    <3> QED  BY <3>3, <3>4, <3>5, <3>6 DEF TypeInv, TypeOK, ClientOK
  <2> QED  BY <2>1, <2>2, <2>3, <2>4, <2>5 DEF ClientStep
<1> QED  BY <1>2, <1>5, <1>6 DEF TypeInv, TypeOK

LEMMA StutterType == TypeInv /\ UNCHANGED vars => TypeInv'
<1> SUFFICES ASSUME TypeInv, UNCHANGED vars PROVE TypeInv'
  OBVIOUS
<1>1. ServerOK' /\ AcceptWaits'
  BY DEF vars, timerVars, netVars, TypeInv, TypeOK, ServerOK, AcceptWaits
<1>2. WheelOK' /\ Initialised'
  BY DEF vars, timerVars, wheelVars, TypeInv, TypeOK, WheelOK, Initialised
<1>3. NetOK' /\ ClientOK'
  BY DEF vars, netVars, clientVars, TypeInv, TypeOK, NetOK, ClientOK
<1> QED  BY <1>1, <1>2, <1>3 DEF TypeInv, TypeOK

LEMMA NextType == TypeInv /\ [Next]_vars => TypeInv'
<1> SUFFICES ASSUME TypeInv, [Next]_vars PROVE TypeInv'
  OBVIOUS
<1>1. CASE Server
  <2>1. CASE LoopTop \/ SelectBlocks \/ SelectReturns \/ LoopEnd
    BY <2>1, LoopType
  <2>2. CASE DispatchTimeout
    BY <2>2, DispatchType
  <2>3. CASE \E j \in Slots : ServeMessage(j) \/ CloseConnection(j)
    BY <2>3, ServeType, CloseType
  <2>4. CASE AcceptConnection
    BY <2>4, AcceptType
  <2> QED  BY <1>1, <2>1, <2>2, <2>3, <2>4 DEF Server
<1>2. CASE Alarm
  BY <1>2, LoopType
<1>3. CASE WheelDone
  BY <1>3, WheelType
<1>4. CASE \E c \in Clients : ClientStep(c)
  BY <1>4, ClientType
<1>5. CASE UNCHANGED vars
  BY <1>5, StutterType
<1> QED  BY <1>1, <1>2, <1>3, <1>4, <1>5 DEF Next

LEMMA TypeInvariant == Spec => []TypeInv
<1> QED  BY InitType, NextType, PTL DEF Spec

\* No behaviour of the server, whatever its clients, its wheel and its camera
\* do, takes a variable out of its set: InstalledFilters() is never indexed
\* with the -1 that stands for a wheel of unknown position.
THEOREM TypeCorrect == Spec => []TypeOK
<1>1. TypeInv => TypeOK
  BY DEF TypeInv
<1> QED  BY <1>1, TypeInvariant, PTL

-----------------------------------------------------------------------------
(* The connection table.                                                   *)

\* Descriptors change hands only in accept() and close().
LEMMA TableStep ==
  ASSUME TypeInv, [Next]_vars
  PROVE  \/ UNCHANGED <<slot, peer>>
         \/ AcceptConnection
         \/ \E j \in Slots : CloseConnection(j)
BY DEF Next, Server, LoopTop, SelectBlocks, SelectReturns, DispatchTimeout,
       ServeMessage, LoopEnd, Alarm, WheelDone, ClientStep, Connect, SendStatus,
       Receive, Leave, SendExpose, vars, netVars

\* A message is read from the client the slot was filled for, however many
\* clients come and go and however often the kernel reuses their descriptors.
THEOREM OneOwnerCorrect == Spec => []OneOwner
<1>1. Init => OneOwner
  BY DEF Init, OneOwner
<1>2. TypeInv /\ OneOwner /\ [Next]_vars => OneOwner'
  <2> SUFFICES ASSUME TypeInv, OneOwner, [Next]_vars PROVE OneOwner'
    OBVIOUS
  <2>1. CASE UNCHANGED <<slot, peer>>
    BY <2>1 DEF OneOwner
  <2>2. CASE AcceptConnection
    <3>1. PICK fd \in FDs :
            /\ peer[fd] = None
            /\ peer' = [peer EXCEPT ![fd] = Head(backlog)]
            /\ \/ \E j \in Slots : slot[j] = 0 /\ slot' = [slot EXCEPT ![j] = fd]
               \/ UNCHANGED slot
      BY <2>2 DEF AcceptConnection
    <3>2. Head(backlog) \in Clients /\ Head(backlog) # None
      BY <2>2, ConstantsOK DEF AcceptConnection, Turn, TypeInv, TypeOK, NetOK, AcceptWaits
    <3>3. \A k \in Slots : slot[k] # 0 => slot[k] # fd
      BY <3>1 DEF OneOwner
    <3>4. 0 \notin FDs
      BY DEF FDs
    <3> QED  BY <3>1, <3>2, <3>3, <3>4 DEF OneOwner, TypeInv, TypeOK, NetOK
  <2>3. CASE \E j \in Slots : CloseConnection(j)
    <3>1. PICK j \in Slots : CloseConnection(j)
      BY <2>3
    <3>2. /\ peer' = [peer EXCEPT ![slot[j]] = None]
          /\ slot' = [slot EXCEPT ![j] = 0]
      BY <3>1 DEF CloseConnection
    <3> QED  BY <3>2 DEF OneOwner, TypeInv, TypeOK, NetOK
  <2> QED  BY <2>1, <2>2, <2>3, TableStep
<1> QED  BY <1>1, <1>2, TypeInvariant, PTL DEF Spec

-----------------------------------------------------------------------------
(* The timers.                                                             *)

\* The state of the exposure and the procedure the timer will call go
\* together; without an SDK failure the exposure is never left half started.
Clock ==
  pc # "exited" =>
    /\ exp.state = "ExposureRequested" => Pending /\ handler = "FilterTimeout"
    /\ exp.state \in {"Exposing", "ReadyForExposureToEnd"} =>
         Pending /\ handler = "ExposureTimeoutWithLock"
    /\ exp.state # "ReadyForExposure"

LEMMA ReadoutClock ==
  ASSUME NEW e \in ExposureInfo, NEW light, NEW n,
         NEW x \in BOOLEAN, NEW w,
         ReadoutExposure(e, light, n, x, w)
  PROVE  Clock'
<1>1. exp'.state = "Idle"
  BY DEF ReadoutExposure, ExposureInfo
<1> QED  BY <1>1 DEF Clock

LEMMA ExposureTimeoutClock ==
  ASSUME "camera" \notin Faults, NEW e \in ExposureInfo, NEW light, NEW n,
         NEW x \in BOOLEAN, NEW w,
         ExposureTimeout(e, light, n, x, w)
  PROVE  Clock'
<1>1. CASE ReadoutExposure(e, light, n, x, w)
  BY <1>1, ReadoutClock
<1>2. CASE exp' = [e EXCEPT !.state = "ReadyForExposureToEnd"]
           /\ SetTimeout("ExposureTimeoutWithLock")
  <2>1. exp'.state = "ReadyForExposureToEnd"
    BY <1>2 DEF ExposureInfo
  <2> QED  BY <1>2, <2>1 DEF SetTimeout, Pending, Clock
<1> QED  BY <1>1, <1>2 DEF ExposureTimeout

LEMMA StartExposureClock ==
  ASSUME "sdk" \notin Faults, "camera" \notin Faults,
         NEW e \in ExposureInfo, NEW x \in BOOLEAN, NEW w, StartExposure(e, x, w)
  PROVE  Clock'
<1> DEFINE open == [e EXCEPT !.state = "Exposing"]
<1>1. open \in ExposureInfo /\ open.state = "Exposing"
  BY DEF ExposureInfo, States
<1>2. CASE exp' = open /\ SetTimeout("ExposureTimeoutWithLock")
  <2>1. exp'.state = "Exposing"
    BY <1>1, <1>2
  <2> QED  BY <1>2, <2>1 DEF SetTimeout, Pending, Clock
<1>3. CASE \E light : ExposureTimeout(open, light, EXP_MAX_TIMEOUTS, x, w)
  <2>1. PICK light : ExposureTimeout(open, light, EXP_MAX_TIMEOUTS, x, w)
    BY <1>3
  <2> QED  BY <1>1, <2>1, ExposureTimeoutClock
<1> QED  BY <1>2, <1>3 DEF StartExposure

LEMMA ProcessAllClock ==
  ASSUME "sdk" \notin Faults, "camera" \notin Faults,
         NEW e \in ExposureInfo, NEW x \in BOOLEAN, NEW w,
         e.state \in {"Idle", "ExposureRequested", "ReadyForExposure"},
         ProcessAll(e, x, w)
  PROVE  Clock'
<1>1. CASE e.state = "ExposureRequested" /\ RotateWheel(e, w)
  <2>1. exp'.state = "ExposureRequested"
    BY <1>1 DEF RotateWheel, ExposureInfo
  <2> QED  BY <1>1, <2>1 DEF RotateWheel, SetTimeout, Pending, Clock
<1>2. CASE StartExposure(e, x, w)
  BY <1>2, StartExposureClock
<1>3. CASE e.state = "Idle" /\ exp' = e
  BY <1>3 DEF Clock
<1> QED  BY <1>1, <1>2, <1>3 DEF ProcessAll

LEMMA DispatchClock ==
  ASSUME "sdk" \notin Faults, "camera" \notin Faults, TypeOK, Clock, DispatchTimeout
  PROVE  Clock'
<1>1. pc # "exited" /\ exp \in ExposureInfo
  BY DEF DispatchTimeout, TypeOK, ServerOK
<1>2. CASE ~expired
  BY <1>1, <1>2 DEF DispatchTimeout, timerVars, Clock, Pending
<1>3. CASE expired /\ handler = "ExposureTimeoutWithLock"
  BY <1>1, <1>3, ExposureTimeoutClock DEF DispatchTimeout
<1>4. CASE expired /\ handler = "FilterTimeout"
  <2>1. exp.state \in {"Idle", "ExposureRequested"} /\ FilterTimeout
    BY <1>1, <1>4 DEF DispatchTimeout, Clock, ExposureInfo, States
  <2>2. CASE ProcessAll([exp EXCEPT !.tgt = 1], FALSE, Now)
    <3> DEFINE e == [exp EXCEPT !.tgt = 1]
    <3>1. e \in ExposureInfo /\ e.state \in {"Idle", "ExposureRequested"}
      BY <1>1, <2>1 DEF ExposureInfo
    <3>2. PICK x \in BOOLEAN, w \in {Now} : ProcessAll(e, x, w)
      BY <2>2
    <3> HIDE DEF e
    <3> QED  BY <3>1, <3>2, ProcessAllClock
  <2>3. CASE ProcessAll([exp EXCEPT !.tgt = 0, !.state = "ReadyForExposure"], FALSE, Now)
    <3> DEFINE e == [exp EXCEPT !.tgt = 0, !.state = "ReadyForExposure"]
    <3>1. e \in ExposureInfo /\ e.state = "ReadyForExposure"
      BY <1>1 DEF ExposureInfo, States
    <3>2. PICK x \in BOOLEAN, w \in {Now} : ProcessAll(e, x, w)
      BY <2>3
    <3> HIDE DEF e
    <3> QED  BY <3>1, <3>2, ProcessAllClock
  <2>4. CASE SetTimeout("FilterTimeout") /\ UNCHANGED exp
    BY <2>1, <2>4 DEF SetTimeout, Pending, Clock
  <2>5. CASE pc' = "exited"
    BY <2>5 DEF Clock
  <2> QED  BY <2>1, <2>2, <2>3, <2>4, <2>5 DEF FilterTimeout
<1> QED  BY <1>2, <1>3, <1>4 DEF DispatchTimeout

LEMMA ServeClock ==
  ASSUME "sdk" \notin Faults, "camera" \notin Faults, TypeOK, Clock,
         NEW j \in Slots, ServeMessage(j)
  PROVE  Clock'
<1> DEFINE m == Head(out[PeerOf(slot[j])])
<1>1. pc # "exited" /\ exp \in ExposureInfo /\ expired \in BOOLEAN /\ slot[j] \in FDs \cup {0}
  BY DEF ServeMessage, Turn, TypeOK, ServerOK, NetOK
<1>2. CASE m \in Expose /\ HandleExpose(slot[j], m)
  <2> DEFINE e == [exp EXCEPT !.state = "ExposureRequested", !.desired = m.filter,
                              !.sock = slot[j], !.id = m.id, !.short = m.short]
  <2>1. e \in ExposureInfo /\ e.state = "ExposureRequested"
    BY <1>1, <1>2 DEF ExposureInfo, States, Expose
  <2>2. PICK w \in CfwReady : ProcessAll(e, expired, w)
    BY <1>2 DEF HandleExpose
  <2> HIDE DEF e
  <2> QED  BY <1>1, <2>1, <2>2, ProcessAllClock
<1>3. CASE HandleStatus(slot[j])
  BY <1>1, <1>3 DEF HandleStatus, NoTimeout, Clock, Pending
<1> QED  BY <1>2, <1>3 DEF ServeMessage

LEMMA OtherClock ==
  ASSUME Clock, LoopTop \/ SelectBlocks \/ SelectReturns \/ AcceptConnection \/ LoopEnd
                \/ Alarm \/ WheelDone \/ (\E j \in Slots : CloseConnection(j))
                \/ (\E c \in Clients : ClientStep(c)) \/ UNCHANGED vars
  PROVE  Clock'
<1> DEFINE Keeps == /\ UNCHANGED <<exp, handler>> /\ (Pending => Pending')
                    /\ pc = "exited" => pc' = "exited"
<1>1. (LoopTop \/ SelectBlocks \/ SelectReturns \/ AcceptConnection \/ LoopEnd) => Keeps
  BY DEF LoopTop, SelectBlocks, SelectReturns, AcceptConnection, LoopEnd, timerVars,
              Pending, Turn
<1>2. Alarm \/ WheelDone => Keeps
  BY DEF Alarm, WheelDone, timerVars, Pending
<1>3. (\E j \in Slots : CloseConnection(j)) => Keeps
  BY DEF CloseConnection, timerVars, Pending
<1>4. (\E c \in Clients : ClientStep(c)) => UNCHANGED ServerVars
  BY DEF ClientStep, Connect, SendStatus, Receive, Leave, SendExpose, ServerVars
<1>5. UNCHANGED ServerVars \/ UNCHANGED vars => Keeps
  BY DEF ServerVars, timerVars, vars, Pending
<1>6. Keeps
  BY <1>1, <1>2, <1>3, <1>4, <1>5
<1> QED  BY <1>6 DEF Clock

LEMMA NextClock ==
  ASSUME "sdk" \notin Faults, "camera" \notin Faults
  PROVE  TypeOK /\ Clock /\ [Next]_vars => Clock'
<1> SUFFICES ASSUME TypeOK, Clock, [Next]_vars PROVE Clock'
  OBVIOUS
<1>1. CASE DispatchTimeout
  BY <1>1, DispatchClock
<1>2. CASE \E j \in Slots : ServeMessage(j)
  BY <1>2, ServeClock
<1> QED  BY <1>1, <1>2, OtherClock DEF Next, Server

LEMMA ClockInvariant ==
  ASSUME "sdk" \notin Faults, "camera" \notin Faults
  PROVE  Spec => []Clock
<1>1. Init => Clock
  BY DEF Init, Clock
<1>2. TypeOK /\ Clock /\ [Next]_vars => Clock'
  BY NextClock
<1> QED  BY <1>1, <1>2, TypeCorrect, PTL DEF Spec

\* With a working camera an exposure in progress always has its timer, however
\* EXPOSE messages, alarms and the wheel interleave.
THEOREM ClockCorrect ==
  ASSUME "sdk" \notin Faults, "camera" \notin Faults
  PROVE  Spec => []ClockNeverLost
<1>1. Clock => ClockNeverLost
  BY DEF Clock, ClockNeverLost
<1> QED  BY <1>1, ClockInvariant, PTL

\* With a working camera the "Logic error" branch of ProcessAll() is dead code.
THEOREM NoLogicErrorCorrect ==
  ASSUME "sdk" \notin Faults, "camera" \notin Faults
  PROVE  Spec => []NoLogicError
<1>1. TypeOK /\ Clock => NoLogicError
  BY DEF TypeOK, ServerOK, ExposureInfo, States, Clock, NoLogicError
<1> QED  BY <1>1, ClockInvariant, TypeCorrect, PTL

-----------------------------------------------------------------------------
(* What clients that coordinate their exposures get, and how the wheel     *)
(* comes to the slot they ask for.                                         *)

\* The clients agree on one exposure at a time and stay for their answer, and
\* the wheel answers its first command.
Orderly == Coordinated /\ "hangup" \notin Faults /\ "init" \notin Faults

-----------------------------------------------------------------------------
(* The invariant of coordinated clients.                                   *)

\* The image that answers m.
Picture(m) == [kind |-> "image", id |-> m.id, light |-> m.filter,
               label |-> m.filter, sharp |-> TRUE]

Silent(c) == out[c] = <<>> /\ inq[c] = <<>>

StatusAsked(c) ==
  /\ cst[c] = "status"
  /\ \/ out[c] = <<[id |-> 0]>> /\ inq[c] = <<>>
     \/ out[c] = <<>> /\ inq[c] = <<[kind |-> "status"]>>

\* A silent client that waits for an image: the server has its message, or
\* has dropped it.
ExposeAsked(c) ==
  /\ cst[c] = "expose" /\ asked[c] \in Expose
  /\ \/ out[c] = <<asked[c]>> /\ inq[c] = <<>>
     \/ out[c] = <<>> /\ inq[c] = <<Picture(asked[c])>>
     \/ Silent(c)

\* One question or one answer is on its way, and it belongs to what the client
\* waits for.
Conversation ==
  \A c \in Clients :
    \/ cst[c] \in {"new", "idle", "gone"} /\ Silent(c)
    \/ StatusAsked(c)
    \/ ExposeAsked(c)

OneAsker ==
  \A c, d \in Clients : cst[c] = "expose" /\ cst[d] = "expose" => c = d

\* A client has one connection.
OneLine ==
  /\ \A f, g \in FDs : peer[f] # None /\ peer[f] = peer[g] => f = g
  /\ \A i, k \in DOMAIN backlog : backlog[i] = backlog[k] => i = k
  /\ \A i \in DOMAIN backlog, f \in FDs : backlog[i] # peer[f]
  /\ \A c \in Clients : cst[c] = "new" =>
       /\ \A f \in FDs : peer[f] # c
       /\ \A i \in DOMAIN backlog : backlog[i] # c

\* What select() reported is still there when its turn comes.
StillReadable ==
  \A j \in ready \ {Listen} :
    /\ slot[j] \in FDs /\ peer[slot[j]] \in Clients
    /\ out[peer[slot[j]]] # <<>> \/ cst[peer[slot[j]]] = "gone"

\* The exposure in e is the one client c waits for.
Held(e, c) ==
  /\ e.sock \in FDs /\ peer[e.sock] = c
  /\ c \in Clients /\ cst[c] = "expose" /\ asked[c] \in Expose /\ inq[c] = <<>>
  /\ e.id = asked[c].id /\ e.desired = asked[c].filter

InHand ==
  exp.state # "Idle" =>
    Held(exp, peer[exp.sock]) /\ out[peer[exp.sock]] = <<>>

TimerFits ==
  /\ ~(armed /\ expired)
  /\ Pending => exp.state \in {"ExposureRequested", "Exposing", "ReadyForExposureToEnd"}
  /\ Pending /\ exp.state = "ExposureRequested" => handler = "FilterTimeout"
  /\ Pending /\ exp.state # "ExposureRequested" =>
       /\ handler = "ExposureTimeoutWithLock"
       /\ sensor = [id |-> exp.id, light |-> exp.desired, sharp |-> TRUE]

AtRest ==
  /\ turning = <<>> /\ rbuf = <<>> /\ exp.tgt = 0
  /\ initDone => pos = at
  /\ exp.state # "Idle" => at = exp.desired /\ pos = at

\* The first of the two moves, to the slot next to the desired one.
ToStaging ==
  /\ exp.tgt = 0
  /\ \/ turning = <<>> /\ at = exp.first /\ rbuf \in {<<>>, <<exp.first>>}
     \/ turning = <<exp.first>> /\ rbuf = <<>> /\ pos = at

\* The second move.  A slow wheel may still owe the end of the first one,
\* which it made from the staging slot itself.
ToDesired ==
  /\ exp.tgt = 1
  /\ \/ /\ \/ turning = <<exp.desired>> /\ rbuf \in {<<>>, <<exp.first>>}
           \/ turning = <<exp.first, exp.desired>> /\ rbuf = <<>>
        /\ at = exp.first /\ pos = exp.first
     \/ turning = <<>> /\ at = exp.desired

WheelFits ==
  IF exp.state = "ExposureRequested"
  THEN /\ initDone /\ exp.first = StagingPos(exp.desired)
       /\ ToStaging \/ ToDesired
  ELSE AtRest

ImageInv ==
  /\ Conversation /\ OneAsker /\ OneLine /\ StillReadable
  /\ InHand /\ TimerFits /\ WheelFits

LEMMA InitImage == Init => ImageInv
<1> SUFFICES ASSUME Init PROVE ImageInv
  OBVIOUS
<1>1. Conversation /\ OneAsker
  BY DEF Init, Conversation, Silent, OneAsker
<1>2. OneLine
  BY ConstantsOK DEF Init, OneLine
<1>3. StillReadable /\ InHand
  BY DEF Init, StillReadable, InHand
<1>4. TimerFits /\ WheelFits
  BY DEF Init, TimerFits, Pending, WheelFits, AtRest
<1> QED  BY <1>1, <1>2, <1>3, <1>4 DEF ImageInv

-----------------------------------------------------------------------------
(* The handlers, with the exposure a client waits for.                     *)

\* The timer has fired or was not set: a handler finds it at rest.
Calm == ~armed

\* What a handler that works on e leaves to client c.
Progress(e, c) ==
  /\ exp' \in ExposureInfo
  /\ exp'.sock = e.sock /\ exp'.id = e.id /\ exp'.desired = e.desired
  /\ \/ inq' = inq
     \/ exp'.state = "Idle" /\ inq' = [inq EXCEPT ![c] = <<Picture(asked[c])>>]

\* The wheel rests in the slot of e, and is known to.
InSlot(e, w) ==
  e.tgt = 0 /\ w.pos = e.desired /\ w.at = e.desired /\ w.turning = <<>>

LEMMA NoTimerFits ==
  ASSUME expired' = FALSE, armed' = FALSE PROVE TimerFits'
BY DEF TimerFits, Pending

LEMMA ExposureTimerFits ==
  ASSUME expired' = FALSE, handler' = "ExposureTimeoutWithLock",
         exp'.state \in {"Exposing", "ReadyForExposureToEnd"},
         sensor' = [id |-> exp'.id, light |-> exp'.desired, sharp |-> TRUE]
  PROVE  TimerFits'
BY DEF TimerFits, Pending

LEMMA ReadoutRight ==
  ASSUME TypeOK, Calm, NEW c, NEW e \in ExposureInfo, Held(e, c), NEW w, InSlot(e, w),
         NEW n, ReadoutExposure(e, [id |-> e.id, light |-> e.desired, sharp |-> TRUE],
                                n, FALSE, w)
  PROVE  Progress(e, c) /\ exp' = [e EXCEPT !.state = "Idle"] /\ TimerFits'
<1> DEFINE m == [kind |-> "image", id |-> e.id, light |-> e.desired,
                 label |-> w.pos, sharp |-> TRUE /\ w.turning = <<>>]
<1>1. m = Picture(asked[c])
  BY DEF Held, InSlot, Picture
<1>2. exp' = [e EXCEPT !.state = "Idle"] /\ expired' = FALSE /\ armed' = FALSE
  BY DEF ReadoutExposure, NoTimeout, Calm
<1>3. inq' = inq \/ inq' = [inq EXCEPT ![c] = <<Picture(asked[c])>>]
  <2>1. CASE Send(e.sock, m)
    <3>1. PeerOf(e.sock) = c /\ c \in Clients /\ cst[c] # "gone" /\ inq[c] = <<>>
      BY DEF Held, PeerOf
    <3>2. inq' = [inq EXCEPT ![c] = Append(@, m)] \/ inq' = inq
      BY <2>1, <3>1 DEF Send
    <3>3. Append(inq[c], m) = <<m>>
      BY <3>1
    <3> QED  BY <1>1, <3>2, <3>3
  <2> QED  BY <2>1 DEF ReadoutExposure
<1>4. exp' \in ExposureInfo /\ exp'.state = "Idle"
  BY <1>2 DEF ExposureInfo, States
<1>5. exp'.sock = e.sock /\ exp'.id = e.id /\ exp'.desired = e.desired
  BY <1>2 DEF ExposureInfo
<1> QED  BY <1>2, <1>3, <1>4, <1>5 DEF Progress, TimerFits, Pending

LEMMA ExposureTimeoutRight ==
  ASSUME TypeOK, Calm, NEW c, NEW e \in ExposureInfo, Held(e, c), NEW w, InSlot(e, w),
         NEW n, ExposureTimeout(e, [id |-> e.id, light |-> e.desired, sharp |-> TRUE],
                                n, FALSE, w)
  PROVE  /\ Progress(e, c) /\ TimerFits' /\ exp'.tgt = 0
         /\ exp'.state # "ExposureRequested"
<1> DEFINE light == [id |-> e.id, light |-> e.desired, sharp |-> TRUE]
<1>1. CASE ReadoutExposure(e, light, n, FALSE, w)
  <2>1. Progress(e, c) /\ exp' = [e EXCEPT !.state = "Idle"] /\ TimerFits'
    BY <1>1, ReadoutRight
  <2> QED  BY <2>1 DEF InSlot, ExposureInfo
<1>2. CASE /\ exp' = [e EXCEPT !.state = "ReadyForExposureToEnd"]
           /\ sensor' = light /\ inq' = inq
           /\ SetTimeout("ExposureTimeoutWithLock") \/ NoTimeout(FALSE)
  <2>1. exp' \in ExposureInfo /\ exp'.state = "ReadyForExposureToEnd" /\ exp'.tgt = 0
    BY <1>2 DEF ExposureInfo, States, InSlot
  <2>2. exp'.sock = e.sock /\ exp'.id = e.id /\ exp'.desired = e.desired
    BY <1>2 DEF ExposureInfo
  <2>3. Progress(e, c)
    BY <1>2, <2>1, <2>2 DEF Progress
  <2>4. sensor' = [id |-> exp'.id, light |-> exp'.desired, sharp |-> TRUE]
    BY <1>2, <2>2
  <2>5. CASE SetTimeout("ExposureTimeoutWithLock")
    <3>1. expired' = FALSE /\ handler' = "ExposureTimeoutWithLock"
      BY <2>5 DEF SetTimeout, Calm
    <3> QED  BY <2>1, <2>3, <2>4, <3>1, ExposureTimerFits
  <2>6. CASE NoTimeout(FALSE)
    <3>1. expired' = FALSE /\ armed' = FALSE
      BY <2>6 DEF NoTimeout, Calm
    <3> QED  BY <2>1, <2>3, <3>1, NoTimerFits
  <2> QED  BY <1>2, <2>1, <2>3, <2>5, <2>6 DEF TimerFits
<1> QED  BY <1>1, <1>2 DEF ExposureTimeout

LEMMA StartExposureRight ==
  ASSUME TypeOK, Calm, NEW c, NEW e \in ExposureInfo, Held(e, c), NEW w, InSlot(e, w),
         StartExposure(e, FALSE, w)
  PROVE  /\ Progress(e, c) /\ TimerFits' /\ exp'.tgt = 0
         /\ exp'.state # "ExposureRequested"
<1> DEFINE open == [e EXCEPT !.state = "Exposing"]
           light == [id |-> e.id, light |-> w.at, sharp |-> w.turning = <<>>]
           right == [id |-> e.id, light |-> e.desired, sharp |-> TRUE]
<1>1. light = right
  BY DEF InSlot
<1>2. open \in ExposureInfo /\ open.state = "Exposing" /\ open.sock = e.sock
      /\ open.id = e.id /\ open.desired = e.desired /\ open.tgt = 0
  BY DEF ExposureInfo, States, InSlot
<1>3. Held(open, c) /\ InSlot(open, w)
  BY <1>2 DEF Held, InSlot
<1>4. CASE ExposureTimeout(open, light, EXP_MAX_TIMEOUTS, FALSE, w)
  <2>1. ExposureTimeout(open, [id |-> open.id, light |-> open.desired, sharp |-> TRUE],
                        EXP_MAX_TIMEOUTS, FALSE, w)
    BY <1>1, <1>2, <1>4
  <2> HIDE DEF open
  <2>2. /\ Progress(open, c) /\ TimerFits' /\ exp'.tgt = 0
        /\ exp'.state # "ExposureRequested"
    BY <1>2, <1>3, <2>1, ExposureTimeoutRight
  <2> QED  BY <1>2, <2>2 DEF Progress
<1>5. CASE /\ exp' = open /\ sensor' = light /\ inq' = inq
           /\ SetTimeout("ExposureTimeoutWithLock")
  <2>1. expired' = FALSE /\ handler' = "ExposureTimeoutWithLock"
    BY <1>5 DEF SetTimeout, Calm
  <2> HIDE DEF open
  <2> QED  BY <1>1, <1>2, <1>5, <2>1 DEF Progress, TimerFits, Pending
<1>6. CASE /\ exp' \in {open, [e EXCEPT !.state = "ReadyForExposure"]}
           /\ NoTimeout(FALSE) /\ inq' = inq
  <2>1. expired' = FALSE /\ armed' = FALSE
    BY <1>6 DEF NoTimeout, Calm
  <2>2. /\ exp' \in ExposureInfo /\ exp'.state # "ExposureRequested" /\ exp'.tgt = 0
        /\ exp'.sock = e.sock /\ exp'.id = e.id /\ exp'.desired = e.desired
    BY <1>6 DEF ExposureInfo, States, InSlot
  <2> QED  BY <1>6, <2>1, <2>2 DEF Progress, TimerFits, Pending
<1> QED  BY <1>4, <1>5, <1>6 DEF StartExposure

LEMMA StagingApart ==
  ASSUME NEW p \in Positions PROVE StagingPos(p) # p
BY DEF StagingPos, Positions

LEMMA AppendPair ==
  ASSUME NEW S, NEW a \in S, NEW b \in S PROVE Append(<<a>>, b) = <<a, b>>
<1> DEFINE s == Append(<<a>>, b)
<1>1. <<a>> \in Seq(S) /\ Len(<<a>>) = 1 /\ <<a>>[1] = a
  OBVIOUS
<1>2. s \in Seq(S) /\ Len(s) = 2 /\ s[1] = a /\ s[2] = b
  BY <1>1
<1>3. <<a, b>> \in Seq(S) /\ Len(<<a,b>>) = 2 /\ <<a, b>>[1] = a /\ <<a, b>>[2] = b
  OBVIOUS
<1> HIDE DEF s
<1>4. \A t, u \in Seq(S) : Len(t) = 2 /\ Len(u) = 2 /\ t[1] = u[1] /\ t[2] = u[2] => t = u
  OBVIOUS
<1>5. s = <<a, b>>
  BY <1>2, <1>3, <1>4
<1> QED  BY <1>5 DEF s

\* The two moves of an exposure, from the slot the wheel rests in.
LEMMA RotateWheelRight ==
  ASSUME TypeOK, Calm, NEW c, NEW e \in ExposureInfo, Held(e, c),
         e.state = "ExposureRequested",
         NEW w \in WheelView, RotateWheel(e, w), initDone', pos' = w.pos,
         \/ e.tgt = 0 /\ w.turning = <<>> /\ w.pos = w.at
         \/ /\ e.tgt = 1 /\ e.first = StagingPos(e.desired)
            /\ w.pos = e.first /\ w.at = e.first /\ w.turning \in {<<>>, <<e.first>>}
  PROVE  Progress(e, c) /\ TimerFits' /\ WheelFits'
<1> DEFINE first == StagingPos(e.desired)
<1>1. e.desired \in Positions /\ first \in Positions /\ first # e.desired
  BY StagingPosType, StagingApart DEF ExposureInfo
<1>2. TimerFits' /\ exp'.state = "ExposureRequested"
  <2>1. exp'.state = "ExposureRequested"
    BY DEF RotateWheel, ExposureInfo
  <2>2. expired' = FALSE /\ handler' = "FilterTimeout"
    BY DEF RotateWheel, SetTimeout, Calm
  <2> QED  BY <2>1, <2>2 DEF TimerFits
<1>3. Progress(e, c) /\ exp'.tgt = e.tgt
  <2>1. exp' \in ExposureInfo /\ exp'.tgt = e.tgt
    BY <1>1 DEF RotateWheel, ExposureInfo
  <2>2. exp'.sock = e.sock /\ exp'.id = e.id /\ exp'.desired = e.desired
    BY DEF RotateWheel, ExposureInfo
  <2> QED  BY <2>1, <2>2 DEF RotateWheel, Progress
<1>4. CASE e.tgt = 0
  <2>1. exp'.first = first /\ USBMoveFilterWheel(w, first)
    BY <1>4 DEF RotateWheel, ExposureInfo
  <2>2. w.turning = <<>> /\ w.pos = w.at /\ at' = w.at
    BY <1>4, <2>1 DEF USBMoveFilterWheel
  <2>3. \/ at' = first /\ turning' = <<>> /\ rbuf' = <<first>>
        \/ turning' = <<first>> /\ rbuf' = <<>>
    BY <2>1, <2>2 DEF USBMoveFilterWheel
  <2>4. ToStaging'
    BY <1>3, <1>4, <2>1, <2>2, <2>3 DEF ToStaging
  <2> QED  BY <1>2, <1>3, <2>1, <2>4 DEF WheelFits, Progress
<1>5. CASE e.tgt = 1
  <2>1. exp' = e /\ USBMoveFilterWheel(w, e.desired) /\ e.first = first
    BY <1>5 DEF RotateWheel
  <2>2. /\ at' = e.first /\ pos' = e.first /\ rbuf' = <<>>
        /\ turning' = Append(w.turning, e.desired)
    BY <1>1, <1>5, <2>1 DEF USBMoveFilterWheel
  <2>3. turning' \in {<<e.desired>>, <<e.first, e.desired>>}
    <3>1. CASE w.turning = <<>>
      BY <2>2, <3>1
    <3>2. CASE w.turning = <<e.first>>
      <4>1. e.first \in Positions
        BY <1>1, <2>1
      <4>2. Append(<<e.first>>, e.desired) = <<e.first, e.desired>>
        BY <1>1, <4>1, AppendPair, Zenon
      <4> QED  BY <2>2, <3>2, <4>2
    <3> QED  BY <1>5, <3>1, <3>2
  <2>4. ToDesired'
    BY <1>5, <2>1, <2>2, <2>3 DEF ToDesired
  <2>5. exp'.first = StagingPos(exp'.desired)
    BY <2>1
  <2> QED  BY <1>2, <1>3, <2>4, <2>5 DEF WheelFits
<1> QED  BY <1>4, <1>5

\* ProcessAll() with an exposure to set up or, the wheel in place, to start.
LEMMA ProcessAllRight ==
  ASSUME TypeOK, Calm, NEW c, NEW e \in ExposureInfo, Held(e, c),
         NEW w \in WheelView, ProcessAll(e, FALSE, w), initDone', pos' = w.pos,
         \/ /\ e.state = "ExposureRequested" /\ e.tgt = 0
            /\ w.turning = <<>> /\ w.pos = w.at
         \/ /\ e.state = "ExposureRequested" /\ e.tgt = 1
            /\ e.first = StagingPos(e.desired)
            /\ w.pos = e.first /\ w.at = e.first /\ w.turning \in {<<>>, <<e.first>>}
         \/ e.state = "ReadyForExposure" /\ InSlot(e, w)
  PROVE  Progress(e, c) /\ TimerFits' /\ WheelFits'
<1>1. CASE e.state = "ExposureRequested" /\ RotateWheel(e, w)
  BY <1>1, RotateWheelRight
<1>2. CASE /\ e.state = "ExposureRequested" => e.desired = w.pos
           /\ StartExposure(e, FALSE, w) /\ WheelLeft(w)
  <2>1. InSlot(e, w)
    <3>1. e.desired \in Positions /\ StagingPos(e.desired) # e.desired
      BY StagingApart DEF ExposureInfo
    <3> QED  BY <1>2, <3>1 DEF InSlot
  <2>2. Progress(e, c) /\ TimerFits' /\ exp'.tgt = 0 /\ exp'.state # "ExposureRequested"
    BY <1>2, <2>1, StartExposureRight
  <2>3. AtRest'
    BY <1>2, <2>1, <2>2 DEF WheelLeft, InSlot, AtRest, Progress
  <2> QED  BY <2>2, <2>3 DEF WheelFits
<1> QED  BY <1>1, <1>2 DEF ProcessAll

\* With the exposure in the server's hands, a handler that works on it keeps
\* the rest of the invariant.
LEMMA ProgressKeeps ==
  ASSUME TypeOK, ImageInv, NEW c \in Clients, NEW e \in ExposureInfo, Held(e, c),
         Progress(e, c), TimerFits', WheelFits',
         UNCHANGED <<slot, peer, backlog, cst, asked>>,
         out[c] \in {<<>>, <<asked[c]>>}, out' = [out EXCEPT ![c] = <<>>],
         \A j \in ready' : j \in ready,
         \A j \in ready' \ {Listen} : peer[slot[j]] # c
  PROVE  ImageInv'
<1> USE DEF ImageInv
<1>1. c \in Clients /\ out'[c] = <<>> /\ cst[c] = "expose" /\ asked[c] \in Expose
  BY DEF Held, TypeOK, ClientOK
<1>2. Conversation'
  <2> SUFFICES ASSUME NEW d \in Clients
               PROVE (\/ cst[d] \in {"new", "idle", "gone"} /\ Silent(d)
                      \/ StatusAsked(d) \/ ExposeAsked(d))'
    BY DEF Conversation
  <2>1. CASE d = c
    <3>1. inq'[c] \in {<<>>, <<Picture(asked[c])>>}
      BY <1>1 DEF Progress, Held, TypeOK, ClientOK
    <3>2. ExposeAsked(c)'
      BY <1>1, <3>1 DEF ExposeAsked, Silent, Picture
    <3> QED  BY <2>1, <3>2
  <2>2. CASE d # c
    <3>1. out'[d] = out[d] /\ inq'[d] = inq[d]
      BY <1>1, <2>2 DEF Progress, TypeOK, ClientOK
    <3> QED  BY <3>1 DEF Conversation, Silent, StatusAsked, ExposeAsked, Picture
  <2> QED  BY <2>1, <2>2
<1>3. OneAsker' /\ OneLine'
  BY DEF OneAsker, OneLine
<1>4. StillReadable'
  <2> SUFFICES ASSUME NEW j \in ready' \ {Listen}
               PROVE /\ slot[j] \in FDs /\ peer[slot[j]] \in Clients
                     /\ out'[peer[slot[j]]] # <<>> \/ cst[peer[slot[j]]] = "gone"
    BY DEF StillReadable
  <2>1. /\ slot[j] \in FDs /\ peer[slot[j]] \in Clients
        /\ out[peer[slot[j]]] # <<>> \/ cst[peer[slot[j]]] = "gone"
    BY DEF StillReadable
  <2> QED  BY <2>1 DEF TypeOK, ClientOK
<1>5. InHand'
  <2> SUFFICES ASSUME exp'.state # "Idle"
               PROVE  (Held(exp, peer[exp.sock]) /\ out[peer[exp.sock]] = <<>>)'
    BY DEF InHand
  <2>1. inq' = inq /\ exp'.sock = e.sock /\ exp'.id = e.id /\ exp'.desired = e.desired
    BY DEF Progress
  <2>2. peer[e.sock] = c
    BY DEF Held
  <2> QED  BY <1>1, <2>1, <2>2 DEF Held
<1> QED  BY <1>2, <1>3, <1>4, <1>5

LEMMA DispatchImage ==
  ASSUME Orderly, TypeInv, ImageInv, DispatchTimeout PROVE ImageInv'
<1> USE DEF ImageInv
<1> DEFINE c == peer[exp.sock]
<1>1. /\ UNCHANGED <<slot, peer, backlog, cst, asked, out, ready>>
      /\ exp \in ExposureInfo
  BY DEF DispatchTimeout, netVars, clientVars, TypeInv, TypeOK, ServerOK
<1>2. CASE ~expired
  <2>1. UNCHANGED <<expired, armed, handler, exp, pos, initDone, rbuf, turning, at,
                    sensor, inq>>
    BY <1>2 DEF DispatchTimeout, timerVars, wheelVars
  <2>2. Conversation' /\ OneAsker' /\ OneLine' /\ StillReadable'
    BY <1>1, <2>1 DEF Conversation, Silent, StatusAsked, ExposeAsked, Picture, OneAsker,
                      OneLine, StillReadable
  <2>3. InHand' /\ TimerFits'
    BY <1>1, <2>1 DEF InHand, Held, TimerFits, Pending
  <2>4. WheelFits'
    BY <2>1 DEF WheelFits, AtRest, ToStaging, ToDesired
  <2> QED  BY <2>2, <2>3, <2>4
<1>3. CASE expired
  <2>1. /\ Calm /\ exp.state # "Idle" /\ Held(exp, c) /\ c \in Clients
        /\ out[c] = <<>>
    BY <1>3 DEF TimerFits, Pending, Calm, InHand, Held
  <2>2. \A j \in ready \ {Listen} : peer[slot[j]] # c
    BY <2>1 DEF StillReadable, Held
  <2>3. out' = [out EXCEPT ![c] = <<>>]
    BY <1>1, <2>1 DEF TypeInv, TypeOK, ClientOK
  <2>4. ASSUME NEW e \in ExposureInfo, Held(e, c), Progress(e, c), TimerFits', WheelFits'
        PROVE  ImageInv'
    BY <1>1, <2>1, <2>2, <2>3, <2>4, ProgressKeeps DEF TypeInv
  <2>5. CASE handler = "ExposureTimeoutWithLock"
    <3> DEFINE w == [Now EXCEPT !.pos = pos]
    <3>1. /\ exp.state # "ExposureRequested" /\ initDone
          /\ sensor = [id |-> exp.id, light |-> exp.desired, sharp |-> TRUE]
      BY <1>3, <2>5 DEF TimerFits, Pending, TypeInv, Initialised
    <3>2. AtRest /\ at = exp.desired /\ pos = exp.desired
      BY <2>1, <3>1 DEF WheelFits, AtRest
    <3>3. w.pos = pos /\ w.at = at /\ w.turning = turning
      BY DEF Now
    <3>4. InSlot(exp, w)
      BY <3>2, <3>3 DEF InSlot, AtRest
    <3>5. ExposureTimeout(exp, sensor, ecount, FALSE, w)
          /\ UNCHANGED <<pos, initDone, rbuf, turning, at>>
      BY <1>3, <2>5 DEF DispatchTimeout, wheelVars
    <3> HIDE DEF w
    <3>6. /\ Progress(exp, c) /\ TimerFits' /\ exp'.tgt = 0
          /\ exp'.state # "ExposureRequested"
      BY <1>1, <2>1, <3>1, <3>4, <3>5, ExposureTimeoutRight DEF TypeInv
    <3>7. WheelFits'
      BY <3>2, <3>5, <3>6 DEF WheelFits, AtRest, Progress
    <3> QED  BY <1>1, <2>1, <2>4, <3>6, <3>7
  <2>6. CASE handler = "FilterTimeout"
    <3>1. /\ exp.state = "ExposureRequested" /\ FilterTimeout
          /\ initDone /\ exp.first = StagingPos(exp.desired)
          /\ ToStaging \/ ToDesired
      BY <1>3, <2>6 DEF TimerFits, Pending, DispatchTimeout, WheelFits
    <3>2. /\ Now \in WheelView /\ Now.pos = Reported /\ Now.turning = turning
          /\ Now.at = at /\ pos' = Reported
      <4>1. Reported \in Positions
        BY <3>1, ReportedType DEF TypeInv, Initialised
      <4> QED  BY <3>1, <4>1 DEF Now, WheelView, TypeInv, TypeOK, WheelOK, FilterTimeout
    <3>3. initDone'
      BY <3>1 DEF FilterTimeout
    <3>4. /\ exp.desired \in Positions /\ exp.first \in Positions
          /\ exp.desired # exp.first
      BY <3>1, <1>1, StagingPosType, StagingApart DEF ExposureInfo
    <3>5. CASE InStaging /\ ProcessAll([exp EXCEPT !.tgt = 1], FALSE, Now)
      <4> DEFINE e == [exp EXCEPT !.tgt = 1]
      <4>1. /\ e \in ExposureInfo /\ e.state = exp.state /\ e.tgt = 1
            /\ e.first = exp.first /\ e.desired = exp.desired /\ e.sock = exp.sock
            /\ e.id = exp.id
        BY <1>1 DEF ExposureInfo
      <4> HIDE DEF e
      <4>2. Held(e, c)
        BY <2>1, <4>1 DEF Held
      <4>3. at = exp.first /\ turning \in {<<>>, <<exp.first>>} /\ Reported = exp.first
        BY <3>1, <3>5 DEF InStaging, ToStaging, ToDesired, Reported
      <4>4. Progress(e, c) /\ TimerFits' /\ WheelFits'
        BY <2>1, <3>1, <3>2, <3>3, <3>5, <4>1, <4>2, <4>3, ProcessAllRight
           DEF TypeInv, e
      <4> QED  BY <2>4, <4>1, <4>2, <4>4
    <3>6. CASE InPlace /\ ProcessAll([exp EXCEPT !.tgt = 0, !.state = "ReadyForExposure"],
                                     FALSE, Now)
      <4> DEFINE e == [exp EXCEPT !.tgt = 0, !.state = "ReadyForExposure"]
      <4>1. /\ e \in ExposureInfo /\ e.state = "ReadyForExposure" /\ e.tgt = 0
            /\ e.desired = exp.desired /\ e.sock = exp.sock /\ e.id = exp.id
        BY <1>1 DEF ExposureInfo, States
      <4> HIDE DEF e
      <4>2. Held(e, c)
        BY <2>1, <4>1 DEF Held
      <4>3. at = exp.desired /\ turning = <<>> /\ Reported = exp.desired
        <5>1. Head(<<exp.first>>) = exp.first
          OBVIOUS
        <5> QED  BY <3>1, <3>4, <3>6, <5>1 DEF InPlace, ToStaging, ToDesired, Reported
      <4>4. InSlot(e, Now)
        BY <3>2, <4>1, <4>3 DEF InSlot
      <4>5. Progress(e, c) /\ TimerFits' /\ WheelFits'
        BY <2>1, <3>2, <3>3, <3>6, <4>1, <4>2, <4>4, ProcessAllRight DEF TypeInv, e
      <4> QED  BY <2>4, <4>1, <4>2, <4>5
    <3>7. CASE /\ ~InStaging /\ ~InPlace
               /\ SetTimeout("FilterTimeout") \/ NoTimeout(FALSE)
               /\ WheelLeft(Now) /\ UNCHANGED <<exp, inq, initDone>>
      <4>1. Progress(exp, c)
        BY <1>1, <3>7 DEF Progress
      <4>2. TimerFits'
        <5>1. CASE SetTimeout("FilterTimeout")
          BY <2>1, <3>1, <3>7, <5>1 DEF SetTimeout, Calm, TimerFits
        <5>2. CASE NoTimeout(FALSE)
          <6>1. expired' = FALSE /\ armed' = FALSE
            BY <2>1, <5>2 DEF NoTimeout, Calm
          <6> QED  BY <6>1, NoTimerFits
        <5> QED  BY <3>7, <5>1, <5>2
      <4>3. turning' = turning /\ at' = at /\ rbuf' = <<>> /\ exp' = exp
        BY <3>2, <3>7 DEF WheelLeft
      <4>4. CASE ToStaging
        <5>1. turning = <<exp.first>> => pos' = at
          BY <3>2, <4>4 DEF ToStaging, Reported
        <5> QED  BY <1>1, <2>1, <2>4, <3>1, <3>7, <4>1, <4>2, <4>3, <4>4, <5>1
                 DEF WheelFits, ToStaging
      <4>5. CASE ToDesired
        <5>1. turning # <<>> => pos' = exp.first
          <6>1. Head(<<exp.first>>) = exp.first
            OBVIOUS
          <6> QED  BY <3>2, <4>5, <6>1 DEF ToDesired, Reported
        <5>2. ToDesired'
          BY <4>3, <4>5, <5>1 DEF ToDesired
        <5>3. WheelFits'
          BY <3>1, <3>3, <4>3, <5>2 DEF WheelFits
        <5> QED  BY <1>1, <2>1, <2>4, <4>1, <4>2, <5>3
      <4> QED  BY <3>1, <4>4, <4>5
    <3> QED  BY <3>1, <3>5, <3>6, <3>7 DEF FilterTimeout
  <2> QED  BY <1>3, <2>5, <2>6 DEF DispatchTimeout
<1> QED  BY <1>2, <1>3

LEMMA ServeImage ==
  ASSUME Orderly, TypeInv, OneOwner, ImageInv, NEW j \in Slots, ServeMessage(j)
  PROVE  ImageInv'
<1> USE DEF ImageInv
<1> DEFINE fd == slot[j]
           c == peer[fd]
           m == Head(out[c])
<1>1. j \in ready /\ j # Listen /\ fd \in FDs /\ c \in Clients /\ PeerOf(fd) = c
  BY DEF ServeMessage, Turn, StillReadable, PeerOf
<1>2. /\ UNCHANGED <<slot, peer, backlog, cst, asked, nreq>>
      /\ out[c] # <<>> /\ out' = [out EXCEPT ![c] = Tail(@)] /\ ready' = ready \ {j}
  BY <1>1 DEF ServeMessage, netVars
<1>3. \A k \in ready' \ {Listen} : peer[slot[k]] # c
  <2> SUFFICES ASSUME NEW k \in ready' \ {Listen}, peer[slot[k]] = c PROVE FALSE
    OBVIOUS
  <2>1. k \in Slots /\ slot[k] \in FDs /\ k # j
    BY <1>2 DEF StillReadable, TypeInv, TypeOK, ServerOK
  <2>2. slot[k] = slot[j]
    BY <1>1, <2>1, ConstantsOK DEF OneLine
  <2>3. slot[k] # 0
    BY <2>1 DEF FDs
  <2> QED  BY <2>1, <2>2, <2>3 DEF OneOwner
<1>4. CASE m \in Expose /\ HandleExpose(fd, m)
  <2>1. /\ cst[c] = "expose" /\ asked[c] \in Expose
        /\ out[c] = <<asked[c]>> /\ inq[c] = <<>>
    BY <1>1, <1>2, <1>4 DEF Conversation, Silent, StatusAsked, ExposeAsked, Expose
  <2>2. m = asked[c] /\ out' = [out EXCEPT ![c] = <<>>]
    BY <1>2, <2>1
  <2>3. exp.state = "Idle"
    <3> SUFFICES ASSUME exp.state # "Idle" PROVE FALSE
      BY DEF ImageInv
    <3>1. peer[exp.sock] = c
      BY <1>1, <2>1 DEF InHand, Held, OneAsker
    <3> QED  BY <1>2, <3>1 DEF InHand
  <2>4. AtRest /\ Calm /\ expired = FALSE
    BY <2>3 DEF WheelFits, TimerFits, Pending, Calm, TypeInv, TypeOK, ServerOK
  <2> DEFINE e == [exp EXCEPT !.state = "ExposureRequested", !.desired = m.filter,
                              !.sock = fd, !.id = m.id, !.short = m.short]
  <2>5. PICK w \in CfwReady :
          pos' = w.pos /\ initDone' = TRUE /\ ProcessAll(e, FALSE, w)
    BY <1>4, <2>4 DEF HandleExpose
  <2>6. /\ e \in ExposureInfo /\ e.state = "ExposureRequested" /\ e.tgt = 0
        /\ e.sock = fd /\ e.id = m.id /\ e.desired = m.filter
    BY <1>1, <1>4, <2>4 DEF ExposureInfo, States, Expose, TypeInv, TypeOK, ServerOK, AtRest
  <2> HIDE DEF e
  <2>7. Held(e, c)
    BY <1>1, <2>1, <2>2, <2>6 DEF Held
  <2>8. w \in WheelView /\ w.turning = <<>> /\ w.pos = w.at
    <3>1. w \in WheelView
      BY CfwReadyType
    <3>2. CASE initDone
      BY <2>4, <3>1, <3>2 DEF CfwReady, Reported, AtRest
    <3>3. CASE ~initDone
      BY <3>1, <3>3 DEF CfwReady, Orderly
    <3> QED  BY <3>1, <3>2, <3>3
  <2>9. Progress(e, c) /\ TimerFits' /\ WheelFits'
    BY <2>4, <2>5, <2>6, <2>7, <2>8, ProcessAllRight DEF TypeInv
  <2>10. \A k \in ready' : k \in ready
    BY <1>2
  <2> QED  BY <1>1, <1>2, <1>3, <2>1, <2>2, <2>6, <2>7, <2>9, <2>10, ProgressKeeps
           DEF TypeInv
<1>5. CASE m \in Status /\ HandleStatus(fd)
  <2>1. cst[c] = "status" /\ out[c] = <<[id |-> 0]>> /\ inq[c] = <<>>
    <3>1. asked[c] \in Expose => asked[c] \notin Status
      BY DEF Expose, Status, Ids
    <3> QED  BY <1>1, <1>2, <1>5, <3>1
             DEF Conversation, Silent, StatusAsked, ExposeAsked, Status
  <2>2. out' = [out EXCEPT ![c] = <<>>]
    BY <1>2, <2>1
  <2>3. inq' = [inq EXCEPT ![c] = <<[kind |-> "status"]>>]
    <3>1. Append(inq[c], [kind |-> "status"]) = <<[kind |-> "status"]>>
      BY <2>1
    <3>2. inq' = [inq EXCEPT ![c] = Append(@, [kind |-> "status"])]
      BY <1>1, <1>5, <2>1, ConstantsOK DEF HandleStatus, Send
    <3> QED  BY <3>1, <3>2
  <2>4. /\ expired' = expired /\ pos' = Reported /\ rbuf' = <<>>
        /\ UNCHANGED <<armed, handler, exp, initDone, turning, at, sensor>>
    BY <1>5 DEF HandleStatus, NoTimeout
  <2>5. Conversation'
    <3> SUFFICES ASSUME NEW d \in Clients
                 PROVE (\/ cst[d] \in {"new", "idle", "gone"} /\ Silent(d)
                        \/ StatusAsked(d) \/ ExposeAsked(d))'
      BY DEF Conversation
    <3>1. CASE d = c
      <4>1. out'[c] = <<>> /\ inq'[c] = <<[kind |-> "status"]>>
        BY <1>1, <2>2, <2>3 DEF TypeInv, TypeOK, ClientOK
      <4> QED  BY <1>2, <2>1, <3>1, <4>1 DEF StatusAsked
    <3>2. CASE d # c
      <4>1. out'[d] = out[d] /\ inq'[d] = inq[d]
        BY <1>1, <2>2, <2>3, <3>2 DEF TypeInv, TypeOK, ClientOK
      <4> QED  BY <1>2, <4>1 DEF Conversation, Silent, StatusAsked, ExposeAsked, Picture
    <3> QED  BY <3>1, <3>2
  <2>6. OneAsker' /\ OneLine' /\ TimerFits'
    BY <1>2, <2>4 DEF OneAsker, OneLine, TimerFits, Pending
  <2>7. StillReadable'
    BY <1>1, <1>2, <1>3, <2>2 DEF StillReadable, TypeInv, TypeOK, ClientOK
  <2>8. InHand'
    <3> SUFFICES ASSUME exp.state # "Idle"
                 PROVE  (Held(exp, peer[exp.sock]) /\ out[peer[exp.sock]] = <<>>)'
      BY <2>4 DEF InHand
    <3>1. Held(exp, peer[exp.sock]) /\ out[peer[exp.sock]] = <<>>
          /\ peer[exp.sock] # c
      BY <2>1 DEF InHand, Held
    <3>2. inq'[peer[exp.sock]] = inq[peer[exp.sock]]
          /\ out'[peer[exp.sock]] = out[peer[exp.sock]]
      BY <1>1, <2>2, <2>3, <3>1 DEF Held, TypeInv, TypeOK, ClientOK
    <3> QED  BY <1>2, <2>4, <3>1, <3>2 DEF Held
  <2>9. WheelFits'
    <3>1. CASE exp.state # "ExposureRequested"
      BY <2>4, <3>1 DEF WheelFits, AtRest, Reported
    <3>2. CASE exp.state = "ExposureRequested" /\ ToStaging
      <4>1. ToStaging'
        BY <2>4, <3>2 DEF ToStaging, Reported
      <4> QED  BY <2>4, <3>2, <4>1 DEF WheelFits
    <3>3. CASE exp.state = "ExposureRequested" /\ ToDesired
      <4>1. Head(<<exp.first>>) = exp.first
        OBVIOUS
      <4>2. ToDesired'
        BY <2>4, <3>3, <4>1 DEF ToDesired, Reported
      <4> QED  BY <2>4, <3>3, <4>2 DEF WheelFits
    <3> QED  BY <3>1, <3>2, <3>3 DEF WheelFits
  <2> QED  BY <2>5, <2>6, <2>7, <2>8, <2>9
<1> QED  BY <1>1, <1>4, <1>5 DEF ServeMessage

-----------------------------------------------------------------------------
(* Connections, the loop, the wheel and the clients.                       *)

\* A client that is gone has no exposure in the server.
LEMMA CloseImage ==
  ASSUME TypeInv, OneOwner, ImageInv, NEW j \in Slots, CloseConnection(j)
  PROVE  ImageInv'
<1> USE DEF ImageInv
<1> DEFINE fd == slot[j]
           c == peer[fd]
<1>1. j \in ready /\ j # Listen /\ fd \in FDs /\ c \in Clients /\ PeerOf(fd) = c
      /\ cst[c] = "gone"
  BY DEF CloseConnection, Turn, StillReadable, PeerOf
<1>2. /\ peer' = [peer EXCEPT ![fd] = None] /\ slot' = [slot EXCEPT ![j] = 0]
      /\ ready' = ready \ {j}
      /\ UNCHANGED <<expired, armed, handler, exp, pos, initDone, rbuf, turning, at,
                     sensor, backlog, cst, asked, out, inq>>
  BY DEF CloseConnection, timerVars, wheelVars, clientVars
<1>3. Conversation' /\ OneAsker' /\ TimerFits' /\ WheelFits'
  BY <1>2 DEF Conversation, Silent, StatusAsked, ExposeAsked, Picture, OneAsker, TimerFits,
              Pending, WheelFits, AtRest, ToStaging, ToDesired
<1>4. OneLine'
  <2>1. \A f \in FDs : peer'[f] = peer[f] \/ peer'[f] = None
    BY <1>2 DEF TypeInv, TypeOK, NetOK
  <2>2. \A d \in Clients : d # None
    BY ConstantsOK
  <2>3. \A i \in DOMAIN backlog : backlog[i] \in Clients
    BY DEF TypeInv, TypeOK, NetOK
  <2> QED  BY <1>2, <2>1, <2>2, <2>3 DEF OneLine
<1>5. StillReadable'
  <2> SUFFICES ASSUME NEW k \in ready' \ {Listen}
               PROVE /\ slot'[k] \in FDs /\ peer'[slot'[k]] \in Clients
                     /\ out'[peer'[slot'[k]]] # <<>> \/ cst'[peer'[slot'[k]]] = "gone"
    BY DEF StillReadable
  <2>1. k \in Slots /\ k # j /\ slot[k] \in FDs /\ slot[k] # 0
    BY <1>2 DEF StillReadable, TypeInv, TypeOK, ServerOK, FDs
  <2>2. slot'[k] = slot[k] /\ slot[k] # fd
    BY <1>2, <2>1 DEF OneOwner, TypeInv, TypeOK, NetOK
  <2>3. peer'[slot[k]] = peer[slot[k]]
    BY <1>2, <2>1, <2>2 DEF TypeInv, TypeOK, NetOK
  <2> QED  BY <1>2, <2>1, <2>2, <2>3 DEF StillReadable
<1>6. InHand'
  <2> SUFFICES ASSUME exp.state # "Idle"
               PROVE  (Held(exp, peer[exp.sock]) /\ out[peer[exp.sock]] = <<>>)'
    BY <1>2 DEF InHand
  <2>1. Held(exp, peer[exp.sock]) /\ out[peer[exp.sock]] = <<>> /\ exp.sock # fd
    BY <1>1 DEF InHand, Held
  <2>2. peer'[exp.sock] = peer[exp.sock]
    BY <1>2, <2>1 DEF Held, TypeInv, TypeOK, NetOK
  <2> QED  BY <1>2, <2>1, <2>2 DEF Held
<1> QED  BY <1>3, <1>4, <1>5, <1>6

LEMMA AcceptImage ==
  ASSUME TypeInv, ImageInv, AcceptConnection PROVE ImageInv'
<1> USE DEF ImageInv
<1> DEFINE c == Head(backlog)
<1>1. PICK fd \in FDs :
        /\ peer[fd] = None /\ peer' = [peer EXCEPT ![fd] = c]
        /\ \/ \E j \in Slots : slot[j] = 0 /\ slot' = [slot EXCEPT ![j] = fd]
           \/ UNCHANGED slot
  BY DEF AcceptConnection
<1>2. /\ backlog' = Tail(backlog) /\ ready' = ready \ {Listen}
      /\ UNCHANGED <<expired, armed, handler, exp, pos, initDone, rbuf, turning, at,
                     sensor, cst, asked, out, inq>>
  BY DEF AcceptConnection, timerVars, wheelVars, clientVars
<1>3. backlog \in Seq(Clients) /\ backlog # <<>> /\ c \in Clients /\ c = backlog[1]
  BY DEF AcceptConnection, Turn, TypeInv, TypeOK, NetOK, AcceptWaits
<1>4. Conversation' /\ OneAsker' /\ TimerFits' /\ WheelFits'
  BY <1>2 DEF Conversation, Silent, StatusAsked, ExposeAsked, Picture, OneAsker, TimerFits,
              Pending, WheelFits, AtRest, ToStaging, ToDesired
<1>5. OneLine'
  <2>1. \A i \in DOMAIN backlog' :
          /\ i + 1 \in DOMAIN backlog /\ backlog'[i] = backlog[i + 1]
          /\ i \in Nat /\ backlog'[i] # c
    BY <1>2, <1>3 DEF OneLine
  <2>2. \A f \in FDs : peer'[f] = IF f = fd THEN c ELSE peer[f]
    BY <1>1 DEF TypeInv, TypeOK, NetOK
  <2>3. \A f \in FDs : peer[f] # c
    BY <1>3 DEF OneLine
  <2>4. cst[c] # "new"
    BY <1>3 DEF OneLine
  <2>5. \A f, g \in FDs : peer'[f] # None /\ peer'[f] = peer'[g] => f = g
    BY <2>2, <2>3 DEF OneLine
  <2>6. \A i, k \in DOMAIN backlog' : backlog'[i] = backlog'[k] => i = k
    BY <2>1 DEF OneLine
  <2>7. \A i \in DOMAIN backlog', f \in FDs : backlog'[i] # peer'[f]
    BY <2>1, <2>2 DEF OneLine
  <2>8. \A d \in Clients : cst'[d] = "new" =>
           /\ \A f \in FDs : peer'[f] # d
           /\ \A i \in DOMAIN backlog' : backlog'[i] # d
    BY <1>2, <2>1, <2>2, <2>4 DEF OneLine
  <2> QED  BY <2>5, <2>6, <2>7, <2>8 DEF OneLine
<1>6. StillReadable'
  <2> SUFFICES ASSUME NEW k \in ready' \ {Listen}
               PROVE /\ slot'[k] \in FDs /\ peer'[slot'[k]] \in Clients
                     /\ out'[peer'[slot'[k]]] # <<>> \/ cst'[peer'[slot'[k]]] = "gone"
    BY DEF StillReadable
  <2>1. k \in Slots /\ slot[k] \in FDs /\ slot[k] # 0 /\ peer[slot[k]] # None
    BY <1>2, ConstantsOK DEF StillReadable, TypeInv, TypeOK, ServerOK, FDs
  <2>2. slot'[k] = slot[k] /\ peer'[slot[k]] = peer[slot[k]]
    BY <1>1, <2>1 DEF TypeInv, TypeOK, NetOK
  <2> QED  BY <1>2, <2>1, <2>2 DEF StillReadable
<1>7. InHand'
  <2> SUFFICES ASSUME exp.state # "Idle"
               PROVE  (Held(exp, peer[exp.sock]) /\ out[peer[exp.sock]] = <<>>)'
    BY <1>2 DEF InHand
  <2>1. Held(exp, peer[exp.sock]) /\ out[peer[exp.sock]] = <<>> /\ exp.sock # fd
    BY <1>1, ConstantsOK DEF InHand, Held
  <2>2. peer'[exp.sock] = peer[exp.sock]
    BY <1>1, <2>1 DEF Held, TypeInv, TypeOK, NetOK
  <2> QED  BY <1>2, <2>1, <2>2 DEF Held
<1> QED  BY <1>4, <1>5, <1>6, <1>7

LEMMA LoopImage ==
  ASSUME TypeInv, ImageInv, LoopTop \/ SelectBlocks \/ SelectReturns \/ LoopEnd \/ Alarm
  PROVE  ImageInv'
<1> USE DEF ImageInv
<1>1. UNCHANGED <<exp, pos, initDone, rbuf, turning, at, sensor, handler, slot, peer,
                  backlog, cst, asked, out, inq>>
  BY DEF LoopTop, SelectBlocks, SelectReturns, LoopEnd, Alarm, timerVars, wheelVars,
         netVars, clientVars
<1>2. Conversation' /\ OneAsker' /\ OneLine' /\ InHand' /\ WheelFits'
  BY <1>1 DEF Conversation, Silent, StatusAsked, ExposeAsked, Picture, OneAsker, OneLine,
              InHand, Held, WheelFits, AtRest, ToStaging, ToDesired
<1>3. StillReadable'
  <2>1. CASE SelectReturns
    <3>1. ready' = ReadySet
      BY <2>1 DEF SelectReturns
    <3>2. \A j \in ReadySet \ {Listen} : j \in Slots /\ Readable(j)
      BY DEF ReadySet
    <3>3. \A j \in Slots : Readable(j) =>
            /\ slot[j] \in FDs /\ peer[slot[j]] \in Clients
            /\ out[peer[slot[j]]] # <<>> \/ cst[peer[slot[j]]] = "gone"
      BY DEF Readable, PeerOf, TypeInv, TypeOK, NetOK
    <3> QED  BY <1>1, <3>1, <3>2, <3>3 DEF StillReadable
  <2>2. CASE ready' \in {ready, {}}
    BY <1>1, <2>2 DEF StillReadable
  <2> QED  BY <2>1, <2>2 DEF LoopTop, SelectBlocks, LoopEnd, Alarm
<1>4. TimerFits'
  <2>1. CASE Alarm
    <3>1. armed /\ expired' = TRUE /\ armed' = FALSE
      BY <2>1 DEF Alarm
    <3> QED  BY <1>1, <3>1 DEF TimerFits, Pending
  <2>2. CASE UNCHANGED <<armed, expired>>
    BY <1>1, <2>2 DEF TimerFits, Pending
  <2> QED  BY <2>1, <2>2 DEF LoopTop, SelectBlocks, SelectReturns, LoopEnd, timerVars
<1> QED  BY <1>2, <1>3, <1>4

LEMMA WheelImage ==
  ASSUME TypeInv, ImageInv, WheelDone PROVE ImageInv'
<1> USE DEF ImageInv
<1>1. /\ UNCHANGED <<ready, expired, armed, exp, pos, initDone, handler, slot, peer,
                     backlog, cst, asked, out, inq>>
      /\ at' = Head(turning) /\ turning' = Tail(turning)
      /\ rbuf' = Append(rbuf, Head(turning))
  BY DEF WheelDone, timerVars, netVars, clientVars
<1>2. exp.state = "ExposureRequested" /\ turning # <<>>
  BY DEF WheelDone, WheelFits, AtRest
<1>3. Conversation' /\ OneAsker' /\ OneLine' /\ InHand' /\ StillReadable'
  BY <1>1 DEF Conversation, Silent, StatusAsked, ExposeAsked, Picture, OneAsker, OneLine,
              InHand, Held, StillReadable
<1>4. TimerFits'
  BY <1>1, <1>2 DEF TimerFits, Pending
<1>5. CASE ToStaging
  <2>1. turning = <<exp.first>> /\ rbuf = <<>> /\ exp.tgt = 0
    BY <1>2, <1>5 DEF ToStaging
  <2>2. at' = exp.first /\ turning' = <<>> /\ rbuf' = <<exp.first>>
    BY <1>1, <2>1
  <2>3. ToStaging'
    BY <1>1, <2>1, <2>2 DEF ToStaging
  <2> QED  BY <1>1, <1>2, <1>3, <1>4, <2>3 DEF WheelFits
<1>6. CASE ToDesired
  <2>1. exp.tgt = 1 /\ at = exp.first /\ pos = exp.first
    BY <1>2, <1>6 DEF ToDesired
  <2>2. CASE turning = <<exp.desired>>
    <3>1. at' = exp.desired /\ turning' = <<>>
      BY <1>1, <2>2
    <3>2. ToDesired'
      BY <1>1, <2>1, <3>1 DEF ToDesired
    <3> QED  BY <1>1, <1>2, <1>3, <1>4, <3>2 DEF WheelFits
  <2>3. CASE turning = <<exp.first, exp.desired>> /\ rbuf = <<>>
    <3>1. at' = exp.first /\ turning' = <<exp.desired>> /\ rbuf' = <<exp.first>>
      BY <1>1, <2>3
    <3>2. ToDesired'
      BY <1>1, <2>1, <3>1 DEF ToDesired
    <3> QED  BY <1>1, <1>2, <1>3, <1>4, <3>2 DEF WheelFits
  <2> QED  BY <1>2, <1>6, <2>2, <2>3 DEF ToDesired
<1> QED  BY <1>2, <1>5, <1>6 DEF WheelFits

LEMMA ClientImage ==
  ASSUME Orderly, TypeInv, ImageInv, NEW c \in Clients, ClientStep(c) PROVE ImageInv'
<1> USE DEF ImageInv
<1>1. UNCHANGED <<ready, expired, armed, handler, exp, pos, initDone, rbuf, turning, at,
                  sensor, slot, peer>>
  BY DEF ClientStep, Connect, SendStatus, Receive, Leave, SendExpose, ServerVars, netVars,
         timerVars, wheelVars
<1>2. TimerFits' /\ WheelFits'
  BY <1>1 DEF TimerFits, Pending, WheelFits, AtRest, ToStaging, ToDesired
<1>3. \A d \in Clients \ {c} :
        cst'[d] = cst[d] /\ asked'[d] = asked[d] /\ out'[d] = out[d] /\ inq'[d] = inq[d]
  BY DEF ClientStep, Connect, SendStatus, Receive, Leave, SendExpose, TypeInv, TypeOK,
         ClientOK
<1>4. /\ cst[c] # "gone"
      /\ cst[c] = "expose" => inq[c] # <<>>
      /\ out[c] # <<>> => out'[c] # <<>>
  <2>1. CASE Connect(c) \/ Receive(c) \/ Leave(c)
    BY <2>1 DEF Connect, Receive, Leave, Orderly
  <2>2. CASE SendStatus(c)
    <3>1. cst[c] = "idle" /\ out[c] = <<>>
      BY <2>2 DEF SendStatus, Conversation, Silent, StatusAsked, ExposeAsked
    <3> QED  BY <3>1
  <2>3. CASE \E f \in Positions, short \in BOOLEAN : SendExpose(c, f, short)
    <3>1. cst[c] = "idle" /\ out[c] = <<>>
      BY <2>3 DEF SendExpose, Conversation, Silent, StatusAsked, ExposeAsked
    <3> QED  BY <3>1
  <2> QED  BY <2>1, <2>2, <2>3 DEF ClientStep
<1>5. StillReadable'
  <2>1. \A d \in Clients :
          /\ out[d] # <<>> => out'[d] # <<>>
          /\ cst[d] = "gone" => cst'[d] = "gone"
    BY <1>3, <1>4
  <2>2. \A j \in ready \ {Listen} :
          /\ slot[j] \in FDs /\ peer[slot[j]] \in Clients
          /\ out'[peer[slot[j]]] # <<>> \/ cst'[peer[slot[j]]] = "gone"
    BY <2>1 DEF StillReadable
  <2> QED  BY <1>1, <2>2 DEF StillReadable
<1>6. InHand'
  <2> SUFFICES ASSUME exp.state # "Idle"
               PROVE  (Held(exp, peer[exp.sock]) /\ out[peer[exp.sock]] = <<>>)'
    BY <1>1 DEF InHand
  <2>1. Held(exp, peer[exp.sock]) /\ out[peer[exp.sock]] = <<>> /\ peer[exp.sock] # c
    BY <1>4 DEF InHand, Held
  <2> QED  BY <1>1, <1>3, <2>1 DEF Held
<1>7. Conversation' /\ OneAsker' /\ OneLine'
  <2>1. \A d \in Clients \ {c} :
          (\/ cst[d] \in {"new", "idle", "gone"} /\ Silent(d)
           \/ StatusAsked(d) \/ ExposeAsked(d))'
    BY <1>3 DEF Conversation, Silent, StatusAsked, ExposeAsked, Picture
  <2>2. CASE Connect(c)
    <3>1. /\ cst[c] = "new" /\ cst' = [cst EXCEPT ![c] = "idle"]
          /\ backlog' = Append(backlog, c) /\ UNCHANGED <<asked, out, inq>>
      BY <2>2 DEF Connect
    <3>2. Silent(c)' /\ cst'[c] = "idle"
      BY <3>1 DEF Conversation, Silent, StatusAsked, ExposeAsked, TypeInv, TypeOK, ClientOK
    <3>3. Conversation'
      BY <2>1, <3>2 DEF Conversation
    <3>4. OneAsker'
      BY <1>3, <3>2 DEF OneAsker
    <3>5. /\ DOMAIN backlog' = 1 .. Len(backlog) + 1 /\ DOMAIN backlog = 1 .. Len(backlog)
          /\ \A i \in DOMAIN backlog' :
               \/ i \in DOMAIN backlog /\ backlog'[i] = backlog[i]
               \/ i = Len(backlog) + 1 /\ backlog'[i] = c
      BY <3>1 DEF TypeInv, TypeOK, NetOK
    <3>6. OneLine'
      BY <1>1, <1>3, <3>1, <3>2, <3>5 DEF OneLine
    <3> QED  BY <3>3, <3>4, <3>6
  <2>3. CASE SendStatus(c)
    <3>1. /\ cst[c] = "idle" /\ cst' = [cst EXCEPT ![c] = "status"]
          /\ out' = [out EXCEPT ![c] = Append(@, [id |-> 0])]
          /\ UNCHANGED <<backlog, asked, inq>>
      BY <2>3 DEF SendStatus, netVars
    <3>2. Silent(c)
      BY <3>1 DEF Conversation, StatusAsked, ExposeAsked
    <3>3. /\ cst'[c] = "status" /\ inq'[c] = <<>> /\ out'[c] = Append(out[c], [id |-> 0])
      BY <3>1, <3>2 DEF Silent, TypeInv, TypeOK, ClientOK
    <3>4. out'[c] = <<[id |-> 0]>>
      BY <3>2, <3>3 DEF Silent
    <3>5. Conversation'
      BY <2>1, <3>3, <3>4 DEF Conversation, StatusAsked
    <3>6. OneAsker' /\ OneLine'
      BY <1>1, <1>3, <3>1, <3>3 DEF OneAsker, OneLine
    <3> QED  BY <3>5, <3>6
  <2>4. CASE Receive(c)
    <3>1. /\ cst[c] \in {"expose", "status"} /\ cst' = [cst EXCEPT ![c] = "idle"]
          /\ inq[c] # <<>> /\ inq' = [inq EXCEPT ![c] = Tail(@)]
          /\ UNCHANGED <<backlog, out>>
      BY <2>4 DEF Receive, netVars
    <3>2. Tail(inq[c]) = <<>> /\ out[c] = <<>>
      <4>1. PICK m : inq[c] = <<m>> /\ out[c] = <<>>
        BY <3>1 DEF Conversation, Silent, StatusAsked, ExposeAsked
      <4> QED  BY <4>1
    <3>3. Silent(c)' /\ cst'[c] = "idle"
      BY <3>1, <3>2 DEF Silent, TypeInv, TypeOK, ClientOK
    <3>4. Conversation'
      BY <2>1, <3>3 DEF Conversation
    <3>5. OneAsker' /\ OneLine'
      BY <1>1, <1>3, <3>1, <3>3 DEF OneAsker, OneLine
    <3> QED  BY <3>4, <3>5
  <2>5. CASE Leave(c)
    <3>1. /\ cst[c] = "idle" /\ cst' = [cst EXCEPT ![c] = "gone"]
          /\ inq' = [inq EXCEPT ![c] = <<>>] /\ UNCHANGED <<backlog, out>>
      BY <2>5 DEF Leave, netVars, Orderly
    <3>2. Silent(c)' /\ cst'[c] = "gone"
      BY <3>1 DEF Conversation, Silent, StatusAsked, ExposeAsked, TypeInv, TypeOK, ClientOK
    <3>3. Conversation'
      BY <2>1, <3>2 DEF Conversation
    <3>4. OneAsker' /\ OneLine'
      BY <1>1, <1>3, <3>1, <3>2 DEF OneAsker, OneLine
    <3> QED  BY <3>3, <3>4
  <2>6. CASE \E f \in Positions, short \in BOOLEAN : SendExpose(c, f, short)
    <3>1. PICK f \in Positions, short \in BOOLEAN : SendExpose(c, f, short)
      BY <2>6
    <3> DEFINE m == [id |-> nreq', filter |-> f, short |-> short]
    <3>2. /\ cst[c] = "idle" /\ cst' = [cst EXCEPT ![c] = "expose"]
          /\ \A d \in Clients : cst[d] # "expose"
          /\ asked' = [asked EXCEPT ![c] = m] /\ out' = [out EXCEPT ![c] = Append(@, m)]
          /\ UNCHANGED <<backlog, inq>>
      BY <3>1 DEF SendExpose, netVars, Orderly
    <3>3. m \in Expose
      <4>1. nreq' \in Ids
        BY <3>1, ConstantsOK DEF SendExpose, Ids, TypeInv, TypeOK, ClientOK
      <4> QED  BY <4>1 DEF Expose
    <3> HIDE DEF m
    <3>4. Silent(c)
      BY <3>2 DEF Conversation, StatusAsked, ExposeAsked
    <3>5. cst'[c] = "expose" /\ asked'[c] = m /\ out'[c] = Append(out[c], m)
          /\ inq'[c] = <<>>
      BY <3>2, <3>4 DEF Silent, TypeInv, TypeOK, ClientOK
    <3>6. out'[c] = <<m>>
      BY <3>4, <3>5 DEF Silent
    <3>7. Conversation'
      BY <2>1, <3>3, <3>5, <3>6 DEF Conversation, ExposeAsked
    <3>8. OneAsker' /\ OneLine'
      BY <1>1, <1>3, <3>2, <3>5 DEF OneAsker, OneLine
    <3> QED  BY <3>7, <3>8
  <2> QED  BY <2>2, <2>3, <2>4, <2>5, <2>6 DEF ClientStep
<1> QED  BY <1>2, <1>5, <1>6, <1>7

LEMMA StutterImage ==
  ASSUME ImageInv, UNCHANGED vars PROVE ImageInv'
BY DEF vars, timerVars, wheelVars, netVars, clientVars, ImageInv, Conversation, Silent,
       StatusAsked, ExposeAsked, Picture, OneAsker, OneLine, StillReadable, InHand, Held,
       TimerFits, Pending, WheelFits, AtRest, ToStaging, ToDesired

LEMMA NextImage ==
  ASSUME Orderly PROVE TypeInv /\ OneOwner /\ ImageInv /\ [Next]_vars => ImageInv'
<1> SUFFICES ASSUME TypeInv, OneOwner, ImageInv, [Next]_vars PROVE ImageInv'
  OBVIOUS
<1>1. CASE Server
  <2>1. CASE \E j \in Slots : ServeMessage(j) \/ CloseConnection(j)
    BY <2>1, ServeImage, CloseImage
  <2> QED  BY <1>1, <2>1, LoopImage, DispatchImage, AcceptImage DEF Server
<1>2. CASE \E c \in Clients : ClientStep(c)
  BY <1>2, ClientImage
<1> QED  BY <1>1, <1>2, LoopImage, WheelImage, StutterImage DEF Next

LEMMA ImageInvariant ==
  ASSUME Orderly PROVE Spec => []ImageInv
<1>1. TypeInv /\ OneOwner /\ ImageInv /\ [Next]_vars => ImageInv'
  BY NextImage
<1> QED  BY <1>1, InitImage, TypeInvariant, OneOwnerCorrect, PTL DEF Spec

\* What coordinated clients read is the answer to what they asked, taken and
\* labelled in their filter with the wheel at rest, whatever the camera and the
\* wheel fail to do and however alarms, moves and queries interleave.
THEOREM RightImageCorrect ==
  ASSUME Orderly PROVE Spec => []RightImage
<1>1. ImageInv => RightImage
  <2> SUFFICES ASSUME ImageInv, NEW c \in Clients, NEW i \in DOMAIN inq[c],
                      inq[c][i].kind = "image"
               PROVE  /\ cst[c] = "expose" /\ inq[c][i].id = asked[c].id
                      /\ inq[c][i].light = asked[c].filter
                      /\ inq[c][i].label = asked[c].filter /\ inq[c][i].sharp
    BY DEF RightImage
  <2>1. cst[c] = "expose" /\ inq[c][i] = Picture(asked[c])
    <3>1. inq[c] # <<>>
      OBVIOUS
    <3>2. CASE StatusAsked(c)
      <4>1. inq[c] = <<[kind |-> "status"]>>
        BY <3>1, <3>2 DEF StatusAsked
      <4>2. inq[c][i] = [kind |-> "status"]
        BY <4>1
      <4> QED  BY <4>2
    <3>3. CASE ExposeAsked(c)
      <4>1. inq[c] = <<Picture(asked[c])>> /\ cst[c] = "expose"
        BY <3>1, <3>3 DEF ExposeAsked, Silent
      <4> QED  BY <4>1
    <3> QED  BY <3>1, <3>2, <3>3 DEF ImageInv, Conversation, Silent
  <2> QED  BY <2>1 DEF Picture
<1> QED  BY <1>1, ImageInvariant, PTL

\* The wheel enters the slot an image is taken in from one side only.
THEOREM ApproachCorrect ==
  ASSUME Orderly PROVE Spec => []ApproachFromStaging
<1>1. ImageInv => ApproachFromStaging
  <2> SUFFICES ASSUME ImageInv, exp.tgt = 1, turning # <<>>
               PROVE  turning[Len(turning)] = exp.desired /\ at = exp.first
    BY DEF ApproachFromStaging
  <2>1. ToDesired
    BY DEF ImageInv, WheelFits, AtRest, ToStaging
  <2>2. at = exp.first /\ turning \in {<<exp.desired>>, <<exp.first, exp.desired>>}
    BY <2>1 DEF ToDesired
  <2>3. CASE turning = <<exp.desired>>
    BY <2>2, <2>3
  <2>4. CASE turning = <<exp.first, exp.desired>>
    BY <2>2, <2>4
  <2> QED  BY <2>2, <2>3, <2>4
<1> QED  BY <1>1, ImageInvariant, PTL
=============================================================================
