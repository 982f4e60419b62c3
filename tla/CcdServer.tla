------------------------------ MODULE CcdServer ------------------------------
(***************************************************************************)
(* The camera server, CCD_SERVER/: one thread that sits in select(), one   *)
(* SIGALRM timer slot, the exposure state machine MainExposure and the USB *)
(* filter wheel.  Clients are short-lived programs: each connects once,    *)
(* sends EXPOSE or STATUS messages, reads one answer to each, and goes.    *)
(*                                                                         *)
(* A handler runs to completion in one step.  SIGALRM, the wheel and the   *)
(* clients interleave with the loop between the places where it looks at   *)
(* them: the test of timeout_expired, the call of select(), the dispatch   *)
(* of the timeout procedure and the handling of each ready connection.     *)
(* External and modelled from its use: the wheel, the sensor, the kernel.  *)
(***************************************************************************)
EXTENDS Integers, Sequences

CONSTANTS
  Clients,           \* the programs that talk to the server
  None,              \* no client
  MAX_CONNECTIONS,   \* slots of the connection table
  MaxFd,             \* descriptors for clients: enough for every client
  NumFilters,        \* slots of the filter wheel
  CFW_MAX_TIMEOUTS,  \* ticks a wheel move may take
  EXP_MAX_TIMEOUTS,  \* polls of the camera after the scheduled end
  MaxRequests,       \* bound: EXPOSE messages sent in a behaviour
  Coordinated,       \* TRUE: clients never have two exposures outstanding
  Pollers,           \* clients that only ask for the status, again and again
  Faults             \* what may go wrong, a subset of FaultKinds

\* hangup: a client is killed while it waits;  sdk: a camera SDK or FITS call
\* fails;  camera: the camera is not ready EXP_POSTWIN after the end;
\* wheel: the wheel answers late, or not within CFW_MAX_TIMEOUTS ticks;
\* init: it does not answer the first command of USBCFWInitializeEnd().
FaultKinds == {"hangup", "sdk", "camera", "wheel", "init"}

ASSUME ConstantsOK ==
  /\ None \notin Clients
  /\ MAX_CONNECTIONS \in Nat \ {0}
  /\ MaxFd \in Nat \ {0}
  /\ NumFilters \in Nat \ {0, 1}
  /\ CFW_MAX_TIMEOUTS \in Nat \ {0}
  /\ EXP_MAX_TIMEOUTS \in Nat \ {0}
  /\ MaxRequests \in Nat
  /\ Coordinated \in BOOLEAN
  /\ Pollers \subseteq Clients
  /\ Faults \subseteq FaultKinds

Positions == 0 .. NumFilters - 1
Slots == 1 .. MAX_CONNECTIONS
Listen == MAX_CONNECTIONS + 1        \* the listening socket, looked at last
FDs == 1 .. MaxFd
Ids == 1 .. MaxRequests

Expose == [id : Ids, filter : Positions, short : BOOLEAN]
Status == [id : {0}]
Image == [kind : {"image"}, id : Ids \cup {0}, light : Positions,
          label : Positions, sharp : BOOLEAN]
StatusReply == [kind : {"status"}]

\* top: about to test timeout_expired;  calling: tested, not yet in select();
\* blocked: in select();  woken: about to test it again;  serve: in the loop
\* over the connections;  exited: the process is gone.
Places == {"top", "calling", "blocked", "woken", "serve", "exited"}

States == {"Idle", "ExposureRequested", "ReadyForExposure", "Exposing",
           "ReadyForExposureToEnd"}
ExposureInfo == [state : States, desired : Positions, first : Positions,
                 tgt : {0, 1}, sock : FDs \cup {0}, id : Ids \cup {0},
                 short : BOOLEAN]
Procedures == {"none", "FilterTimeout", "ExposureTimeoutWithLock"}

VARIABLES
  pc,        \* where ProcessMessages() is, one of Places
  ready,     \* what select() reported and the loop has yet to serve
  expired,   \* timeout_expired
  armed,     \* the interval timer is running
  handler,   \* UserTimeoutProcedure
  exp,       \* MainExposure
  fcount,    \* filter_timeout_counter
  ecount,    \* timeout_counter of ScheduleExposureTimeout()
  pos,       \* current_position of usb_cfw.cc, copied to CurrentCFWPosition
  initDone,  \* initialization_complete
  rbuf,      \* readbuffer: positions the wheel reported, not yet consumed
  turning,   \* external: moves the wheel was told to make and has not ended
  at,        \* external: the slot the wheel was last at rest in
  sensor,    \* external: the exposure on the chip
  slot,      \* connections[j].fd, 0 where not in_use
  peer,      \* the client behind each open descriptor
  backlog,   \* connections the kernel holds for accept()
  cst,       \* what each client is doing
  asked,     \* the EXPOSE message a client waits for
  out,       \* messages a client sent and the server has not read
  inq,       \* answers a client has not read
  nreq       \* EXPOSE messages sent so far

timerVars == <<expired, armed, handler>>
wheelVars == <<pos, initDone, rbuf, turning, at>>
netVars == <<slot, peer, backlog>>
clientVars == <<cst, asked, out, nreq>>
vars == <<pc, ready, timerVars, exp, fcount, ecount, wheelVars, sensor, netVars,
          clientVars, inq>>

NoExpose == [id |-> 0, filter |-> 0, short |-> FALSE]
NoLight == [id |-> 0, light |-> 0, sharp |-> FALSE]

Init ==
  /\ pc = "top" /\ ready = {}
  /\ expired = FALSE /\ armed = FALSE /\ handler = "none"
  /\ exp = [state |-> "Idle", desired |-> 0, first |-> 0, tgt |-> 0, sock |-> 0,
            id |-> 0, short |-> FALSE]
  /\ fcount = -1 /\ ecount = -1
  /\ pos = -1 /\ initDone = FALSE /\ rbuf = <<>> /\ turning = <<>>
  /\ at \in Positions
  /\ sensor = NoLight
  /\ slot = [j \in Slots |-> 0]
  /\ peer = [f \in FDs |-> None]
  /\ backlog = <<>>
  /\ cst = [c \in Clients |-> "new"]
  /\ asked = [c \in Clients |-> NoExpose]
  /\ out = [c \in Clients |-> <<>>]
  /\ inq = [c \in Clients |-> <<>>]
  /\ nreq = 0

-----------------------------------------------------------------------------
(* The timer slot and the sockets.                                         *)

\* Mutant: a timer that already runs is kept.
M_SetTimeout(procedure) ==
  /\ handler' = IF armed THEN handler ELSE procedure
  /\ armed' = TRUE
  /\ expired' \in IF armed THEN BOOLEAN ELSE {FALSE}

\* The previous alarm may still be delivered between `timeout_expired = 0`
\* and setitimer().
SetTimeout(procedure) ==
  /\ handler' = procedure
  /\ armed' = TRUE
  /\ expired' \in IF armed THEN BOOLEAN ELSE {FALSE}

\* A handler that sets no timer; x is timeout_expired as the handler found it.
NoTimeout(x) == expired' = x /\ UNCHANGED <<armed, handler>>

PeerOf(fd) == IF fd \in FDs THEN peer[fd] ELSE None

\* GenMessage::send(): EBADF is only logged; nothing ignores SIGPIPE.
Send(fd, msg) ==
  LET c == PeerOf(fd) IN
  \/ /\ c = None
     /\ UNCHANGED inq /\ pc' = "serve"
  \/ /\ c # None /\ cst[c] = "gone"
     /\ UNCHANGED inq /\ pc' \in {"serve", "exited"}
  \/ /\ c # None /\ cst[c] # "gone"
     /\ inq' = [inq EXCEPT ![c] = Append(@, msg)] /\ pc' = "serve"

-----------------------------------------------------------------------------
(* The filter wheel.                                                       *)

\* USBCFWCurrentPosition(): the first position reported since the last look;
\* the rest of the buffer is flushed.
Reported == IF rbuf = <<>> THEN pos ELSE Head(rbuf)

\* RefreshCFWPosition() then CompleteCFWInit(): position, moves under way and
\* resting slot once the wheel is initialised.
CfwReady ==
  IF initDone THEN {[pos |-> Reported, turning |-> turning, at |-> at]}
  ELSE {[pos |-> 0, turning |-> <<>>, at |-> 0]}
       \cup {w \in {[pos |-> 0, turning |-> <<0>>, at |-> at]} : "init" \in Faults}

\* USBMoveFilterWheel(p).  A wheel told to go where it rests answers before
\* the next tick, unless it is slow.
USBMoveFilterWheel(w, p) ==
  /\ at' = w.at
  /\ \/ /\ w.turning = <<>> /\ w.at = p
        /\ turning' = <<>> /\ rbuf' = <<p>>
     \/ /\ w.turning # <<>> \/ w.at # p \/ "wheel" \in Faults
        /\ turning' = Append(w.turning, p) /\ rbuf' = <<>>

\* Mutant: no special case for the first slot.
M_StagingPos(desired) == desired - 1

\* The slot next to the desired one, from which it is always approached.
StagingPos(desired) == IF desired = 0 THEN 1 ELSE desired - 1

\* ProcessAll(), case ExposureRequested, wheel not in the desired position.
RotateWheel(e, w) ==
  /\ IF e.tgt = 0
     THEN /\ exp' = [e EXCEPT !.first = StagingPos(e.desired)]
          /\ USBMoveFilterWheel(w, StagingPos(e.desired))
     ELSE /\ exp' = e
          /\ USBMoveFilterWheel(w, e.desired)
  /\ fcount' = CFW_MAX_TIMEOUTS
  /\ SetTimeout("FilterTimeout")
  /\ pc' = "serve"
  /\ UNCHANGED <<ecount, sensor, inq>>

-----------------------------------------------------------------------------
(* The exposure.                                                           *)

\* ReadoutExposure(): Idle first, then the image goes to UserSocketNumber.
\* The FILTER keyword names the slot in CurrentCFWPosition.  A frame of the
\* wrong depth is dropped; a FITS call that fails ends the server, printerror().
ReadoutExposure(e, light, n, x, w) ==
  /\ exp' = [e EXCEPT !.state = "Idle"]
  /\ ecount' = n
  /\ sensor' = NoLight
  /\ NoTimeout(x)
  /\ \/ Send(e.sock, [kind |-> "image", id |-> light.id, light |-> light.light,
                      label |-> w.pos, sharp |-> light.sharp /\ w.turning = <<>>])
     \/ "sdk" \in Faults /\ UNCHANGED inq /\ pc' \in {"serve", "exited"}

\* ExposureTimeout(): n is what timeout_counter holds.  Without the camera
\* fault the camera is ready before the last poll.
ExposureTimeout(e, light, n, x, w) ==
  \/ /\ exp' = [e EXCEPT !.state = "ReadyForExposureToEnd"]
     /\ ecount' = n - 1
     /\ sensor' = light
     /\ \/ n > 1 /\ SetTimeout("ExposureTimeoutWithLock")
        \/ n <= 1 /\ "camera" \in Faults /\ NoTimeout(x)
     /\ UNCHANGED inq /\ pc' = "serve"
  \/ ReadoutExposure(e, light, n, x, w)

\* StartExposure() and, where it succeeds, ScheduleExposureTimeout().
StartExposure(e, x, w) ==
  LET open == [e EXCEPT !.state = "Exposing"]
      light == [id |-> e.id, light |-> w.at, sharp |-> w.turning = <<>>]
  IN
  \/ /\ "sdk" \in Faults                 \* a parameter is refused
     /\ exp' = [e EXCEPT !.state = "ReadyForExposure"]
     /\ NoTimeout(x) /\ pc' = "serve" /\ UNCHANGED <<ecount, sensor, inq>>
  \/ /\ "sdk" \in Faults                 \* ExpQHYCCDSingleFrame() fails
     /\ exp' = open
     /\ NoTimeout(x) /\ pc' = "serve" /\ UNCHANGED <<ecount, sensor, inq>>
  \/ /\ ~e.short
     /\ exp' = open /\ ecount' = EXP_MAX_TIMEOUTS /\ sensor' = light
     /\ SetTimeout("ExposureTimeoutWithLock") /\ pc' = "serve" /\ UNCHANGED inq
  \/ /\ e.short
     /\ ExposureTimeout(open, light, EXP_MAX_TIMEOUTS, x, w)

\* No move is commanded in this step.
WheelLeft(w) == turning' = w.turning /\ at' = w.at /\ rbuf' = <<>>

\* ProcessAll() for each state it can be called in.
ProcessAll(e, x, w) ==
  \/ /\ e.state = "ExposureRequested" /\ e.desired # w.pos
     /\ RotateWheel(e, w)
  \/ /\ \/ e.state = "ExposureRequested" /\ e.desired = w.pos
        \/ e.state = "ReadyForExposure"
     /\ StartExposure(e, x, w) /\ WheelLeft(w) /\ UNCHANGED fcount
  \/ /\ e.state \in {"Idle", "Exposing", "ReadyForExposureToEnd"}
     /\ exp' = e /\ NoTimeout(x) /\ pc' = "serve" /\ WheelLeft(w)
     /\ UNCHANGED <<fcount, ecount, sensor, inq>>

-----------------------------------------------------------------------------
(* The timeout procedures.                                                 *)

Now == [pos |-> Reported, turning |-> turning, at |-> at]

\* Mutants: the position is not compared.
M_InStaging == exp.tgt = 0
M_InPlace == exp.tgt = 1

InStaging == exp.tgt = 0 /\ Reported = exp.first
InPlace == exp.tgt = 1 /\ Reported = exp.desired

\* Without the wheel fault the wheel answers within CFW_MAX_TIMEOUTS ticks.
FilterTimeout ==
  /\ pos' = Reported /\ UNCHANGED initDone
  /\ \/ /\ InStaging
        /\ ProcessAll([exp EXCEPT !.tgt = 1], FALSE, Now)
     \/ /\ InPlace
        /\ ProcessAll([exp EXCEPT !.tgt = 0, !.state = "ReadyForExposure"],
                      FALSE, Now)
     \/ /\ ~InStaging /\ ~InPlace
        /\ fcount' = fcount - 1
        /\ \/ fcount > 1 /\ SetTimeout("FilterTimeout") /\ pc' = "serve"
           \/ /\ fcount <= 1 /\ (turning = <<>> \/ "wheel" \in Faults)
              /\ NoTimeout(FALSE) /\ pc' = "exited"       \* FatalTimeout()
        /\ WheelLeft(Now)
        /\ UNCHANGED <<exp, ecount, sensor, inq>>

DispatchTimeout ==
  /\ pc = "woken"
  /\ \/ /\ ~expired
        /\ pc' = "serve"
        /\ UNCHANGED <<timerVars, exp, fcount, ecount, wheelVars, sensor, inq>>
     \/ /\ expired /\ handler = "FilterTimeout"
        /\ FilterTimeout
     \/ /\ expired /\ handler = "ExposureTimeoutWithLock"
        /\ ExposureTimeout(exp, sensor, ecount, FALSE, [Now EXCEPT !.pos = pos])
        /\ UNCHANGED <<fcount, wheelVars>>
  /\ UNCHANGED <<ready, netVars, clientVars>>

-----------------------------------------------------------------------------
(* The messages.                                                           *)

\* handle_expose_message(): overwrites MainExposure whatever its state, all
\* but FilterWheelTgtNum and FirstFilterWheelPos.
HandleExpose(fd, m) ==
  \E w \in CfwReady :
    /\ pos' = w.pos /\ initDone' = TRUE
    /\ ProcessAll([exp EXCEPT !.state = "ExposureRequested", !.desired = m.filter,
                             !.sock = fd, !.id = m.id, !.short = m.short],
                  expired, w)

\* Mutant: the answer of the wheel is consumed and not kept.
M_HandleStatus(fd) ==
  /\ pos' = pos /\ rbuf' = <<>>
  /\ Send(fd, [kind |-> "status"])
  /\ NoTimeout(expired)
  /\ UNCHANGED <<exp, fcount, ecount, initDone, turning, at, sensor>>

\* CMD_STATUS, or CMD_COOLER with a query, which is what CCD_cooler_data() sends:
\* send_status_message() refreshes the position of the wheel.
HandleStatus(fd) ==
  /\ pos' = Reported /\ rbuf' = <<>>
  /\ Send(fd, [kind |-> "status"])
  /\ NoTimeout(expired)
  /\ UNCHANGED <<exp, fcount, ecount, initDone, turning, at, sensor>>

-----------------------------------------------------------------------------
(* ProcessMessages().                                                      *)

Readable(j) ==
  LET c == PeerOf(slot[j]) IN
  /\ slot[j] # 0 /\ c # None
  /\ out[c] # <<>> \/ cst[c] = "gone"

ReadySet == {j \in Slots : Readable(j)}
            \cup (IF backlog = <<>> THEN {} ELSE {Listen})

\* Mutant: the flag is cleared where select() is skipped.
M_LoopTop ==
  /\ pc = "top"
  /\ pc' = IF expired THEN "woken" ELSE "calling"
  /\ ready' = {} /\ expired' = FALSE
  /\ UNCHANGED <<armed, handler, exp, fcount, ecount, wheelVars, sensor, netVars,
                 clientVars, inq>>

\* The test of timeout_expired that decides whether select() is called.
LoopTop ==
  /\ pc = "top"
  /\ pc' = IF expired THEN "woken" ELSE "calling"
  /\ ready' = {}
  /\ UNCHANGED <<timerVars, exp, fcount, ecount, wheelVars, sensor, netVars,
                 clientVars, inq>>

SelectBlocks ==
  /\ pc = "calling" /\ ReadySet = {}
  /\ pc' = "blocked"
  /\ UNCHANGED <<ready, timerVars, exp, fcount, ecount, wheelVars, sensor, netVars,
                 clientVars, inq>>

SelectReturns ==
  /\ pc \in {"calling", "blocked"} /\ ReadySet # {}
  /\ pc' = "woken" /\ ready' = ReadySet
  /\ UNCHANGED <<timerVars, exp, fcount, ecount, wheelVars, sensor, netVars,
                 clientVars, inq>>

\* Connections are served in the order of the table, the listening socket last.
Turn(j) == pc = "serve" /\ j \in ready /\ \A k \in ready : j <= k

\* handle_message() on a connection with a message.
ServeMessage(j) ==
  LET c == PeerOf(slot[j]) IN
  /\ Turn(j) /\ j # Listen /\ out[c] # <<>>
  /\ \/ Head(out[c]) \in Expose /\ HandleExpose(slot[j], Head(out[c]))
     \/ Head(out[c]) \in Status /\ HandleStatus(slot[j])
  /\ out' = [out EXCEPT ![c] = Tail(@)]
  /\ ready' = ready \ {j}
  /\ UNCHANGED <<netVars, cst, asked, nreq>>

\* handle_message() on a connection whose client is gone: -1.
CloseConnection(j) ==
  /\ Turn(j) /\ j # Listen /\ out[PeerOf(slot[j])] = <<>>
  /\ peer' = [peer EXCEPT ![slot[j]] = None]
  /\ slot' = [slot EXCEPT ![j] = 0]
  /\ ready' = ready \ {j}
  /\ UNCHANGED <<pc, timerVars, exp, fcount, ecount, wheelVars, sensor, backlog,
                 clientVars, inq>>

\* Mutant: the search for a free slot does not stop at the first one.
M_AcceptConnection ==
  /\ Turn(Listen)
  /\ \E fd \in FDs :
       /\ peer[fd] = None /\ \A f \in FDs : peer[f] = None => fd <= f
       /\ peer' = [peer EXCEPT ![fd] = Head(backlog)]
       /\ slot' = [j \in Slots |-> IF slot[j] = 0 THEN fd ELSE slot[j]]
  /\ backlog' = Tail(backlog)
  /\ ready' = ready \ {Listen}
  /\ UNCHANGED <<pc, timerVars, exp, fcount, ecount, wheelVars, sensor, clientVars,
                 inq>>

\* accept() gives the lowest free descriptor.  With the table full it stays
\* open and is never looked at again.
AcceptConnection ==
  /\ Turn(Listen)
  /\ \E fd \in FDs :
       /\ peer[fd] = None /\ \A f \in FDs : peer[f] = None => fd <= f
       /\ peer' = [peer EXCEPT ![fd] = Head(backlog)]
       /\ \/ \E j \in Slots :
               /\ slot[j] = 0 /\ \A k \in Slots : slot[k] = 0 => j <= k
               /\ slot' = [slot EXCEPT ![j] = fd]
          \/ (\A j \in Slots : slot[j] # 0) /\ UNCHANGED slot
  /\ backlog' = Tail(backlog)
  /\ ready' = ready \ {Listen}
  /\ UNCHANGED <<pc, timerVars, exp, fcount, ecount, wheelVars, sensor, clientVars,
                 inq>>

LoopEnd ==
  /\ pc = "serve" /\ ready = {}
  /\ pc' = "top"
  /\ UNCHANGED <<ready, timerVars, exp, fcount, ecount, wheelVars, sensor, netVars,
                 clientVars, inq>>

\* sig_alarm_handler().  It ends select() only when select() is blocked.
Alarm ==
  /\ armed /\ pc # "exited"
  /\ armed' = FALSE /\ expired' = TRUE
  /\ IF pc = "blocked" THEN pc' = "woken" /\ ready' = {} ELSE UNCHANGED <<pc, ready>>
  /\ UNCHANGED <<handler, exp, fcount, ecount, wheelVars, sensor, netVars, clientVars,
                 inq>>

-----------------------------------------------------------------------------
(* The wheel and the clients.                                              *)

\* The wheel ends a move and writes the digit of the slot it stopped in, which
\* USBCFW_read_thread() appends to readbuffer.
WheelDone ==
  /\ turning # <<>> /\ pc # "exited"
  /\ at' = Head(turning) /\ turning' = Tail(turning)
  /\ rbuf' = Append(rbuf, Head(turning))
  /\ sensor' = [sensor EXCEPT !.sharp = FALSE]
  /\ UNCHANGED <<pc, ready, timerVars, exp, fcount, ecount, pos, initDone, netVars,
                 clientVars, inq>>

ServerVars == <<pc, ready, timerVars, exp, fcount, ecount, wheelVars, sensor>>

Connect(c) ==
  /\ cst[c] = "new"
  /\ cst' = [cst EXCEPT ![c] = "idle"]
  /\ backlog' = Append(backlog, c)
  /\ UNCHANGED <<ServerVars, slot, peer, asked, out, nreq, inq>>

SendExpose(c, f, short) ==
  /\ cst[c] = "idle" /\ c \notin Pollers /\ nreq < MaxRequests
  /\ Coordinated => \A d \in Clients : cst[d] # "expose"
  /\ cst' = [cst EXCEPT ![c] = "expose"]
  /\ nreq' = nreq + 1
  /\ LET m == [id |-> nreq', filter |-> f, short |-> short] IN
     /\ asked' = [asked EXCEPT ![c] = m]
     /\ out' = [out EXCEPT ![c] = Append(@, m)]
  /\ UNCHANGED <<ServerVars, netVars, inq>>

SendStatus(c) ==
  /\ cst[c] = "idle"
  /\ cst' = [cst EXCEPT ![c] = "status"]
  /\ out' = [out EXCEPT ![c] = Append(@, [id |-> 0])]
  /\ UNCHANGED <<ServerVars, netVars, asked, nreq, inq>>

\* The client takes the next message on the connection for its answer.
Receive(c) ==
  /\ cst[c] \in {"expose", "status"} /\ inq[c] # <<>>
  /\ cst' = [cst EXCEPT ![c] = "idle"]
  /\ asked' = [asked EXCEPT ![c] = NoExpose]
  /\ inq' = [inq EXCEPT ![c] = Tail(@)]
  /\ UNCHANGED <<ServerVars, netVars, out, nreq>>

\* A client closes its connection, or is killed while it waits.
Leave(c) ==
  /\ \/ cst[c] = "idle" /\ c \notin Pollers
     \/ cst[c] \in {"expose", "status"} /\ "hangup" \in Faults
  /\ cst' = [cst EXCEPT ![c] = "gone"]
  /\ asked' = [asked EXCEPT ![c] = NoExpose]
  /\ inq' = [inq EXCEPT ![c] = <<>>]
  /\ UNCHANGED <<ServerVars, netVars, out, nreq>>

-----------------------------------------------------------------------------
(* The specification.                                                      *)

Server ==
  \/ LoopTop \/ SelectBlocks \/ SelectReturns \/ DispatchTimeout
  \/ \E j \in Slots : ServeMessage(j) \/ CloseConnection(j)
  \/ AcceptConnection \/ LoopEnd

ClientStep(c) ==
  \/ Connect(c) \/ SendStatus(c) \/ Receive(c) \/ Leave(c)
  \/ \E f \in Positions, short \in BOOLEAN : SendExpose(c, f, short)

Next ==
  \/ Server \/ Alarm \/ WheelDone
  \/ \E c \in Clients : ClientStep(c)

Spec == Init /\ [][Next]_vars

\* The server runs, timers fire, the wheel turns; a client reads its answer,
\* and a poller connects and asks.
Fairness ==
  /\ WF_vars(Server) /\ WF_vars(Alarm) /\ WF_vars(WheelDone)
  /\ \A c \in Clients : WF_vars(Connect(c)) /\ WF_vars(Receive(c))
  /\ \A c \in Pollers : WF_vars(SendStatus(c))

FairSpec == Spec /\ Fairness

-----------------------------------------------------------------------------
(* Properties.                                                             *)

ServerOK ==
  /\ pc \in Places
  /\ ready \subseteq Slots \cup {Listen}
  /\ expired \in BOOLEAN /\ armed \in BOOLEAN /\ handler \in Procedures
  /\ exp \in ExposureInfo
  /\ fcount \in Int /\ ecount \in Int

WheelOK ==
  /\ pos \in Positions \cup {-1} /\ initDone \in BOOLEAN
  /\ rbuf \in Seq(Positions) /\ turning \in Seq(Positions) /\ at \in Positions
  /\ sensor \in [id : Ids \cup {0}, light : Positions, sharp : BOOLEAN]

NetOK ==
  /\ slot \in [Slots -> FDs \cup {0}]
  /\ peer \in [FDs -> Clients \cup {None}]
  /\ backlog \in Seq(Clients)

ClientOK ==
  /\ cst \in [Clients -> {"new", "idle", "expose", "status", "gone"}]
  /\ asked \in [Clients -> Expose \cup {NoExpose}]
  /\ out \in [Clients -> Seq(Expose \cup Status)]
  /\ inq \in [Clients -> Seq(Image \cup StatusReply)]
  /\ nreq \in 0 .. MaxRequests

\* Every variable stays in its set.  In particular the slot number that
\* indexes InstalledFilters() for the FILTER keyword is a slot of the wheel,
\* never the initial -1 of current_position.
TypeOK == ServerOK /\ WheelOK /\ NetOK /\ ClientOK

\* A descriptor in the connection table is open and in one slot only, though
\* the kernel hands closed numbers out again: a message read from a slot is
\* always that of the client the slot was filled for.
OneOwner ==
  \A j \in Slots : slot[j] # 0 =>
    /\ peer[slot[j]] # None
    /\ \A k \in Slots : slot[k] = slot[j] => k = j

\* What the clients rely on: an image that arrives answers the EXPOSE its
\* reader waits for, was taken and labelled in the filter asked for, and the
\* wheel was at rest from the opening of the shutter to the readout.
RightImage ==
  \A c \in Clients : \A i \in DOMAIN inq[c] :
    LET m == inq[c][i] IN
    m.kind = "image" =>
      /\ cst[c] = "expose" /\ m.id = asked[c].id
      /\ m.light = asked[c].filter /\ m.label = asked[c].filter
      /\ m.sharp

\* The desired slot is always entered from the same neighbour: while the
\* second move is under way the wheel started it in FirstFilterWheelPos.
ApproachFromStaging ==
  exp.tgt = 1 /\ turning # <<>> =>
    /\ turning[Len(turning)] = exp.desired
    /\ at = exp.first

Pending == armed \/ expired

\* An exposure that is not over always has a timer, running or expired and
\* not yet dispatched, whatever messages arrive meanwhile: an EXPOSE that
\* overwrites the one in progress, a late alarm, a STATUS.
ClockNeverLost ==
  pc # "exited" /\ exp.state \in {"ExposureRequested", "Exposing",
                                  "ReadyForExposureToEnd"}
    => Pending

\* The "Logic error: ProcessAll() w/state==Exposing" of ProcessAll() cannot be
\* reached: a timer of the wheel never outlives the start of an exposure, even
\* when a second EXPOSE finds the wheel in place while it turns for the first.
NoLogicError ==
  pc # "exited" /\ Pending /\ handler = "FilterTimeout"
    => exp.state \in {"Idle", "ExposureRequested"}

\* ccd_message_handler.cc:863 writes the FILTER keyword with the comment
\* "Filter used": the label of every image is the slot the light came through.
LabelTruthful ==
  \A c \in Clients : \A i \in DOMAIN inq[c] :
    inq[c][i].kind = "image" => inq[c][i].label = inq[c][i].light

\* Every EXPOSE is answered, as long as some client asks for the status now
\* and then (see TimeoutDispatched).
RequestAnswered == \A c \in Clients : cst[c] = "expose" ~> cst[c] # "expose"

\* ccd_server.cc:48: "nonzero means need to dispatch TimeoutProcedure() from
\* the select() in the mail loop": an expired timer is dispatched.
TimeoutDispatched == expired ~> ~expired
=============================================================================
