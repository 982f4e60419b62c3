----------------------------- MODULE ScopeMount ------------------------------
(***************************************************************************)
(* The mount (GM2000) and the programs that move it: REMOTE_LIB/           *)
(* scope_api.cc of the programs, SCOPE_SERVER/scope_message_handler.cc of  *)
(* the server they share, and the line between server and mount.  The      *)
(* server has one thread and serves one message after the other.  What the *)
(* mount answers are bare characters: which command an answer belongs to   *)
(* is told only by their order.                                            *)
(***************************************************************************)
EXTENDS Integers, Sequences
Seqs == INSTANCE SequencesExt

CONSTANTS
  Movers,          \* programs that move the mount
  NoMover,
  MaxMoves,        \* bound: calls of all programs
  MaxPolls,        \* how often a park or an unpark looks (45)
  MaxLate,         \* bound: answers that are late
  ScopeFaults      \* bound: the sets of faults that may be met

\* late: an answer takes longer than the server waits for it;  refuse: the mount
\* may refuse a command;  ack: it answers the query of a resync.
ASSUME ScopeConstants ==
  /\ NoMover \notin Movers /\ MaxMoves \in Nat
  /\ MaxPolls \in Nat \ {0} /\ MaxLate \in Nat
  /\ ScopeFaults \subseteq SUBSET {"late", "refuse", "ack"}

VARIABLES
  sfaults,   \* the faults of this behaviour, chosen at the start
  scall,     \* the function each program has called
  swant,     \* the command it has sent last, or will send after a resync
  sconn,     \* its connection: "none", "asked", "resync", "answered"
  sreply,    \* the answer: characters, or Late
  sretry,    \* in_retry
  accepted,  \* whether the mount has taken the last goto, as it was told
  timer,     \* of a park or an unpark
  spc,       \* where the server is
  serving,   \* the program it serves
  orders_out,  \* external: the commands on their way to the mount
  line,        \* external: characters of the mount that were not read
  mount,       \* external: its status, target, goal and position
  moves,       \* bound: the calls so far
  returned,    \* history: the last call, if it has returned: <<program, function>>
  disturbed,   \* history: the call that goes on or returned last met another call,
               \* or answers of an earlier one, or an answer to it was late
  late         \* history: how many answers were late

programs == <<scall, swant, sconn, sreply, sretry, accepted, timer>>
scopeHistory == <<moves, returned, disturbed, late>>
scopeVars == <<sfaults, programs, spc, serving, orders_out, line, mount, scopeHistory>>

\* Characters: the digits, the end of a string, and any letter.
Hash == 10
Glyph == 11
Late == <<-1>>

TRACKING == 0
PARKING == 2
UNPARKING == 3
PARKED == 5
SLEWING == 6

Calls == {"MoveTo", "SmallMove", "PerformMeridianFlip", "ParkTelescope", "UnParkTelescope"}

ScopeInit ==
  /\ sfaults \in ScopeFaults
  /\ scall = [p \in Movers |-> "none"] /\ swant = [p \in Movers |-> "Gstat"]
  /\ sconn = [p \in Movers |-> "none"] /\ sreply = [p \in Movers |-> <<>>]
  /\ sretry = [p \in Movers |-> FALSE] /\ accepted = [p \in Movers |-> FALSE]
  /\ timer = [p \in Movers |-> 0]
  /\ spc = "select" /\ serving = NoMover
  /\ orders_out = <<>> /\ line = <<>>
  /\ mount = [status |-> TRACKING, ra |-> NoMover, dec |-> NoMover,
              goal |-> NoMover, at |-> NoMover]
  /\ moves = 0 /\ returned = <<>> /\ disturbed = FALSE /\ late = 0

-----------------------------------------------------------------------------
(* A program: scope_api.cc.                                                *)

\* scope_message(): the command c is sent.
Ask(p, c) == swant' = [swant EXCEPT ![p] = c] /\ sconn' = [sconn EXCEPT ![p] = "asked"]

\* ResyncInterface(), and then the command c.
ResyncThen(p, c) == swant' = [swant EXCEPT ![p] = c] /\ sconn' = [sconn EXCEPT ![p] = "resync"]

CallReturns(p) ==
  /\ scall' = [scall EXCEPT ![p] = "none"] /\ sconn' = [sconn EXCEPT ![p] = "none"]
  /\ returned' = <<p, scall[p]>>
  /\ UNCHANGED swant

FirstCommand(f) ==
  CASE f = "MoveTo" -> "Sr" [] f = "SmallMove" -> "pS" [] f = "PerformMeridianFlip" -> "FLIP"
    [] f = "ParkTelescope" -> "hP" [] f = "UnParkTelescope" -> "PO"

\* Bound: the calls of two programs cross where there are no faults.
CallScope(p, f) ==
  /\ scall[p] = "none" /\ moves < MaxMoves
  /\ sfaults = {} \/ \A q \in Movers : scall[q] = "none"
  /\ scall' = [scall EXCEPT ![p] = f]
  /\ Ask(p, FirstCommand(f))
  /\ sretry' = [sretry EXCEPT ![p] = FALSE] /\ accepted' = [accepted EXCEPT ![p] = FALSE]
  /\ timer' = [timer EXCEPT ![p] = 0]
  /\ returned' = <<>> /\ moves' = moves + 1
  /\ disturbed' = (line # <<>> \/ orders_out # <<>> \/ \E q \in Movers \ {p} : scall[q] # "none")
  /\ UNCHANGED <<sfaults, sreply, spc, serving, orders_out, line, mount, late>>

\* SetTargetPosition(): a timeout ends MoveTo(), whose result its callers do not
\* look at before they wait.  Another answer than 1 is followed by a resync and,
\* the first time, by another attempt at both coordinates.
GotTarget(p) ==
  LET next == IF swant[p] = "Sr" THEN "Sd" ELSE "MS" IN
  /\ sconn[p] = "answered" /\ swant[p] \in {"Sr", "Sd"}
  /\ CASE sreply[p] = Late -> Ask(p, "Gstat") /\ UNCHANGED sretry
       [] sreply[p] = <<1>> ->
            /\ Ask(p, next)
            /\ sretry' = [sretry EXCEPT ![p] = IF next = "MS" THEN FALSE ELSE @]
       [] OTHER ->
            /\ ResyncThen(p, IF sretry[p] THEN next ELSE "Sr")
            /\ sretry' = [sretry EXCEPT ![p] = ~@ \/ next # "MS"]
  /\ UNCHANGED <<sfaults, scall, sreply, accepted, timer, spc, serving, orders_out, line,
                 mount, scopeHistory>>

\* The goto: refused once, it is tried again; refused twice, MoveTo() returns 0.
GotGoTo(p) ==
  /\ sconn[p] = "answered" /\ swant[p] = "MS"
  /\ CASE Head(sreply[p]) \in {0, -1} -> Ask(p, "Gstat") /\ UNCHANGED sretry
       [] OTHER ->
            /\ ResyncThen(p, IF sretry[p] THEN "Gstat" ELSE "MS")
            /\ sretry' = [sretry EXCEPT ![p] = TRUE]
  /\ accepted' = [accepted EXCEPT ![p] = Head(sreply[p]) = 0]
  /\ UNCHANGED <<sfaults, scall, sreply, timer, spc, serving, orders_out, line, mount,
                 scopeHistory>>

\* dec_axis_is_flipped(), with which SmallMove() begins.
GotPierSide(p) ==
  /\ sconn[p] = "answered" /\ swant[p] = "pS"
  /\ IF Head(sreply[p]) = Glyph THEN Ask(p, "NUDGE") ELSE ResyncThen(p, "NUDGE")
  /\ UNCHANGED <<sfaults, scall, sreply, sretry, accepted, timer, spc, serving, orders_out,
                 line, mount, scopeHistory>>

\* SmallMove(): a timeout ends it, a refusal is only printed.
GotNudge(p) ==
  /\ sconn[p] = "answered" /\ swant[p] = "NUDGE"
  /\ IF sreply[p] = Late THEN CallReturns(p)
     ELSE Ask(p, "Gstat") /\ UNCHANGED <<scall, returned>>
  /\ UNCHANGED <<sfaults, sreply, sretry, accepted, timer, spc, serving, orders_out, line,
                 mount, moves, disturbed, late>>

\* PerformMeridianFlip().
GotFlip(p) ==
  /\ sconn[p] = "answered" /\ swant[p] = "FLIP"
  /\ IF sreply[p] # <<1>> THEN CallReturns(p)
     ELSE Ask(p, "Gstat") /\ UNCHANGED <<scall, returned>>
  /\ UNCHANGED <<sfaults, sreply, sretry, accepted, timer, spc, serving, orders_out, line,
                 mount, moves, disturbed, late>>

\* What sscanf("%d") makes of an answer; there may be no number.
Digits(text) ==
  Seqs!SelectInSeq(text, LAMBDA c : c \notin 0 .. 9) - 1
HasNumber(text) == text # <<>> /\ Digits(text) # 0
Number(text) == Seqs!FoldLeft(LAMBDA n, c : 10 * n + c, 0,
                         IF Digits(text) < 0 THEN text ELSE SubSeq(text, 1, Digits(text)))

\* GetMountStatus(), where a timeout counts as a status of 0: the loops of
\* SlewInProgress() and of the park and the unpark.
Status(p) == IF sreply[p] = Late THEN TRACKING ELSE Number(sreply[p])

\* Mutant: the status "slewing" does not count as moving.
M_GotStatus(p) ==
  /\ sconn[p] = "answered" /\ swant[p] = "Gstat"
  /\ scall[p] \notin {"ParkTelescope", "UnParkTelescope"}
  /\ IF sreply[p] # Late /\ ~HasNumber(sreply[p])
     THEN ResyncThen(p, "Gstat") /\ UNCHANGED <<scall, returned>>
     ELSE IF Status(p) \in {PARKING, UNPARKING, 4}
     THEN Ask(p, "Gstat") /\ UNCHANGED <<scall, returned>>
     ELSE CallReturns(p)
  /\ UNCHANGED <<sfaults, sreply, sretry, accepted, timer, spc, serving, orders_out, line,
                 mount, moves, disturbed, late>>

GotStatus(p) ==
  /\ sconn[p] = "answered" /\ swant[p] = "Gstat"
  /\ scall[p] \notin {"ParkTelescope", "UnParkTelescope"}
  /\ IF sreply[p] # Late /\ ~HasNumber(sreply[p])
     THEN ResyncThen(p, "Gstat") /\ UNCHANGED <<scall, returned>>
     ELSE IF Status(p) \in {PARKING, UNPARKING, 4, SLEWING}
     THEN Ask(p, "Gstat") /\ UNCHANGED <<scall, returned>>
     ELSE CallReturns(p)
  /\ UNCHANGED <<sfaults, sreply, sretry, accepted, timer, spc, serving, orders_out, line,
                 mount, moves, disturbed, late>>

\* The command is sent, and the status asked for each second.
GotParkStatus(p) ==
  LET going == IF scall[p] = "ParkTelescope" THEN PARKING ELSE UNPARKING IN
  /\ sconn[p] = "answered" /\ scall[p] \in {"ParkTelescope", "UnParkTelescope"}
  /\ IF swant[p] # "Gstat" \/ (timer[p] < MaxPolls /\ sreply[p] # Late
                               /\ HasNumber(sreply[p]) /\ Status(p) = going)
     THEN Ask(p, "Gstat") /\ UNCHANGED <<scall, returned>>
     ELSE CallReturns(p)
  /\ timer' = [timer EXCEPT ![p] = @ + 1]
  /\ UNCHANGED <<sfaults, sreply, sretry, accepted, spc, serving, orders_out, line, mount,
                 moves, disturbed, late>>

-----------------------------------------------------------------------------
(* The server: scope_message_handler.cc.                                   *)

ToMount(p, c) == orders_out' = Append(orders_out, [from |-> p, command |-> c])

AnswerProgram(p, text) ==
  /\ sreply' = [sreply EXCEPT ![p] = text] /\ sconn' = [sconn EXCEPT ![p] = "answered"]
  /\ spc' = "select" /\ serving' = NoMover

\* handle_scope_message(): the command is written; some have no answer.
HandleScopeMessage(p) ==
  /\ spc = "select" /\ sconn[p] = "asked"
  /\ ToMount(p, swant[p])
  /\ IF swant[p] \in {"hP", "PO"} THEN AnswerProgram(p, <<>>)
     ELSE spc' = "await" /\ serving' = p /\ UNCHANGED <<sreply, sconn>>
  /\ UNCHANGED <<sfaults, scall, swant, sretry, accepted, timer, line, mount, scopeHistory>>

\* Mutant: a mixed answer is read as a string, whatever it begins with.
M_ToRead(c) ==
  IF c \in {"Sr", "Sd", "FLIP"} /\ line # <<>> THEN 1
  ELSE Seqs!SelectInSeq(line, LAMBDA x : x = Hash)

\* How many characters are read for the command c: one, a string to its end, or,
\* in a mixed answer, a string unless the first is 0.  0: more must come.
ToRead(c) ==
  LET string == Seqs!SelectInSeq(line, LAMBDA x : x = Hash) IN
  IF line = <<>> THEN 0 ELSE
  CASE c \in {"Sr", "Sd", "FLIP"} -> 1
    [] c \in {"MS", "NUDGE"} -> IF Head(line) = 0 THEN 1 ELSE
         LET rest == Seqs!SelectInSeq(Tail(line), LAMBDA x : x = Hash) IN
           IF rest = 0 THEN 0 ELSE rest + 1
    [] c \in {"Gstat", "pS"} -> string

\* The read() of a string has no timeout.
ReadAnswer ==
  /\ spc = "await" /\ ToRead(swant[serving]) > 0
  /\ AnswerProgram(serving, SubSeq(line, 1, ToRead(swant[serving])))
  /\ line' = SubSeq(line, ToRead(swant[serving]) + 1, Len(line))
  /\ UNCHANGED <<sfaults, scall, swant, sretry, accepted, timer, orders_out, mount,
                 scopeHistory>>

\* select() times out: the answer will stay in the line.
AnswerLate ==
  /\ spc = "await" /\ line = <<>>
  /\ "late" \in sfaults /\ late < MaxLate
  /\ late' = late + 1 /\ disturbed' = TRUE
  /\ AnswerProgram(serving, Late)
  /\ UNCHANGED <<sfaults, scall, swant, sretry, accepted, timer, orders_out, line, mount,
                 moves, returned>>

\* handle_resync_message(): two queries, and after each what is in the line is
\* flushed as soon as there is anything.
HandleResync(p) ==
  /\ spc = "select" /\ sconn[p] = "resync"
  /\ ToMount(p, "ACK")
  /\ spc' = "flush" /\ serving' = p
  /\ UNCHANGED <<sfaults, programs, line, mount, scopeHistory>>

FlushScopeData ==
  /\ spc \in {"flush", "flush again"}
  /\ line # <<>> \/ orders_out = <<>>
  /\ line' = <<>>
  /\ IF spc = "flush"
     THEN ToMount(serving, "ACK") /\ spc' = "flush again" /\ UNCHANGED <<serving, sconn>>
     ELSE /\ sconn' = [sconn EXCEPT ![serving] = "asked"]
          /\ spc' = "select" /\ serving' = NoMover /\ UNCHANGED orders_out
  /\ UNCHANGED <<sfaults, scall, swant, sreply, sretry, accepted, timer, mount, scopeHistory>>

-----------------------------------------------------------------------------
(* The mount.                                                              *)

Says(text) == line' = line \o text
Refusal == <<1, Glyph, Hash>>

\* It takes the next command, and answers it.
MountExecutes ==
  /\ orders_out # <<>>
  /\ orders_out' = Tail(orders_out)
  /\ LET c == Head(orders_out).command
         p == Head(orders_out).from
         Moves(status, goal) == mount' = [mount EXCEPT !.status = status, !.goal = goal]
     IN
     \/ c = "Sr" /\ Says(<<1>>) /\ mount' = [mount EXCEPT !.ra = p]
     \/ c = "Sd" /\ Says(<<1>>) /\ mount' = [mount EXCEPT !.dec = p]
     \/ /\ c = "MS" /\ mount.status \notin {PARKED, PARKING} /\ mount.ra = mount.dec
        /\ Says(<<0>>) /\ Moves(SLEWING, mount.ra)
     \/ /\ c = "MS" /\ mount.status \notin {PARKED, PARKING} /\ mount.ra # mount.dec
        /\ Says(<<0>>) /\ Moves(SLEWING, NoMover)
     \/ /\ c = "NUDGE" /\ mount.status \notin {PARKED, PARKING}
        /\ Says(<<0>>) /\ Moves(SLEWING, mount.at)
     \/ /\ c \in {"MS", "NUDGE"} /\ ("refuse" \in sfaults \/ mount.status \in {PARKED, PARKING})
        /\ Says(Refusal) /\ UNCHANGED mount
     \/ /\ c = "FLIP" /\ mount.status \notin {PARKED, PARKING}
        /\ Says(<<1>>) /\ Moves(SLEWING, mount.at)
     \/ /\ c = "FLIP" /\ ("refuse" \in sfaults \/ mount.status \in {PARKED, PARKING})
        /\ Says(<<0>>) /\ UNCHANGED mount
     \/ c = "pS" /\ Says(<<Glyph, Hash>>) /\ UNCHANGED mount
     \/ c = "Gstat" /\ Says(<<mount.status, Hash>>) /\ UNCHANGED mount
     \/ c = "hP" /\ mount' = [mount EXCEPT !.status = PARKING] /\ UNCHANGED line
     \/ /\ c = "PO" /\ UNCHANGED line
        /\ mount' = [mount EXCEPT !.status = IF @ = PARKED THEN UNPARKING ELSE @]
     \/ /\ c = "ACK" /\ UNCHANGED mount
        /\ IF "ack" \in sfaults THEN Says(<<Glyph>>) ELSE UNCHANGED line
  /\ UNCHANGED <<sfaults, programs, spc, serving, scopeHistory>>

MountArrives ==
  /\ mount.status \in {SLEWING, PARKING, UNPARKING}
  /\ mount' = [mount EXCEPT
       !.status = IF @ = PARKING THEN PARKED ELSE TRACKING,
       !.at = IF mount.status = SLEWING THEN mount.goal ELSE NoMover]
  /\ UNCHANGED <<sfaults, programs, spc, serving, orders_out, line, scopeHistory>>

-----------------------------------------------------------------------------
GotAnswer(p) ==
  \/ GotTarget(p) \/ GotGoTo(p) \/ GotPierSide(p) \/ GotNudge(p) \/ GotFlip(p)
  \/ GotStatus(p) \/ GotParkStatus(p)

\* What a program, the server and the mount do for the calls that were made.
ScopeStep ==
  \/ \E p \in Movers : GotAnswer(p) \/ HandleScopeMessage(p) \/ HandleResync(p)
  \/ ReadAnswer \/ FlushScopeData \/ MountExecutes

ScopeNext ==
  \/ \E p \in Movers, f \in Calls : CallScope(p, f)
  \/ ScopeStep \/ AnswerLate \/ MountArrives

\* The calls that were made go on, whoever takes the next step, and the mount
\* arrives in the end, however often it is asked meanwhile.
ScopeFairSpec ==
  /\ ScopeInit /\ [][ScopeNext]_scopeVars
  /\ WF_scopeVars(ScopeStep) /\ WF_scopeVars(MountArrives)

-----------------------------------------------------------------------------
(* Properties.                                                             *)

\* When MoveTo() and the wait that follows it end, a mount that took the goto
\* stands still where this program wanted it: refusals, repeated coordinates,
\* resyncs and what earlier calls did do not end the wait early or leave half of
\* another target.  Excepted is a call that was disturbed, after which the mount
\* may still slew or stand elsewhere: an answer to it was late, and a late status
\* is given by GetMountStatus() as 0; the answer of an earlier command was still
\* to come or in the line when it began; or another program called meanwhile, for
\* targets and slews are the mount's and not the program's.
GotoArrives ==
  \A p \in Movers :
    returned = <<p, "MoveTo">> /\ accepted[p] /\ ~disturbed
    => mount.status # SLEWING /\ mount.at = p

\* Every call ends, as long as no answer was late.  A late answer can block the
\* server for all programs: with one digit too many in the line, the answer to a
\* goto looks like the begin of a string, and the read() of a string waits for
\* an end that does not come.
EveryCallReturns ==
  \A p \in Movers : scall[p] # "none" ~> scall[p] = "none" \/ late > 0
=============================================================================
