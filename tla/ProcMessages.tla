---------------------------- MODULE ProcMessages -----------------------------
(***************************************************************************)
(* Messages between programs: SESSION_LIB/proc_messages.cc.  A table of    *)
(* messages and a table of program names in shared memory, under one       *)
(* mutex.  notify sends; strategies, schedules, time sequences and focus   *)
(* runs receive.  The body of each call is split where it reads and where  *)
(* it writes, so that two calls could meet inside if the mutex let them.   *)
(***************************************************************************)
EXTENDS Integers, FiniteSets, Sequences

CONSTANTS
  Programs,      \* names of programs
  Callers,       \* processes
  NoCaller,      \* the mutex is free
  MessageIds,    \* SM_ID_Abort, SM_ID_Pause, SM_ID_Resume
  MAX_MESSAGES, MAX_NUM_PROCS,
  MaxCalls       \* bound: calls of the two functions

ASSUME ProcMessagesConstants ==
  /\ NoCaller \notin Callers
  /\ MessageIds \subseteq Int /\ MaxCalls \in Nat
  /\ MAX_MESSAGES \in Nat /\ MAX_NUM_PROCS \in Nat

MessageSlots == 1 .. MAX_MESSAGES

VARIABLES
  protect_lock,   \* the process that holds the mutex
  all_messages,   \* the messages; target 0: not in use
  all_proc_name,  \* the names, in the order they were created
  mpc,            \* where each process is
  request,        \* what it asked for
  first_message,  \* the slot it found, 0: none
  answer,         \* what its last call returned
  calls           \* how many calls there have been

msgVars == <<protect_lock, all_messages, all_proc_name, mpc, request, first_message,
             answer, calls>>

NotInUse == [target |-> 0, id |-> 0]
NoRequest == [call |-> "none"]

MsgInit ==
  /\ protect_lock = NoCaller
  /\ all_messages = [i \in MessageSlots |-> NotInUse]
  /\ all_proc_name = <<>>
  /\ mpc = [p \in Callers |-> "idle"]
  /\ request = [p \in Callers |-> NoRequest]
  /\ first_message = [p \in Callers |-> 0]
  /\ answer = [p \in Callers |-> [call |-> "none"]]
  /\ calls = 0

-----------------------------------------------------------------------------
\* proc_name_to_index().
Known(n) == \E i \in DOMAIN all_proc_name : all_proc_name[i] = n
IndexOf(names, n) ==
  CHOOSE i \in DOMAIN names : names[i] = n /\ \A k \in 1 .. i - 1 : names[k] # n
NamesFull == Len(all_proc_name) = MAX_NUM_PROCS

\* The first slot of a set of slots, or none.
FirstSlot(S) == IF S = {} THEN 0 ELSE CHOOSE i \in S : \A k \in S : i <= k

FreeSlots == {i \in MessageSlots : all_messages[i].target = 0}
SlotsOf(index) == {i \in MessageSlots : all_messages[i].target = index}

\* The mutex is given back and the call returns; its locals are gone.
ReturnFrom(p, ret, id) ==
  /\ protect_lock' = NoCaller
  /\ mpc' = [mpc EXCEPT ![p] = "idle"]
  /\ request' = [request EXCEPT ![p] = NoRequest]
  /\ first_message' = [first_message EXCEPT ![p] = 0]
  /\ answer' = [answer EXCEPT ![p] = [call |-> request[p].call, ret |-> ret, id |-> id]]

CallSendMessage(p, n, k) ==
  /\ mpc[p] = "idle" /\ calls < MaxCalls
  /\ request' = [request EXCEPT ![p] = [call |-> "SendMessage", name |-> n, id |-> k]]
  /\ mpc' = [mpc EXCEPT ![p] = "lock"]
  /\ calls' = calls + 1
  /\ UNCHANGED <<protect_lock, all_messages, all_proc_name, first_message, answer>>

CallReceiveMessage(p, n) ==
  /\ mpc[p] = "idle" /\ calls < MaxCalls
  /\ request' = [request EXCEPT ![p] = [call |-> "ReceiveMessage", name |-> n, id |-> 0]]
  /\ mpc' = [mpc EXCEPT ![p] = "lock"]
  /\ calls' = calls + 1
  /\ UNCHANGED <<protect_lock, all_messages, all_proc_name, first_message, answer>>

\* Mutant: the mutex does not exclude.
M_Lock(p) ==
  /\ mpc[p] = "lock"
  /\ protect_lock' = p
  /\ mpc' = [mpc EXCEPT ![p] = "search"]
  /\ UNCHANGED <<all_messages, all_proc_name, request, first_message, answer, calls>>

\* pthread_mutex_lock() of a free mutex.
Lock(p) ==
  /\ mpc[p] = "lock" /\ protect_lock = NoCaller
  /\ protect_lock' = p
  /\ mpc' = [mpc EXCEPT ![p] = "search"]
  /\ UNCHANGED <<all_messages, all_proc_name, request, first_message, answer, calls>>

\* The mutex is held.  It was never made PTHREAD_PROCESS_SHARED, so that an
\* unlock in another process need not wake this one: what makes it try again
\* is a signal, or the unlock where the library's wake-up reaches it.
Contend(p) ==
  /\ mpc[p] = "lock" /\ protect_lock # NoCaller
  /\ mpc' = [mpc EXCEPT ![p] = "asleep"]
  /\ UNCHANGED <<protect_lock, all_messages, all_proc_name, request, first_message,
                 answer, calls>>

Woken(p) ==
  /\ mpc[p] = "asleep"
  /\ mpc' = [mpc EXCEPT ![p] = "lock"]
  /\ UNCHANGED <<protect_lock, all_messages, all_proc_name, request, first_message,
                 answer, calls>>

\* exit(-2), with the mutex held.
NameTableFull(p) ==
  /\ mpc[p] = "search" /\ ~Known(request[p].name) /\ NamesFull
  /\ mpc' = [mpc EXCEPT ![p] = "exited"]
  /\ UNCHANGED <<protect_lock, all_messages, all_proc_name, request, first_message,
                 answer, calls>>

-----------------------------------------------------------------------------
(* SendMessage().                                                          *)

NoSuchProcess(p) ==
  /\ mpc[p] = "search" /\ request[p].call = "SendMessage"
  /\ ~Known(request[p].name) /\ ~NamesFull
  /\ ReturnFrom(p, -1, request[p].id)
  /\ UNCHANGED <<all_messages, all_proc_name, calls>>

QueueFull(p) ==
  /\ mpc[p] = "search" /\ request[p].call = "SendMessage"
  /\ Known(request[p].name) /\ FreeSlots = {}
  /\ ReturnFrom(p, -1, request[p].id)
  /\ UNCHANGED <<all_messages, all_proc_name, calls>>

FindFreeSlot(p) ==
  /\ mpc[p] = "search" /\ request[p].call = "SendMessage"
  /\ Known(request[p].name) /\ FreeSlots # {}
  /\ first_message' = [first_message EXCEPT ![p] = FirstSlot(FreeSlots)]
  /\ mpc' = [mpc EXCEPT ![p] = "fill"]
  /\ UNCHANGED <<protect_lock, all_messages, all_proc_name, request, answer, calls>>

FillSlot(p) ==
  /\ mpc[p] = "fill"
  /\ all_messages' = [all_messages EXCEPT ![first_message[p]] =
       [target |-> IndexOf(all_proc_name, request[p].name), id |-> request[p].id]]
  /\ ReturnFrom(p, 0, request[p].id)
  /\ UNCHANGED <<all_proc_name, calls>>

-----------------------------------------------------------------------------
(* ReceiveMessage().                                                       *)

\* Mutant: the name is created again by every call.
M_CreateName(p) ==
  /\ mpc[p] = "search" /\ request[p].call = "ReceiveMessage"
  /\ ~NamesFull
  /\ all_proc_name' = Append(all_proc_name, request[p].name)
  /\ mpc' = [mpc EXCEPT ![p] = "scan"]
  /\ UNCHANGED <<protect_lock, all_messages, request, first_message, answer, calls>>

\* CREATE_IF_NEEDED.
CreateName(p) ==
  /\ mpc[p] = "search" /\ request[p].call = "ReceiveMessage"
  /\ Known(request[p].name) \/ ~NamesFull
  /\ all_proc_name' = IF Known(request[p].name) THEN all_proc_name
                      ELSE Append(all_proc_name, request[p].name)
  /\ mpc' = [mpc EXCEPT ![p] = "scan"]
  /\ UNCHANGED <<protect_lock, all_messages, request, first_message, answer, calls>>

\* The first message to this program.
Scan(p) ==
  /\ mpc[p] = "scan"
  /\ first_message' = [first_message EXCEPT
       ![p] = FirstSlot(SlotsOf(IndexOf(all_proc_name, request[p].name)))]
  /\ mpc' = [mpc EXCEPT ![p] = "take"]
  /\ UNCHANGED <<protect_lock, all_messages, all_proc_name, request, answer, calls>>

\* It is taken out, and all of them, this one too, are counted.
Take(p) ==
  LET i == first_message[p]
      mine == SlotsOf(IndexOf(all_proc_name, request[p].name))
  IN
  /\ mpc[p] = "take"
  /\ all_messages' = [k \in MessageSlots |-> IF k = i THEN NotInUse ELSE all_messages[k]]
  /\ ReturnFrom(p, Cardinality(mine), IF i = 0 THEN 0 ELSE all_messages[i].id)
  /\ UNCHANGED <<all_proc_name, calls>>

-----------------------------------------------------------------------------
MsgStep(p) ==
  \/ Lock(p) \/ Contend(p) \/ Woken(p) \/ NameTableFull(p) \/ NoSuchProcess(p)
  \/ QueueFull(p) \/ FindFreeSlot(p) \/ FillSlot(p) \/ CreateName(p) \/ Scan(p) \/ Take(p)

MsgNext ==
  \E p \in Callers :
    \/ MsgStep(p)
    \/ \E n \in Programs : CallReceiveMessage(p, n)
    \/ \E n \in Programs, k \in MessageIds : CallSendMessage(p, n, k)

MsgSpec == MsgInit /\ [][MsgNext]_msgVars

-----------------------------------------------------------------------------
(* Properties.                                                             *)

MsgPlaces == {"idle", "lock", "asleep", "search", "fill", "scan", "take", "exited"}

\* The tables stay within their sizes, no name is listed twice, and every
\* message in use has the index of a name that exists.
MsgTablesOK ==
  /\ all_messages \in [MessageSlots -> [target : 0 .. Len(all_proc_name), id : MessageIds \cup {0}]]
  /\ all_proc_name \in Seq(Programs) /\ Len(all_proc_name) <= MAX_NUM_PROCS
  /\ \A i, k \in DOMAIN all_proc_name : all_proc_name[i] = all_proc_name[k] => i = k
  /\ mpc \in [Callers -> MsgPlaces]
  /\ first_message \in [Callers -> 0 .. MAX_MESSAGES]
  /\ protect_lock \in Callers \cup {NoCaller}

\* What the mailbox sees of the tables.
KnownNames == {all_proc_name[i] : i \in DOMAIN all_proc_name}
Letter(i) ==
  [place |-> i, to |-> all_proc_name[all_messages[i].target], id |-> all_messages[i].id]
Letters == {Letter(i) : i \in MessageSlots \ FreeSlots}

\* The shared memory is the mailbox the header describes: a message that was
\* kept is delivered once, to the program it was sent to and to no other, none
\* is overwritten or lost by calls that run at the same time, and the return
\* values of both calls say what happened.
Box == INSTANCE Mailbox WITH
  Ids <- MessageIds, Room <- MessageSlots, known <- KnownNames, mail <- Letters, reply <- answer
MsgImplements == Box!Spec
=============================================================================
