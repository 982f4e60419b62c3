-------------------------- MODULE ProcMessagesProofs ---------------------------
(***************************************************************************)
(* Proofs about ProcMessages: the tables stay well formed, and the shared  *)
(* memory implements Mailbox, for any number of processes, names and       *)
(* slots.                                                                  *)
(***************************************************************************)
EXTENDS ProcMessages, FiniteSetTheorems, WellFoundedInduction, TLAPS

\* Where a process is with the mutex in its hands.
Holding == {"search", "fill", "scan", "take", "exited"}

Message == [target : 0 .. Len(all_proc_name), id : MessageIds \cup {0}]

\* The mutex excludes.
Exclusion == \A p \in Callers : mpc[p] \in Holding => protect_lock = p

\* What a process asked for, where it has asked for something.
RequestsOK ==
  /\ request \in [Callers -> {NoRequest}
                    \cup [call : {"SendMessage"}, name : Programs, id : MessageIds]
                    \cup [call : {"ReceiveMessage"}, name : Programs, id : {0}]]
  /\ \A p \in Callers :
       /\ mpc[p] # "idle" => request[p] # NoRequest
       /\ mpc[p] = "fill" => request[p].call = "SendMessage"
       /\ mpc[p] \in {"scan", "take"} => request[p].call = "ReceiveMessage"

\* What it found in the tables is still there when it comes back to them.
FindingsOK ==
  \A p \in Callers :
    /\ mpc[p] \in {"fill", "scan", "take"} => Known(request[p].name)
    /\ mpc[p] = "fill" => first_message[p] \in FreeSlots
    /\ mpc[p] = "take" =>
         LET mine == SlotsOf(IndexOf(all_proc_name, request[p].name))
         IN IF mine = {} THEN first_message[p] = 0 ELSE first_message[p] \in mine

MsgInv == MsgTablesOK /\ Exclusion /\ RequestsOK /\ FindingsOK

-----------------------------------------------------------------------------
(* Lemmas about the two searches.                                          *)

\* FirstSlot() finds one of the slots, if there is one.
LEMMA FirstSlotFound ==
  ASSUME NEW S \in SUBSET MessageSlots
  PROVE  IF S = {} THEN FirstSlot(S) = 0 ELSE FirstSlot(S) \in S
<1>1. CASE S = {}
  BY <1>1 DEF FirstSlot
<1>2. CASE S # {}
  <2> DEFINE R == {ss \in Nat \X Nat : ss[1] < ss[2]}
  <2>1. S \subseteq Nat
    BY DEF MessageSlots
  <2>2. IsWellFoundedOn(R, Nat)
    BY NatLessThanWellFounded DEF OpToRel
  <2>3. PICK i \in S : \A k \in S : <<k, i>> \notin R
    BY <1>2, <2>1, <2>2, WFMin
  <2>4. \A k \in S : i <= k
    <3> TAKE k \in S
    <3>1. i \in Nat /\ k \in Nat /\ <<k, i>> \notin R
      BY <2>1, <2>3
    <3>2. k < i => <<k, i>> \in R
      BY <3>1
    <3> QED  BY <3>1, <3>2
  <2> QED  BY <1>2, <2>3, <2>4 DEF FirstSlot
<1> QED  BY <1>1, <1>2

\* The index of a name that is known is that of this name, and of no other.
LEMMA IndexFound ==
  ASSUME MsgTablesOK, NEW n, Known(n)
  PROVE  /\ IndexOf(all_proc_name, n) \in DOMAIN all_proc_name
         /\ all_proc_name[IndexOf(all_proc_name, n)] = n
         /\ \A i \in DOMAIN all_proc_name :
              all_proc_name[i] = n => i = IndexOf(all_proc_name, n)
<1>1. PICK i \in DOMAIN all_proc_name : all_proc_name[i] = n
  BY DEF Known
<1>2. DOMAIN all_proc_name = 1 .. Len(all_proc_name)
  BY DEF MsgTablesOK
<1>3. \A k \in 1 .. i - 1 : all_proc_name[k] # n
  BY <1>1, <1>2 DEF MsgTablesOK
<1>4. /\ IndexOf(all_proc_name, n) \in DOMAIN all_proc_name
      /\ all_proc_name[IndexOf(all_proc_name, n)] = n
  BY <1>1, <1>3 DEF IndexOf
<1> QED  BY <1>4 DEF MsgTablesOK

-----------------------------------------------------------------------------
(* The invariant.                                                          *)

LEMMA MsgInitInv == MsgInit => MsgInv
<1> SUFFICES ASSUME MsgInit PROVE MsgInv
  OBVIOUS
<1>1. all_messages \in [MessageSlots -> [target : 0 .. Len(all_proc_name), id : MessageIds \cup {0}]]
  BY DEF MsgInit, NotInUse
<1>2. all_proc_name \in Seq(Programs) /\ Len(all_proc_name) <= MAX_NUM_PROCS
       /\ DOMAIN all_proc_name = {}
  BY ProcMessagesConstants DEF MsgInit
<1>3. MsgTablesOK
  BY <1>1, <1>2, ProcMessagesConstants DEF MsgInit, MsgTablesOK, MsgPlaces
<1> QED
  BY <1>3 DEF MsgInit, MsgInv, Exclusion, Holding, RequestsOK, FindingsOK

\* A slot that is filled, or emptied, leaves the table well formed.
LEMMA SlotSet ==
  ASSUME MsgTablesOK, NEW i, NEW m \in Message,
         all_messages' = [all_messages EXCEPT ![i] = m],
         UNCHANGED all_proc_name
  PROVE  all_messages' \in [MessageSlots ->
           [target : 0 .. Len(all_proc_name'), id : MessageIds \cup {0}]]
BY DEF MsgTablesOK, Message

\* What a process keeps to itself does not matter to the others.
LEMMA ReturnInv ==
  ASSUME MsgInv, NEW p \in Callers, mpc[p] \in Holding, NEW ret, NEW id, ReturnFrom(p, ret, id)
  PROVE  /\ mpc' \in [Callers -> MsgPlaces] /\ first_message' \in [Callers -> 0 .. MAX_MESSAGES]
         /\ protect_lock' \in Callers \cup {NoCaller}
         /\ Exclusion' /\ RequestsOK' /\ FindingsOK'
         /\ \A q \in Callers \ {p} : mpc'[q] = mpc[q] /\ mpc[q] \notin Holding
         /\ mpc'[p] = "idle"
<1>1. \A q \in Callers \ {p} : mpc[q] \notin Holding
  BY DEF MsgInv, MsgTablesOK, Exclusion
<1>2. /\ mpc' = [mpc EXCEPT ![p] = "idle"]
      /\ request' = [request EXCEPT ![p] = NoRequest]
      /\ first_message' = [first_message EXCEPT ![p] = 0]
      /\ protect_lock' = NoCaller
  BY DEF ReturnFrom
<1>3. mpc' \in [Callers -> MsgPlaces] /\ mpc'[p] = "idle"
       /\ \A q \in Callers \ {p} : mpc'[q] = mpc[q]
  BY <1>2 DEF MsgInv, MsgTablesOK, MsgPlaces
<1>4. first_message' \in [Callers -> 0 .. MAX_MESSAGES]
  BY <1>2, ProcMessagesConstants DEF MsgInv, MsgTablesOK
<1>5. Exclusion'
  BY <1>1, <1>3 DEF Exclusion, Holding
<1>6. RequestsOK'
  BY <1>2, <1>3 DEF MsgInv, RequestsOK
<1>7. FindingsOK'
  BY <1>1, <1>3 DEF FindingsOK, Holding
<1> QED  BY <1>1, <1>2, <1>3, <1>4, <1>5, <1>6, <1>7

\* A process that moves with nothing but its own variables, to a place with the
\* mutex only when it has it.
LEMMA MoveInv ==
  ASSUME MsgInv, NEW p \in Callers, NEW place \in MsgPlaces \ {"fill", "scan", "take"},
         mpc' = [mpc EXCEPT ![p] = place],
         place \in Holding =>
           /\ protect_lock' = p
           /\ protect_lock = NoCaller \/ protect_lock = p,
         place \notin Holding => protect_lock' = protect_lock /\ mpc[p] \notin Holding,
         RequestsOK', \A q \in Callers \ {p} : request'[q] = request[q],
         UNCHANGED <<all_messages, all_proc_name, first_message>>
  PROVE  MsgInv'
<1>1. mpc' \in [Callers -> MsgPlaces] /\ mpc'[p] = place
       /\ \A q \in Callers \ {p} : mpc'[q] = mpc[q]
  BY DEF MsgInv, MsgTablesOK
<1>2. protect_lock' \in Callers \cup {NoCaller}
  BY DEF MsgInv, MsgTablesOK
<1>3. MsgTablesOK'
  BY <1>1, <1>2 DEF MsgInv, MsgTablesOK
<1>4. Exclusion'
  BY <1>1, ProcMessagesConstants DEF MsgInv, Exclusion
<1>5. FindingsOK'
  <2> SUFFICES ASSUME NEW q \in Callers, mpc'[q] \in {"fill", "scan", "take"}
               PROVE  FindingsOK!(q)'
    BY DEF FindingsOK
  <2>1. q # p /\ mpc'[q] = mpc[q] /\ request'[q] = request[q]
    BY <1>1
  <2> QED
    BY <2>1 DEF MsgInv, FindingsOK, Known, FreeSlots, SlotsOf, IndexOf
<1> QED  BY <1>3, <1>4, <1>5 DEF MsgInv

\* The calls, the mutex and the exit.
LEMMA OutsideInv ==
  ASSUME MsgInv, NEW p \in Callers,
         \/ \E n \in Programs : CallReceiveMessage(p, n)
         \/ \E n \in Programs, k \in MessageIds : CallSendMessage(p, n, k)
         \/ Lock(p) \/ Contend(p) \/ Woken(p) \/ NameTableFull(p)
  PROVE  MsgInv'
<1>1. CASE \/ \E n \in Programs : CallReceiveMessage(p, n)
           \/ \E n \in Programs, k \in MessageIds : CallSendMessage(p, n, k)
  <2>1. /\ mpc[p] = "idle" /\ mpc' = [mpc EXCEPT ![p] = "lock"]
        /\ UNCHANGED <<protect_lock, all_messages, all_proc_name, first_message>>
    BY <1>1 DEF CallReceiveMessage, CallSendMessage
  <2>2. PICK r \in [call : {"SendMessage"}, name : Programs, id : MessageIds]
                   \cup [call : {"ReceiveMessage"}, name : Programs, id : {0}] :
          request' = [request EXCEPT ![p] = r]
    BY <1>1 DEF CallReceiveMessage, CallSendMessage
  <2>3. r # NoRequest
    BY <2>2 DEF NoRequest
  <2>4. RequestsOK'
    BY <2>1, <2>2, <2>3 DEF MsgInv, MsgTablesOK, RequestsOK
  <2>5. \A q \in Callers \ {p} : request'[q] = request[q]
    BY <2>2 DEF MsgInv, RequestsOK
  <2> QED  BY <2>1, <2>4, <2>5, MoveInv DEF MsgPlaces, Holding
<1>2. CASE Lock(p)
  <2>1. RequestsOK'
    BY <1>2 DEF Lock, MsgInv, MsgTablesOK, RequestsOK
  <2> QED  BY <1>2, <2>1, MoveInv DEF Lock, MsgPlaces, Holding
<1>3. CASE Contend(p) \/ Woken(p)
  <2>1. RequestsOK'
    BY <1>3 DEF Contend, Woken, MsgInv, MsgTablesOK, RequestsOK
  <2>2. PICK place \in {"asleep", "lock"} : mpc' = [mpc EXCEPT ![p] = place]
    BY <1>3 DEF Contend, Woken
  <2> QED  BY <1>3, <2>1, <2>2, MoveInv DEF Contend, Woken, MsgPlaces, Holding
<1>4. CASE NameTableFull(p)
  <2>1. RequestsOK'
    BY <1>4 DEF NameTableFull, MsgInv, MsgTablesOK, RequestsOK
  <2>2. protect_lock = p
    BY <1>4 DEF NameTableFull, MsgInv, Exclusion, Holding
  <2> QED  BY <1>4, <2>1, <2>2, MoveInv DEF NameTableFull, MsgPlaces, Holding
<1> QED  BY <1>1, <1>2, <1>3, <1>4

\* SendMessage(), under the mutex.
LEMMA SendInv ==
  ASSUME MsgInv, NEW p \in Callers,
         NoSuchProcess(p) \/ QueueFull(p) \/ FindFreeSlot(p) \/ FillSlot(p)
  PROVE  MsgInv'
<1>1. CASE NoSuchProcess(p) \/ QueueFull(p)
  <2>1. /\ mpc[p] \in Holding /\ \E ret, id : ReturnFrom(p, ret, id)
        /\ UNCHANGED <<all_messages, all_proc_name>>
    BY <1>1 DEF NoSuchProcess, QueueFull, Holding
  <2> QED  BY <2>1, ReturnInv DEF MsgInv, MsgTablesOK
<1>2. CASE FindFreeSlot(p)
  <2>1. FreeSlots \in SUBSET MessageSlots /\ FirstSlot(FreeSlots) \in FreeSlots
    BY <1>2, FirstSlotFound DEF FindFreeSlot, FreeSlots
  <2>2. /\ mpc[p] = "search" /\ request[p].call = "SendMessage" /\ Known(request[p].name)
        /\ mpc' = [mpc EXCEPT ![p] = "fill"]
        /\ first_message' = [first_message EXCEPT ![p] = FirstSlot(FreeSlots)]
        /\ UNCHANGED <<protect_lock, all_messages, all_proc_name, request>>
    BY <1>2 DEF FindFreeSlot
  <2>3. MsgTablesOK'
    BY <2>1, <2>2, ProcMessagesConstants DEF MsgInv, MsgTablesOK, MsgPlaces, MessageSlots
  <2>4. Exclusion' /\ \A q \in Callers \ {p} : mpc'[q] = mpc[q]
    BY <2>2 DEF MsgInv, MsgTablesOK, Exclusion, Holding
  <2>5. RequestsOK'
    BY <2>2 DEF MsgInv, MsgTablesOK, RequestsOK
  <2>6. FindingsOK'
    <3> SUFFICES ASSUME NEW q \in Callers PROVE FindingsOK!(q)'
      BY DEF FindingsOK
    <3>1. CASE q = p
      BY <2>1, <2>2, <3>1 DEF MsgInv, MsgTablesOK, Known, FreeSlots
    <3>2. CASE q # p
      <4>1. mpc'[q] = mpc[q] /\ first_message'[q] = first_message[q]
        BY <2>2, <3>2 DEF MsgInv, MsgTablesOK
      <4> QED  BY <2>2, <4>1 DEF MsgInv, FindingsOK, Known, FreeSlots, SlotsOf, IndexOf
    <3> QED  BY <3>1, <3>2
  <2> QED  BY <2>3, <2>4, <2>5, <2>6 DEF MsgInv
<1>3. CASE FillSlot(p)
  <2> DEFINE i == IndexOf(all_proc_name, request[p].name)
             m == [target |-> i, id |-> request[p].id]
  <2>1. mpc[p] = "fill" /\ Known(request[p].name) /\ mpc[p] \in Holding
    BY <1>3 DEF FillSlot, MsgInv, FindingsOK, Holding
  <2>2. i \in 1 .. Len(all_proc_name) /\ request[p].id \in MessageIds
    <3>1. i \in DOMAIN all_proc_name
      BY <2>1, IndexFound DEF MsgInv
    <3>2. request[p].id \in MessageIds
      BY <2>1 DEF MsgInv, RequestsOK
    <3> QED  BY <3>1, <3>2 DEF MsgInv, MsgTablesOK
  <2>3. all_messages' \in [MessageSlots ->
          [target : 0 .. Len(all_proc_name'), id : MessageIds \cup {0}]]
    <3>1. m \in Message
      BY <2>2 DEF Message
    <3> QED  BY <1>3, <3>1, SlotSet DEF FillSlot, MsgInv
  <2> QED  BY <1>3, <2>1, <2>3, ReturnInv DEF FillSlot, MsgInv, MsgTablesOK
<1> QED  BY <1>1, <1>2, <1>3

\* ReceiveMessage(), under the mutex.
LEMMA ReceiveInv ==
  ASSUME MsgInv, NEW p \in Callers, CreateName(p) \/ Scan(p) \/ Take(p)
  PROVE  MsgInv'
<1> DEFINE n == request[p].name
           mine == SlotsOf(IndexOf(all_proc_name, n))
<1>0. mpc[p] \in Holding /\ protect_lock = p
      /\ \A q \in Callers \ {p} : mpc[q] \notin Holding
  BY DEF CreateName, Scan, Take, Holding, MsgInv, Exclusion
<1>1. CASE CreateName(p)
  <2>1. /\ mpc[p] = "search" /\ request[p].call = "ReceiveMessage"
        /\ Known(n) \/ ~NamesFull
        /\ all_proc_name' = IF Known(n) THEN all_proc_name ELSE Append(all_proc_name, n)
        /\ mpc' = [mpc EXCEPT ![p] = "scan"]
        /\ UNCHANGED <<protect_lock, all_messages, request, first_message>>
    BY <1>1 DEF CreateName
  <2>2. n \in Programs
    BY <2>1 DEF MsgInv, RequestsOK, NoRequest
  <2>3. /\ all_proc_name' \in Seq(Programs) /\ Len(all_proc_name') <= MAX_NUM_PROCS
        /\ \A i, k \in DOMAIN all_proc_name' :
             all_proc_name'[i] = all_proc_name'[k] => i = k
        /\ Len(all_proc_name) <= Len(all_proc_name')
        /\ Known(n)'
    <3>1. CASE Known(n)
      BY <2>1, <3>1 DEF MsgInv, MsgTablesOK, Known
    <3>2. CASE ~Known(n)
      <4>1. all_proc_name' = Append(all_proc_name, n) /\ Len(all_proc_name) < MAX_NUM_PROCS
        BY <2>1, <3>2, ProcMessagesConstants DEF MsgInv, MsgTablesOK, NamesFull
      <4>2. \A i \in DOMAIN all_proc_name : all_proc_name[i] # n
        BY <3>2 DEF Known
      <4>3. /\ all_proc_name' \in Seq(Programs)
            /\ Len(all_proc_name') = Len(all_proc_name) + 1
            /\ \A i \in 1 .. Len(all_proc_name) : all_proc_name'[i] = all_proc_name[i]
            /\ all_proc_name'[Len(all_proc_name) + 1] = n
        BY <2>2, <4>1 DEF MsgInv, MsgTablesOK
      <4>4. request'[p].name = n
        BY <2>1
      <4> QED
        BY <4>1, <4>2, <4>3, <4>4, ProcMessagesConstants DEF MsgInv, MsgTablesOK, Known
    <3> QED  BY <3>1, <3>2
  <2>4. MsgTablesOK'
    BY <2>1, <2>3 DEF MsgInv, MsgTablesOK, MsgPlaces
  <2>5. Exclusion' /\ RequestsOK' /\ \A q \in Callers \ {p} : mpc'[q] = mpc[q]
    BY <1>0, <2>1 DEF MsgInv, MsgTablesOK, Exclusion, RequestsOK, Holding
  <2>6. FindingsOK'
    BY <1>0, <2>1, <2>3, <2>5 DEF MsgInv, MsgTablesOK, FindingsOK, Holding
  <2> QED  BY <2>4, <2>5, <2>6 DEF MsgInv
<1>2. CASE Scan(p)
  <2>1. /\ mpc[p] = "scan" /\ mpc' = [mpc EXCEPT ![p] = "take"]
        /\ first_message' = [first_message EXCEPT ![p] = FirstSlot(mine)]
        /\ UNCHANGED <<protect_lock, all_messages, all_proc_name, request>>
    BY <1>2 DEF Scan
  <2>2. /\ mine \in SUBSET MessageSlots
        /\ IF mine = {} THEN FirstSlot(mine) = 0 ELSE FirstSlot(mine) \in mine
    BY FirstSlotFound DEF SlotsOf
  <2>3. MsgTablesOK'
    BY <2>1, <2>2, ProcMessagesConstants DEF MsgInv, MsgTablesOK, MsgPlaces, MessageSlots
  <2>4. Exclusion' /\ RequestsOK' /\ \A q \in Callers \ {p} : mpc'[q] = mpc[q]
    BY <1>0, <2>1 DEF MsgInv, MsgTablesOK, Exclusion, RequestsOK, Holding
  <2>5. FindingsOK'
    <3> SUFFICES ASSUME NEW q \in Callers PROVE FindingsOK!(q)'
      BY DEF FindingsOK
    <3>1. CASE q = p
      <4>1. Known(n) /\ request'[p] = request[p] /\ all_proc_name' = all_proc_name
            /\ mpc'[p] = "take" /\ first_message'[p] = FirstSlot(mine)
        BY <2>1 DEF MsgInv, MsgTablesOK, FindingsOK
      <4>2. SlotsOf(IndexOf(all_proc_name, n))' = mine
        BY <2>1 DEF SlotsOf, IndexOf
      <4> QED  BY <2>2, <3>1, <4>1, <4>2 DEF Known
    <3>2. CASE q # p
      BY <1>0, <2>4, <3>2 DEF Holding
    <3> QED  BY <3>1, <3>2
  <2> QED  BY <2>3, <2>4, <2>5 DEF MsgInv
<1>3. CASE Take(p)
  <2>1. all_messages' \in [MessageSlots ->
          [target : 0 .. Len(all_proc_name'), id : MessageIds \cup {0}]]
    BY <1>3 DEF Take, NotInUse, MsgInv, MsgTablesOK
  <2> QED  BY <1>0, <1>3, <2>1, ReturnInv DEF Take, MsgInv, MsgTablesOK
<1> QED  BY <1>1, <1>2, <1>3

LEMMA MsgNextInv == MsgInv /\ [MsgNext]_msgVars => MsgInv'
<1> SUFFICES ASSUME MsgInv, [MsgNext]_msgVars PROVE MsgInv'
  OBVIOUS
<1>1. CASE UNCHANGED msgVars
  <2>1. MsgTablesOK' /\ Exclusion' /\ RequestsOK'
    BY <1>1 DEF msgVars, MsgInv, MsgTablesOK, Exclusion, RequestsOK
  <2>2. FindingsOK'
    BY <1>1 DEF msgVars, MsgInv, FindingsOK, Known, FreeSlots, SlotsOf, IndexOf
  <2> QED  BY <2>1, <2>2 DEF MsgInv
<1> QED
  BY <1>1, OutsideInv, SendInv, ReceiveInv DEF MsgNext, MsgStep

LEMMA MsgInvariant == MsgSpec => []MsgInv
BY MsgInitInv, MsgNextInv, PTL DEF MsgSpec

\* For any number of processes and any size of the tables, both tables stay well
\* formed.
THEOREM MsgTablesAlwaysOK == MsgSpec => []MsgTablesOK
BY MsgInvariant, PTL DEF MsgInv

-----------------------------------------------------------------------------
(* The shared memory implements the mailbox.                               *)

BoxVars == <<KnownNames, Letters, answer>>

\* The letters to a program are in the slots that have its index.
LEMMA LettersTo ==
  ASSUME MsgInv, NEW n, Known(n)
  PROVE  /\ Box!For(n) = {Letter(i) : i \in SlotsOf(IndexOf(all_proc_name, n))}
         /\ {x.place : x \in Box!For(n)} = SlotsOf(IndexOf(all_proc_name, n))
<1> DEFINE ix == IndexOf(all_proc_name, n)
<1>1. /\ ix \in 1 .. Len(all_proc_name) /\ all_proc_name[ix] = n
      /\ \A i \in 1 .. Len(all_proc_name) : all_proc_name[i] = n => i = ix
  BY IndexFound DEF MsgInv, MsgTablesOK
<1>2. \A i \in MessageSlots \ FreeSlots :
        all_messages[i].target \in 1 .. Len(all_proc_name)
  BY DEF MsgInv, MsgTablesOK, FreeSlots
<1>3. \A i \in MessageSlots :
        i \in SlotsOf(ix) <=> i \notin FreeSlots /\ Letter(i).to = n
  BY <1>1, <1>2 DEF SlotsOf, FreeSlots, Letter
<1>4. SlotsOf(ix) \subseteq MessageSlots
  BY DEF SlotsOf
<1>5. Box!For(n) = {Letter(i) : i \in SlotsOf(ix)}
  <2>1. \A m \in Box!For(n) : \E i \in SlotsOf(ix) : m = Letter(i)
    BY <1>3 DEF Box!For, Letters
  <2>2. \A i \in SlotsOf(ix) : Letter(i) \in Letters /\ Letter(i).to = n
    BY <1>3, <1>4 DEF Letters
  <2> QED  BY <2>1, <2>2 DEF Box!For
<1>6. {x.place : x \in {Letter(i) : i \in SlotsOf(ix)}} = SlotsOf(ix)
  <2> DEFINE L == {Letter(i) : i \in SlotsOf(ix)}
  <2>1. \A i : Letter(i).place = i
    BY DEF Letter
  <2>2. \A i \in SlotsOf(ix) : Letter(i) \in L
    OBVIOUS
  <2>3. \A x \in L : x.place \in SlotsOf(ix)
    BY <2>1
  <2> HIDE DEF L
  <2>4. \A i \in SlotsOf(ix) : i \in {x.place : x \in L}
    BY <2>1, <2>2
  <2> QED  BY <2>3, <2>4 DEF L
<1> QED  BY <1>5, <1>6

LEMMA FreePlaces == Box!Free = FreeSlots
<1>1. \A i : Letter(i).place = i
  BY DEF Letter
<1>2. \A r \in MessageSlots : (\A m \in Letters : m.place # r) <=> r \in FreeSlots
  <2> TAKE r \in MessageSlots
  <2>1. CASE r \in FreeSlots
    BY <1>1, <2>1 DEF Letters
  <2>2. CASE r \notin FreeSlots
    BY <1>1, <2>2 DEF Letters
  <2> QED  BY <2>1, <2>2
<1> QED  BY <1>2 DEF Box!Free, FreeSlots

\* A step that leaves the tables and the answers alone is no step of the mailbox.
LEMMA TablesUntouched ==
  ASSUME UNCHANGED <<all_messages, all_proc_name, answer>>
  PROVE  UNCHANGED BoxVars
BY DEF BoxVars, KnownNames, Letters, Letter, FreeSlots

LEMMA RefuseStep ==
  ASSUME MsgInv, NEW p \in Callers, NoSuchProcess(p) \/ QueueFull(p)
  PROVE  Box!Next
<1> DEFINE n == request[p].name
           k == request[p].id
<1>1. /\ mpc[p] = "search" /\ request[p].call = "SendMessage"
      /\ UNCHANGED <<all_messages, all_proc_name>>
      /\ answer' = [answer EXCEPT ![p] = [call |-> request[p].call, ret |-> -1, id |-> k]]
      /\ ~Known(n) \/ FreeSlots = {}
  BY DEF NoSuchProcess, QueueFull, ReturnFrom
<1>2. n \in Programs /\ k \in MessageIds
  BY <1>1 DEF MsgInv, RequestsOK, NoRequest
<1>3. Box!Reply(p, "SendMessage", -1, k)
  BY <1>1 DEF Box!Reply
<1>4. n \notin KnownNames \/ Box!Free = {}
  BY <1>1, FreePlaces DEF Known, KnownNames
<1>5. UNCHANGED <<KnownNames, Letters>>
  BY <1>1 DEF KnownNames, Letters, Letter, FreeSlots
<1>6. Box!Refuse(p, n, k)
  BY <1>3, <1>4, <1>5 DEF Box!Refuse, Box!SM_Not_Found
<1> QED  BY <1>2, <1>6 DEF Box!Next

LEMMA KeepStep ==
  ASSUME MsgInv, NEW p \in Callers, FillSlot(p)
  PROVE  Box!Next
<1>a. PICK n, k, i, ix :
        /\ n = request[p].name /\ k = request[p].id
        /\ i = first_message[p] /\ ix = IndexOf(all_proc_name, n)
  OBVIOUS
<1>1. /\ mpc[p] = "fill" /\ request[p].call = "SendMessage"
      /\ Known(n) /\ i \in FreeSlots /\ i \in MessageSlots
  BY <1>a DEF FillSlot, MsgInv, RequestsOK, FindingsOK, FreeSlots
<1>2. n \in Programs /\ k \in MessageIds
  BY <1>a, <1>1 DEF MsgInv, RequestsOK, NoRequest
<1>3. /\ all_messages' = [all_messages EXCEPT ![i] = [target |-> ix, id |-> k]]
      /\ all_proc_name' = all_proc_name
      /\ answer' = [answer EXCEPT ![p] = [call |-> "SendMessage", ret |-> 0, id |-> k]]
  BY <1>a, <1>1 DEF FillSlot, ReturnFrom
<1>4. ix \in 1 .. Len(all_proc_name) /\ all_proc_name[ix] = n
  BY <1>a, <1>1, IndexFound DEF MsgInv, MsgTablesOK
<1>5. /\ all_messages'[i] = [target |-> ix, id |-> k]
      /\ \A j \in MessageSlots \ {i} : all_messages'[j] = all_messages[j]
  BY <1>1, <1>3 DEF MsgInv, MsgTablesOK
<1>6. FreeSlots' = FreeSlots \ {i}
  BY <1>1, <1>4, <1>5 DEF FreeSlots
<1>7. /\ Letter(i)' = [place |-> i, to |-> n, id |-> k]
      /\ \A j \in MessageSlots \ FreeSlots : Letter(j)' = Letter(j)
  BY <1>1, <1>3, <1>4, <1>5 DEF Letter
<1>8. Letters' = Letters \cup {[place |-> i, to |-> n, id |-> k]}
  <2>1. Letters' = {Letter(j)' : j \in (MessageSlots \ FreeSlots) \cup {i}}
    BY <1>1, <1>6 DEF Letters
  <2> QED  BY <1>7, <2>1 DEF Letters
<1>9. Box!Keep(p, n, k)
  <2>1. n \in KnownNames /\ UNCHANGED KnownNames
    BY <1>1, <1>3 DEF Known, KnownNames
  <2>2. Box!Reply(p, "SendMessage", 0, k)
    BY <1>3 DEF Box!Reply
  <2>3. \E r \in Box!Free : Letters' = Letters \cup {[place |-> r, to |-> n, id |-> k]}
    BY <1>1, <1>8, FreePlaces
  <2> QED
    BY <2>1, <2>2, <2>3 DEF Box!Keep, Box!SM_Okay
<1> QED  BY <1>2, <1>9 DEF Box!Next

LEMMA RegisterStep ==
  ASSUME MsgInv, NEW p \in Callers, CreateName(p)
  PROVE  Box!Next
<1>a. PICK n : n = request[p].name
  OBVIOUS
<1>1. /\ mpc[p] = "search" /\ request[p].call = "ReceiveMessage"
      /\ all_proc_name' = IF Known(n) THEN all_proc_name ELSE Append(all_proc_name, n)
      /\ UNCHANGED <<all_messages, answer>>
  BY <1>a DEF CreateName
<1>2. n \in Programs
  BY <1>a, <1>1 DEF MsgInv, RequestsOK, NoRequest
<1>3. all_proc_name \in Seq(Programs)
  BY DEF MsgInv, MsgTablesOK
<1>4. /\ \A j \in 1 .. Len(all_proc_name) : all_proc_name'[j] = all_proc_name[j]
      /\ KnownNames' = KnownNames \cup {n}
  <2>1. CASE Known(n)
    BY <1>1, <2>1 DEF Known, KnownNames
  <2>2. CASE ~Known(n)
    <3>1. /\ DOMAIN all_proc_name' = 1 .. Len(all_proc_name) + 1
          /\ DOMAIN all_proc_name = 1 .. Len(all_proc_name) /\ Len(all_proc_name) \in Nat
          /\ \A j \in 1 .. Len(all_proc_name) : all_proc_name'[j] = all_proc_name[j]
          /\ all_proc_name'[Len(all_proc_name) + 1] = n
      BY <1>1, <1>2, <1>3, <2>2
    <3>2. DOMAIN all_proc_name' = DOMAIN all_proc_name \cup {Len(all_proc_name) + 1}
      BY <3>1
    <3> QED  BY <3>1, <3>2 DEF KnownNames
  <2> QED  BY <2>1, <2>2
<1>5. Letters' = Letters
  <2>1. \A i \in MessageSlots \ FreeSlots :
          all_messages[i].target \in 1 .. Len(all_proc_name)
    BY DEF MsgInv, MsgTablesOK, FreeSlots
  <2>2. \A i \in MessageSlots \ FreeSlots : Letter(i)' = Letter(i)
    BY <1>1, <1>4, <2>1 DEF Letter
  <2>3. FreeSlots' = FreeSlots
    BY <1>1 DEF FreeSlots
  <2> QED  BY <2>2, <2>3 DEF Letters
<1>6. Box!Register(n)
  BY <1>1, <1>4, <1>5 DEF Box!Register
<1> QED  BY <1>2, <1>6 DEF Box!Next

LEMMA ReceiveStep ==
  ASSUME MsgInv, NEW p \in Callers, Take(p)
  PROVE  Box!Next
<1>a. PICK n, i, ix, mine :
        /\ n = request[p].name /\ i = first_message[p]
        /\ ix = IndexOf(all_proc_name, n) /\ mine = SlotsOf(ix)
  OBVIOUS
<1> DEFINE id == IF i = 0 THEN 0 ELSE all_messages[i].id
<1>1. /\ mpc[p] = "take" /\ request[p].call = "ReceiveMessage" /\ Known(n)
      /\ IF mine = {} THEN i = 0 ELSE i \in mine
  BY <1>a DEF Take, MsgInv, RequestsOK, FindingsOK
<1>2. n \in Programs /\ n \in KnownNames
  BY <1>a, <1>1 DEF MsgInv, RequestsOK, NoRequest, Known, KnownNames
<1>3. /\ all_messages' = [j \in MessageSlots |-> IF j = i THEN NotInUse ELSE all_messages[j]]
      /\ all_proc_name' = all_proc_name
      /\ answer' = [answer EXCEPT ![p] =
                      [call |-> "ReceiveMessage", ret |-> Cardinality(mine), id |-> id]]
  BY <1>a, <1>1 DEF Take, ReturnFrom
<1>4. KnownNames' = KnownNames
  BY <1>3 DEF KnownNames
<1>5. CASE mine = {}
  <2>1. i = 0 /\ Cardinality(mine) = 0 /\ Box!For(n) = {}
    BY <1>1, <1>5, <1>a, FS_EmptySet, LettersTo
  <2>2. all_messages' = all_messages
    BY <1>3, <2>1 DEF MsgInv, MsgTablesOK, MessageSlots
  <2>3. Letters' = Letters
    BY <1>3, <2>2 DEF Letters, Letter, FreeSlots
  <2>4. Box!Reply(p, "ReceiveMessage", 0, 0)
    BY <1>3, <2>1 DEF Box!Reply
  <2>5. Box!Nothing(p, n)
    BY <1>2, <1>4, <2>1, <2>3, <2>4 DEF Box!Nothing
  <2> QED  BY <1>2, <2>5 DEF Box!Next
<1>6. CASE mine # {}
  <2>1. i \in mine /\ i \in MessageSlots /\ i \notin FreeSlots /\ i # 0
    <3>1. ix \in 1 .. Len(all_proc_name) /\ Len(all_proc_name) \in Nat
      BY <1>a, <1>1, IndexFound DEF MsgInv, MsgTablesOK
    <3> QED  BY <1>a, <1>1, <1>6, <3>1 DEF SlotsOf, FreeSlots, MessageSlots
  <2>2. Letter(i) \in Box!For(n) /\ {x.place : x \in Box!For(n)} = mine
    BY <1>a, <1>1, <2>1, LettersTo
  <2>3. FreeSlots' = FreeSlots \cup {i}
    BY <1>3, <2>1 DEF FreeSlots, NotInUse
  <2>4. \A j \in MessageSlots \ {i} : Letter(j)' = Letter(j)
    BY <1>3 DEF Letter
  <2>5. Letters' = Letters \ {Letter(i)}
    <3>1. Letters' = {Letter(j) : j \in (MessageSlots \ FreeSlots) \ {i}}
      BY <2>3, <2>4 DEF Letters
    <3>2. \A j \in MessageSlots : Letter(j) = Letter(i) => j = i
      BY DEF Letter
    <3> QED  BY <2>1, <3>1, <3>2 DEF Letters
  <2>6. Box!Reply(p, "ReceiveMessage", Cardinality({x.place : x \in Box!For(n)}), Letter(i).id)
    BY <1>3, <2>1, <2>2 DEF Box!Reply, Letter
  <2>7. Box!Deliver(p, n)
    <3>1. \A S : Box!Cardinality(S) = Cardinality(S)
      BY DEF Box!Cardinality, Cardinality
    <3> QED  BY <1>4, <2>2, <2>5, <2>6, <3>1 DEF Box!Deliver
  <2> QED  BY <1>2, <2>7 DEF Box!Next
<1> QED  BY <1>5, <1>6

\* The tables in shared memory are a mailbox: every message that is kept is
\* delivered once and to its program, for any number of processes and slots.
THEOREM MessagesImplementMailbox == MsgSpec => MsgImplements
<1>1. MsgInit => Box!Init
  <2> SUFFICES ASSUME MsgInit PROVE Box!Init
    OBVIOUS
  <2>1. KnownNames = {} /\ FreeSlots = MessageSlots
    BY DEF MsgInit, KnownNames, FreeSlots, NotInUse
  <2>2. Letters = {}
    BY <2>1 DEF Letters
  <2> QED  BY <2>1, <2>2 DEF MsgInit, Box!Init
<1>2. MsgInv /\ [MsgNext]_msgVars => [Box!Next]_BoxVars
  <2> SUFFICES ASSUME MsgInv, MsgNext \/ UNCHANGED msgVars PROVE Box!Next \/ UNCHANGED BoxVars
    OBVIOUS
  <2>1. ASSUME NEW p \in Callers,
               \/ \E n \in Programs : CallReceiveMessage(p, n)
               \/ \E n \in Programs, k \in MessageIds : CallSendMessage(p, n, k)
               \/ Lock(p) \/ Contend(p) \/ Woken(p) \/ NameTableFull(p)
               \/ FindFreeSlot(p) \/ Scan(p)
        PROVE  UNCHANGED <<all_messages, all_proc_name, answer>>
    BY <2>1 DEF CallReceiveMessage, CallSendMessage, Lock, Contend, Woken, NameTableFull,
                FindFreeSlot, Scan
  <2>2. UNCHANGED msgVars => UNCHANGED <<all_messages, all_proc_name, answer>>
    BY DEF msgVars
  <2> QED
    BY <2>1, <2>2, TablesUntouched, RefuseStep, KeepStep, RegisterStep, ReceiveStep
       DEF MsgNext, MsgStep
<1>3. [Box!Next]_BoxVars => Box!Next \/ UNCHANGED <<KnownNames, Letters, answer>>
  BY DEF BoxVars
<1> QED
  BY <1>1, <1>2, MsgInvariant, PTL
     DEF MsgSpec, MsgImplements, Box!Spec, BoxVars
=============================================================================
