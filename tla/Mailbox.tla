------------------------------- MODULE Mailbox -------------------------------
(***************************************************************************)
(* What SESSION_LIB/proc_messages.h promises.  A message to a program that *)
(* has asked for its messages before, and for which there is room, is kept *)
(* until that program receives it, once; the sender is told that it was    *)
(* kept or that it was not.  A receiver is told how many messages it had.  *)
(* Nothing is promised about the order of messages.                        *)
(***************************************************************************)
EXTENDS Integers, FiniteSets

CONSTANTS
  Programs,   \* names of programs
  Callers,    \* the processes that send and receive
  Ids,        \* message ids
  Room        \* the places where one message can be kept

VARIABLES
  known,  \* the programs that have asked for messages
  mail,   \* the messages kept
  reply   \* what the last call of each process returned

Mail == [place : Room, to : Programs, id : Ids]
For(n) == {m \in mail : m.to = n}
Free == {r \in Room : \A m \in mail : m.place # r}
SM_Okay == 0
SM_Not_Found == -1
Reply(p, call, ret, id) ==
  reply' = [reply EXCEPT ![p] = [call |-> call, ret |-> ret, id |-> id]]

Init == known = {} /\ mail = {} /\ reply = [p \in Callers |-> [call |-> "none"]]

Keep(p, n, k) ==
  /\ n \in known
  /\ \E r \in Free : mail' = mail \cup {[place |-> r, to |-> n, id |-> k]}
  /\ Reply(p, "SendMessage", SM_Okay, k) /\ UNCHANGED known

Refuse(p, n, k) ==
  /\ n \notin known \/ Free = {}
  /\ Reply(p, "SendMessage", SM_Not_Found, k) /\ UNCHANGED <<known, mail>>

Register(n) == known' = known \cup {n} /\ UNCHANGED <<mail, reply>>

Deliver(p, n) ==
  \E m \in For(n) :
    /\ mail' = mail \ {m}
    /\ Reply(p, "ReceiveMessage", Cardinality({x.place : x \in For(n)}), m.id)
    /\ UNCHANGED known

Nothing(p, n) ==
  /\ n \in known /\ For(n) = {}
  /\ Reply(p, "ReceiveMessage", 0, 0) /\ UNCHANGED <<known, mail>>

Next ==
  \E n \in Programs :
    \/ Register(n)
    \/ \E p \in Callers :
         \/ Deliver(p, n) \/ Nothing(p, n)
         \/ \E k \in Ids : Keep(p, n, k) \/ Refuse(p, n, k)

Spec == Init /\ [][Next]_<<known, mail, reply>>
=============================================================================
