---------------------------- MODULE JsonSyncProofs -----------------------------
(***************************************************************************)
(* Proofs about JsonSync: the lock is held by one process, and what is in  *)
(* the database stays in it, for any number of tools and keepers.          *)
(***************************************************************************)
EXTENDS JsonSync, WellFoundedInduction, TLAPS

Locked == {"active", "changed", "held", "writing"}

Bounded(S) == \E b \in Nat : \A x \in S : x.juid < b
Distinct(S) == \A x, y \in S : x.juid = y.juid => x = y

\* A tree that may be in memory or in the file.
Tree(S) == S \subseteq JsonEntry /\ Bounded(S) /\ Distinct(S)

\* What is in memory was read from the file, or made by the process itself.
TreesOK ==
  /\ Tree(jfile.entries) /\ jfile.entries \subseteq jwrote
  /\ \A p \in Clients :
       /\ Tree(jmem[p])
       /\ \A x \in jmem[p] : x.by # p => x \in jwrote
       /\ jpc[p] \in {"held", "released", "read", "keep"} => p \in Keepers

\* Where nobody is killed the file has no bytes only before the first entry, or
\* while it is written.
FileOK ==
  "kill" \notin jfaults =>
    /\ jfile.state # "torn"
    /\ jfile.state = "empty" => jwrote = {} \/ \E p \in Clients : jpc[p] = "writing"

\* The entries W are in the file, and in the tree that will replace it.
Kept(W) ==
  /\ jfile.state = "whole" => W \subseteq jfile.entries
  /\ \A p \in Clients : jpc[p] \in Locked => W \subseteq jmem[p]

WrittenKept == "kill" \notin jfaults /\ ~jraced => Kept(jwrote) /\ Distinct(jwrote)

OwnOf(k) == {x \in jwrote : x.by = k}
OwnKept ==
  \A k \in Keepers :
    Keepers = {k} /\ "kill" \notin jfaults =>
      Kept(OwnOf(k)) /\ (jpc[k] \in {"released", "keep"} => OwnOf(k) \subseteq jmem[k])

JsonInv == JsonTypeOK /\ TreesOK /\ FileOK /\ WrittenKept /\ OwnKept

-----------------------------------------------------------------------------
(* A new entry.                                                            *)

\* JUID::Initialize() finds an id above all that are in memory.
LEMMA NextJUIDFound ==
  ASSUME NEW S, Tree(S)
  PROVE  NextJUID(S) \in Nat /\ \A x \in S : x.juid < NextJUID(S)
<1> DEFINE R == {ss \in Nat \X Nat : ss[1] < ss[2]}
           T == {j \in Nat : \A x \in S : x.juid < j}
<1>1. IsWellFoundedOn(R, Nat)
  BY NatLessThanWellFounded DEF OpToRel
<1>2. T # {} /\ T \subseteq Nat
  BY DEF Tree, Bounded
<1>3. PICK m \in T : \A j \in T : <<j, m>> \notin R
  BY <1>1, <1>2, WFMin
<1>4. \A x \in S : x.juid \in Nat
  BY DEF Tree, JsonEntry
<1>5. m = 0 \/ \E x \in S : m = x.juid + 1
  <2> SUFFICES ASSUME m # 0 PROVE \E x \in S : m = x.juid + 1
    OBVIOUS
  <2>1. m \in Nat /\ m - 1 \in Nat /\ <<m - 1, m>> \in R
    BY <1>2
  <2>2. m - 1 \notin T
    BY <1>3, <2>1
  <2>3. PICK x \in S : ~(x.juid < m - 1)
    BY <2>1, <2>2
  <2>4. x.juid < m /\ x.juid \in Nat
    BY <1>4
  <2>5. m = x.juid + 1
    BY <2>1, <2>3, <2>4
  <2> QED  BY <2>5
<1>6. m \in {0} \cup {x.juid + 1 : x \in S} /\ \A x \in S : x.juid < m
  BY <1>5
<1>7. \A j \in {0} \cup {x.juid + 1 : x \in S} : j \in Nat
  BY <1>4
<1> QED  BY <1>6, <1>7 DEF NextJUID

\* A tree with a new entry is a tree.
LEMMA EntryAdded ==
  ASSUME NEW S, Tree(S), NEW p \in Clients, NEW n \in Nat
  PROVE  Tree(S \cup {[juid |-> NextJUID(S), by |-> p, n |-> n]})
<1> DEFINE j == NextJUID(S)
           e == [juid |-> j, by |-> p, n |-> n]
<1>1. j \in Nat /\ \A x \in S : x.juid < j
  BY NextJUIDFound
<1>2. S \cup {e} \subseteq JsonEntry
  BY <1>1 DEF Tree, JsonEntry
<1>3. Bounded(S \cup {e})
  <2>1. \A x \in S \cup {e} : x.juid < j + 1
    <3>1. \A x \in S : x.juid \in Nat
      BY DEF Tree, JsonEntry
    <3> QED  BY <1>1, <3>1
  <2> QED  BY <1>1, <2>1 DEF Bounded
<1>4. Distinct(S \cup {e})
  <2>1. \A x \in S : x.juid # j
    <3>1. \A x \in S : x.juid \in Nat
      BY DEF Tree, JsonEntry
    <3> QED  BY <1>1, <3>1
  <2> QED  BY <2>1 DEF Tree, Distinct
<1> QED  BY <1>2, <1>3, <1>4 DEF Tree

LEMMA NoTree == Tree({})
BY DEF Tree, Bounded, Distinct

-----------------------------------------------------------------------------
(* The invariant.                                                          *)

LEMMA NoClientIsNone == NoClient \notin Clients
BY JsonSyncConstants DEF Clients

LEMMA JsonInitInv == JsonInit => JsonInv
<1> SUFFICES ASSUME JsonInit PROVE JsonInv
  OBVIOUS
<1>1. JsonTypeOK
  <2>1. jfile \in [state : {"empty", "torn", "whole"}, entries : SUBSET JsonEntry]
    BY DEF JsonInit, NoBytes
  <2>2. jmade \in [Clients -> 0 .. MaxMakes] /\ jmem \in [Clients -> SUBSET JsonEntry]
    BY JsonSyncConstants DEF JsonInit
  <2>3. jraced \in BOOLEAN /\ jnewer \in [Clients -> BOOLEAN]
    BY DEF JsonInit
  <2> QED  BY <2>1, <2>2, <2>3, NoClientIsNone DEF JsonInit, JsonTypeOK, JsonPlaces
<1>2. TreesOK
  BY NoTree DEF JsonInit, TreesOK, NoBytes
<1>3. FileOK
  BY DEF JsonInit, FileOK, NoBytes
<1>4. WrittenKept /\ OwnKept
  BY DEF JsonInit, WrittenKept, OwnKept, OwnOf, Kept, NoBytes, Locked, Distinct
<1> QED  BY <1>1, <1>2, <1>3, <1>4 DEF JsonInv

\* What a step of a process may do to the places, the lock and the times.
LEMMA LeftLock ==
  ASSUME JsonTypeOK, NEW p \in Clients
  PROVE  /\ LeaveLock(p) \in Clients \cup {NoClient} /\ LeaveLock(p) # p
         /\ \A q \in Clients \ {p} : LeaveLock(p) = q <=> jlock = q
BY NoClientIsNone DEF LeaveLock, JsonTypeOK

LEMMA Touched ==
  ASSUME JsonTypeOK, NEW p \in Clients, Touch(p)
  PROVE  jnewer' \in [Clients -> BOOLEAN]
BY DEF Touch, JsonTypeOK

LEMMA JsonTypeStep ==
  ASSUME JsonInv, JsonNext
  PROVE  JsonTypeOK'
<1> USE DEF JsonInv
<1>0. PICK p \in Clients :
        \/ OpenDB(p) \/ ReSyncWithFile(p) \/ Exit(p)
        \/ SyncWithFile(p) \/ ParseFails(p) \/ KeepMemory(p) \/ AddEntry(p)
        \/ CloseHeld(p) \/ Truncate(p) \/ WriteJSON(p) \/ LockAborts(p) \/ KillClient(p)
  BY DEF JsonNext
<1>1. CASE OpenDB(p) \/ ParseFails(p) \/ LockAborts(p) \/ CloseHeld(p)
  BY <1>1 DEF OpenDB, ParseFails, LockAborts, CloseHeld, JsonTypeOK, JsonPlaces
<1>2. CASE ReSyncWithFile(p)
  BY <1>2 DEF ReSyncWithFile, JsonTypeOK, JsonPlaces
<1>3. CASE Exit(p)
  BY <1>3, LeftLock DEF Exit, JsonTypeOK, JsonPlaces
<1>4. CASE SyncWithFile(p)
  <2>1. PICK place \in {"held", "active"} : jpc' = [jpc EXCEPT ![p] = place]
    BY <1>4 DEF SyncWithFile, Opened
  <2>2. jmem' \in [Clients -> SUBSET JsonEntry]
    BY <1>4 DEF SyncWithFile, JsonTypeOK
  <2> QED
    BY <1>4, <2>1, <2>2, NoClientIsNone DEF SyncWithFile, JsonTypeOK, JsonPlaces
<1>5. CASE KeepMemory(p)
  <2>1. jraced' \in BOOLEAN
    BY <1>5, ZenonT(30) DEF KeepMemory
  <2> QED  BY <1>5, <2>1, NoClientIsNone DEF KeepMemory, JsonTypeOK, JsonPlaces
<1>6. CASE AddEntry(p)
  <2>1. jmade[p] + 1 \in 0 .. MaxMakes /\ jmade[p] + 1 \in Nat
    BY <1>6, JsonSyncConstants DEF AddEntry, JsonTypeOK
  <2>2. jmem[p] \cup {[juid |-> NextJUID(jmem[p]), by |-> p, n |-> jmade[p] + 1]}
          \in SUBSET JsonEntry
    BY <2>1, EntryAdded DEF TreesOK, Tree
  <2>3. jmem' \in [Clients -> SUBSET JsonEntry]
    BY <1>6, <2>2 DEF AddEntry, JsonTypeOK
  <2> QED  BY <1>6, <2>1, <2>3 DEF AddEntry, JsonTypeOK, JsonPlaces
<1>7. CASE Truncate(p)
  BY <1>7, Touched DEF Truncate, NoBytes, JsonTypeOK, JsonPlaces
<1>8. CASE WriteJSON(p)
  <2>1. jfile' \in [state : {"empty", "torn", "whole"}, entries : SUBSET JsonEntry]
        /\ jwrote' \subseteq JsonEntry
    BY <1>8 DEF WriteJSON, Whole, JsonTypeOK
  <2>2. /\ jpc' \in [Clients -> JsonPlaces] /\ jpc'[p] \in {"released", "gone"}
        /\ \A q \in Clients \ {p} : jpc'[q] = jpc[q]
    BY <1>8 DEF WriteJSON, JsonTypeOK, JsonPlaces
  <2>3. \A q \in Clients : jpc'[q] \in {"active", "changed", "held", "writing"} <=> jlock' = q
    BY <1>8, <2>2, LeftLock DEF WriteJSON, JsonTypeOK
  <2>4. jnewer' \in [Clients -> BOOLEAN]
    BY <1>8, Touched DEF WriteJSON
  <2>5. jlock' \in Clients \cup {NoClient} /\ UNCHANGED <<jfaults, jmem, jmade, jraced>>
    BY <1>8, LeftLock DEF WriteJSON
  <2> QED  BY <2>1, <2>2, <2>3, <2>4, <2>5 DEF JsonTypeOK
<1>9. CASE KillClient(p)
  <2>1. jfile' \in [state : {"empty", "torn", "whole"}, entries : SUBSET JsonEntry]
    BY <1>9 DEF KillClient, NoBytes, Torn, JsonTypeOK
  <2>2. /\ jpc' \in [Clients -> JsonPlaces] /\ jpc'[p] = "gone"
        /\ \A q \in Clients \ {p} : jpc'[q] = jpc[q]
    BY <1>9 DEF KillClient, JsonTypeOK, JsonPlaces
  <2>3. \A q \in Clients : jpc'[q] \in {"active", "changed", "held", "writing"} <=> jlock' = q
    BY <1>9, <2>2, LeftLock DEF KillClient, JsonTypeOK
  <2>5. /\ jlock' \in Clients \cup {NoClient}
        /\ UNCHANGED <<jfaults, jmem, jnewer, jmade, jwrote, jraced>>
    BY <1>9, LeftLock DEF KillClient
  <2> QED  BY <2>1, <2>2, <2>3, <2>5 DEF JsonTypeOK
<1> QED
  BY <1>0, <1>1, <1>2, <1>3, <1>4, <1>5, <1>6, <1>7, <1>8, <1>9

\* Where a process goes that is not locked, others stay where they are.
LEMMA OthersUnlocked ==
  ASSUME JsonTypeOK, NEW p \in Clients, jlock = p \/ jlock = NoClient
  PROVE  \A q \in Clients \ {p} : jpc[q] \notin Locked
BY NoClientIsNone DEF JsonTypeOK, Locked

LEMMA TreesStep ==
  ASSUME JsonInv, JsonNext
  PROVE  TreesOK'
<1> USE DEF JsonInv
<1>0. PICK p \in Clients :
        \/ OpenDB(p) \/ ReSyncWithFile(p) \/ Exit(p)
        \/ SyncWithFile(p) \/ ParseFails(p) \/ KeepMemory(p) \/ AddEntry(p)
        \/ CloseHeld(p) \/ Truncate(p) \/ WriteJSON(p) \/ LockAborts(p) \/ KillClient(p)
  BY DEF JsonNext
<1>1. CASE OpenDB(p) \/ ParseFails(p) \/ LockAborts(p) \/ CloseHeld(p) \/ Exit(p) \/ KeepMemory(p)
  BY <1>1 DEF OpenDB, ParseFails, LockAborts, CloseHeld, Exit, KeepMemory, JsonTypeOK, TreesOK
<1>2. CASE ReSyncWithFile(p)
  BY <1>2, NoTree DEF ReSyncWithFile, JsonTypeOK, TreesOK
<1>4. CASE SyncWithFile(p)
  BY <1>4 DEF SyncWithFile, Opened, JsonTypeOK, TreesOK
<1>6. CASE AddEntry(p)
  <2> DEFINE e == [juid |-> NextJUID(jmem[p]), by |-> p, n |-> jmade[p] + 1]
  <2>1. jmade[p] + 1 \in Nat
    BY DEF JsonTypeOK
  <2>2. Tree(jmem[p] \cup {e})
    BY <2>1, EntryAdded DEF TreesOK
  <2>3. e.by = p
    OBVIOUS
  <2>4. /\ jmem'[p] = jmem[p] \cup {e} /\ jpc'[p] = "changed"
        /\ \A q \in Clients \ {p} : jmem'[q] = jmem[q] /\ jpc'[q] = jpc[q]
        /\ UNCHANGED <<jfile, jwrote>>
    BY <1>6 DEF AddEntry, JsonTypeOK
  <2> HIDE DEF e
  <2> QED  BY <2>2, <2>3, <2>4 DEF TreesOK
<1>7. CASE Truncate(p)
  BY <1>7, NoTree DEF Truncate, NoBytes, JsonTypeOK, TreesOK
<1>8. CASE WriteJSON(p)
  <2>1. /\ jfile'.entries = jmem[p] /\ jwrote' = jwrote \cup jmem[p]
        /\ UNCHANGED jmem
    BY <1>8 DEF WriteJSON, Whole
  <2>2. \A q \in Clients :
          jpc'[q] \in {"held", "released", "read", "keep"} => q \in Keepers
    BY <1>8 DEF WriteJSON, JsonTypeOK, TreesOK
  <2> QED  BY <2>1, <2>2 DEF TreesOK
<1>9. CASE KillClient(p)
  <2>1. jfile' = jfile \/ jfile'.entries = {}
    BY <1>9 DEF KillClient, NoBytes, Torn
  <2> QED  BY <1>9, <2>1, NoTree DEF KillClient, JsonTypeOK, TreesOK
<1> QED
  BY <1>0, <1>1, <1>2, <1>4, <1>6, <1>7, <1>8, <1>9

LEMMA FileStep ==
  ASSUME JsonInv, JsonNext
  PROVE  FileOK'
<1> USE DEF JsonInv
<1>0. PICK p \in Clients :
        \/ OpenDB(p) \/ ReSyncWithFile(p) \/ Exit(p)
        \/ SyncWithFile(p) \/ ParseFails(p) \/ KeepMemory(p) \/ AddEntry(p)
        \/ CloseHeld(p) \/ Truncate(p) \/ WriteJSON(p) \/ LockAborts(p) \/ KillClient(p)
  BY DEF JsonNext
<1>1. CASE /\ jpc[p] # "writing" /\ UNCHANGED <<jfaults, jfile, jwrote>>
           /\ \A q \in Clients \ {p} : jpc'[q] = jpc[q]
  BY <1>1 DEF FileOK
<1>2. CASE \/ OpenDB(p) \/ ReSyncWithFile(p) \/ Exit(p)
           \/ SyncWithFile(p) \/ ParseFails(p) \/ KeepMemory(p) \/ AddEntry(p)
           \/ CloseHeld(p) \/ LockAborts(p)
  <2>1. /\ jpc[p] # "writing" /\ UNCHANGED <<jfaults, jfile, jwrote>>
        /\ \A q \in Clients \ {p} : jpc'[q] = jpc[q]
    BY <1>2 DEF OpenDB, ReSyncWithFile, Exit, SyncWithFile, Opened, ParseFails, KeepMemory,
                AddEntry, CloseHeld, LockAborts, JsonTypeOK
  <2> QED  BY <1>1, <2>1
<1>3. CASE Truncate(p)
  BY <1>3 DEF Truncate, NoBytes, FileOK, JsonTypeOK
<1>4. CASE WriteJSON(p)
  BY <1>4 DEF WriteJSON, Whole, FileOK
<1>5. CASE KillClient(p)
  BY <1>5 DEF KillClient, FileOK
<1> QED
  BY <1>0, <1>2, <1>3, <1>4, <1>5

\* A process that takes the lock has a tree with W in it, when the file has it.
LEMMA KeptByReader ==
  ASSUME JsonInv, "kill" \notin jfaults, NEW W, W \subseteq jwrote, Kept(W), jlock = NoClient
  PROVE  W \subseteq jfile.entries
<1>1. \A q \in Clients : jpc[q] # "writing"
  BY NoClientIsNone DEF JsonInv, JsonTypeOK
<1>2. jfile.state = "whole" \/ jwrote = {}
  BY <1>1 DEF JsonInv, JsonTypeOK, FileOK
<1> QED  BY <1>2 DEF Kept

\* Steps that do not write the file.
LEMMA KeptStep ==
  ASSUME JsonInv, "kill" \notin jfaults, NEW W, W \subseteq jwrote, Kept(W), NEW p \in Clients,
         \/ OpenDB(p) \/ ReSyncWithFile(p) \/ Exit(p)
         \/ SyncWithFile(p) \/ ParseFails(p) \/ KeepMemory(p) \/ AddEntry(p)
         \/ CloseHeld(p) \/ Truncate(p) \/ LockAborts(p),
         KeepMemory(p) => W \subseteq jmem[p]
  PROVE  Kept(W)'
<1> USE DEF JsonInv, Locked
<1>1. CASE OpenDB(p) \/ Exit(p) \/ ParseFails(p) \/ LockAborts(p) \/ CloseHeld(p)
  BY <1>1 DEF OpenDB, Exit, ParseFails, LockAborts, CloseHeld, JsonTypeOK, Kept
<1>2. CASE ReSyncWithFile(p)
  BY <1>2 DEF ReSyncWithFile, JsonTypeOK, Kept
<1>3. CASE SyncWithFile(p)
  <2>1. W \subseteq jfile.entries
    BY <1>3, KeptByReader DEF SyncWithFile
  <2> QED  BY <1>3, <2>1 DEF SyncWithFile, Opened, JsonTypeOK, Kept
<1>4. CASE KeepMemory(p)
  BY <1>4 DEF KeepMemory, JsonTypeOK, Kept
<1>5. CASE AddEntry(p)
  BY <1>5 DEF AddEntry, JsonTypeOK, Kept
<1>6. CASE Truncate(p)
  BY <1>6 DEF Truncate, NoBytes, JsonTypeOK, Kept
<1> QED  BY <1>1, <1>2, <1>3, <1>4, <1>5, <1>6

\* The file is written by one process, and nobody else is locked.
LEMMA KeptByWriter ==
  ASSUME JsonInv, NEW p \in Clients, WriteJSON(p), NEW W, W \subseteq jmem[p]
  PROVE  /\ jfile'.entries = jmem[p] /\ UNCHANGED <<jfaults, jmem, jraced>>
         /\ jwrote' = jwrote \cup jmem[p]
         /\ \A q \in Clients : jpc'[q] \notin Locked
         /\ W \subseteq jfile'.entries
         /\ \A q \in Clients \ {p} : jpc'[q] = jpc[q]
<1>1. jlock = p
  BY DEF WriteJSON, JsonInv, JsonTypeOK
<1>2. \A q \in Clients \ {p} : jpc[q] \notin Locked
  BY <1>1, OthersUnlocked DEF JsonInv
<1> QED  BY <1>2 DEF WriteJSON, Whole, Locked, JsonInv, JsonTypeOK

LEMMA WrittenStep ==
  ASSUME JsonInv, JsonNext
  PROVE  WrittenKept'
<1> SUFFICES ASSUME "kill" \notin jfaults', ~jraced' PROVE Kept(jwrote)' /\ Distinct(jwrote)'
  BY DEF WrittenKept
<1>0. PICK p \in Clients :
        \/ OpenDB(p) \/ ReSyncWithFile(p) \/ Exit(p)
        \/ SyncWithFile(p) \/ ParseFails(p) \/ KeepMemory(p) \/ AddEntry(p)
        \/ CloseHeld(p) \/ Truncate(p) \/ WriteJSON(p) \/ LockAborts(p) \/ KillClient(p)
  BY DEF JsonNext
<1>1. jfaults' = jfaults /\ ~jraced /\ (KeepMemory(p) => jfile.entries = jmem[p])
  <2>1. CASE KeepMemory(p)
    BY <2>1, ZenonT(30) DEF KeepMemory
  <2>2. CASE ~KeepMemory(p)
    BY <1>0, <2>2 DEF OpenDB, ReSyncWithFile, Exit, SyncWithFile, ParseFails, AddEntry,
              CloseHeld, Truncate, WriteJSON, LockAborts, KillClient
  <2> QED  BY <2>1, <2>2
<1>2. Kept(jwrote) /\ Distinct(jwrote)
  BY <1>1 DEF JsonInv, WrittenKept
<1>3. CASE WriteJSON(p)
  <2>1. jwrote \subseteq jmem[p] /\ Tree(jmem[p])
    BY <1>2, <1>3 DEF WriteJSON, Kept, Locked, JsonInv, TreesOK
  <2>2. jwrote' = jmem[p]
    BY <1>3, <2>1, KeptByWriter
  <2> QED  BY <1>3, <2>1, <2>2, KeptByWriter DEF Kept, Tree, Distinct
<1>4. CASE ~WriteJSON(p)
  <2>1. ~KillClient(p)
    BY <1>1 DEF KillClient
  <2>2. jwrote' = jwrote
    BY <1>0, <1>4, <2>1 DEF OpenDB, ReSyncWithFile, Exit, SyncWithFile, ParseFails,
              KeepMemory, AddEntry, CloseHeld, Truncate, LockAborts
  <2>3. KeepMemory(p) => jwrote \subseteq jmem[p]
    <3>1. KeepMemory(p) => jlock = NoClient
      BY DEF KeepMemory
    <3> QED  BY <1>1, <1>2, <3>1, KeptByReader
  <2>4. \A W : W = jwrote => Kept(W)'
    BY <1>0, <1>1, <1>2, <1>4, <2>1, <2>3, KeptStep
  <2>5. Kept(jwrote)'
    BY <2>2, <2>4 DEF Kept
  <2> QED  BY <1>2, <2>2, <2>5 DEF Distinct
<1> QED  BY <1>3, <1>4

LEMMA OwnStep ==
  ASSUME JsonInv, JsonNext
  PROVE  OwnKept'
<1> SUFFICES ASSUME NEW k \in Keepers, Keepers = {k}, "kill" \notin jfaults'
             PROVE  /\ Kept(OwnOf(k))'
                    /\ jpc'[k] \in {"released", "keep"} => OwnOf(k)' \subseteq jmem'[k]
  BY DEF OwnKept
<1> USE DEF JsonInv
<1>0. PICK p \in Clients :
        \/ OpenDB(p) \/ ReSyncWithFile(p) \/ Exit(p)
        \/ SyncWithFile(p) \/ ParseFails(p) \/ KeepMemory(p) \/ AddEntry(p)
        \/ CloseHeld(p) \/ Truncate(p) \/ WriteJSON(p) \/ LockAborts(p) \/ KillClient(p)
  BY DEF JsonNext
<1>1. jfaults' = jfaults /\ k \in Clients
  BY <1>0 DEF OpenDB, ReSyncWithFile, Exit, SyncWithFile, ParseFails, KeepMemory, AddEntry,
              CloseHeld, Truncate, WriteJSON, LockAborts, KillClient, Clients
<1>2. Kept(OwnOf(k)) /\ (jpc[k] \in {"released", "keep"} => OwnOf(k) \subseteq jmem[k])
  BY <1>1 DEF OwnKept
<1>3. OwnOf(k) \subseteq jwrote
  BY DEF OwnOf
<1>4. CASE WriteJSON(p)
  <2>1. OwnOf(k) \subseteq jmem[p]
    BY <1>2, <1>4 DEF WriteJSON, Kept, Locked
  <2>2. OwnOf(k)' = OwnOf(k) \cup {x \in jmem[p] : x.by = k}
    BY <1>4, KeptByWriter DEF OwnOf
  <2>3. OwnOf(k)' \subseteq jmem[p]
    BY <2>1, <2>2
  <2>4. p # k => OwnOf(k)' = OwnOf(k)
    BY <1>1, <2>2 DEF TreesOK, OwnOf
  <2>5. Kept(OwnOf(k))'
    BY <1>4, <2>3, KeptByWriter DEF Kept
  <2>6. jpc'[k] \in {"released", "keep"} => OwnOf(k)' \subseteq jmem'[k]
    <3>1. CASE p = k
      BY <1>4, <2>3, <3>1, KeptByWriter
    <3>2. CASE p # k
      BY <1>1, <1>2, <1>4, <2>4, <3>2, KeptByWriter
    <3> QED  BY <3>1, <3>2
  <2> QED  BY <2>5, <2>6
<1>5. CASE ~WriteJSON(p)
  <2>1. ~KillClient(p)
    BY <1>1 DEF KillClient
  <2>2. jwrote' = jwrote
    BY <1>0, <1>5, <2>1 DEF OpenDB, ReSyncWithFile, Exit, SyncWithFile, ParseFails,
              KeepMemory, AddEntry, CloseHeld, Truncate, LockAborts
  <2>3. KeepMemory(p) => p = k
    BY DEF KeepMemory, TreesOK
  <2>4. KeepMemory(p) => OwnOf(k) \subseteq jmem[p]
    BY <1>2, <2>3 DEF KeepMemory
  <2>5. \A W : W = OwnOf(k) => Kept(W)'
    BY <1>0, <1>1, <1>2, <1>3, <1>5, <2>1, <2>4, KeptStep
  <2>6. OwnOf(k)' = OwnOf(k)
    BY <2>2 DEF OwnOf
  <2>7. Kept(OwnOf(k))'
    BY <2>5, <2>6 DEF Kept
  <2>8. jpc'[k] \in {"released", "keep"} =>
          jpc[k] \in {"released", "keep"} /\ jmem'[k] = jmem[k]
    BY <1>0, <1>1, <1>5, <2>1
       DEF OpenDB, ReSyncWithFile, Exit, SyncWithFile, Opened, ParseFails, KeepMemory,
           AddEntry, CloseHeld, Truncate, LockAborts, JsonTypeOK
  <2> QED  BY <1>2, <2>6, <2>7, <2>8
<1> QED  BY <1>4, <1>5

LEMMA JsonInvariant == JsonSpec => []JsonInv
<1>1. JsonInv /\ [JsonNext]_jsonVars => JsonInv'
  <2> SUFFICES ASSUME JsonInv, [JsonNext]_jsonVars PROVE JsonInv'
    OBVIOUS
  <2>1. CASE JsonNext
    BY <2>1, JsonTypeStep, TreesStep, FileStep, WrittenStep, OwnStep DEF JsonInv
  <2>2. CASE UNCHANGED jsonVars
    <3>1. JsonTypeOK'
      BY <2>2 DEF jsonVars, JsonInv, JsonTypeOK
    <3>2. TreesOK' /\ FileOK'
      BY <2>2 DEF jsonVars, JsonInv, TreesOK, FileOK
    <3>3. WrittenKept' /\ OwnKept'
      BY <2>2 DEF jsonVars, JsonInv, WrittenKept, OwnKept, OwnOf, Kept, Distinct
    <3> QED  BY <3>1, <3>2, <3>3 DEF JsonInv
  <2> QED  BY <2>1, <2>2
<1> QED  BY <1>1, JsonInitInv, PTL DEF JsonSpec

\* For any number of tools and keepers, the lock is with the one process that is
\* between flock() and close().
THEOREM DatabaseTyped == JsonSpec => []JsonTypeOK
BY JsonInvariant, PTL DEF JsonInv

\* Nothing that was written to the database is lost and no JUID is given twice,
\* unless a writer is killed or a keeper kept a tree that is not the file's.
THEOREM NothingLost == JsonSpec => []LostOnlyByRace
<1>1. JsonInv => LostOnlyByRace
  BY DEF JsonInv, WrittenKept, Kept, Distinct, LostOnlyByRace
<1> QED  BY <1>1, JsonInvariant, PTL

\* The only keeper never loses what it has written itself.
THEOREM OwnEntriesKept == JsonSpec => []KeeperKeepsOwn
<1>1. JsonInv => KeeperKeepsOwn
  BY DEF JsonInv, OwnKept, OwnOf, Kept, KeeperKeepsOwn
<1> QED  BY <1>1, JsonInvariant, PTL
=============================================================================
