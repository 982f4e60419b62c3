------------------------------ MODULE JsonSync -------------------------------
(***************************************************************************)
(* The database of a night, astro_db.json: DATA_LIB/json.cc, astro_db.cc.  *)
(* Every process reads the whole file under flock(), changes its tree in   *)
(* memory and writes the whole file again.  Tools (stack, photometry, diff *)
(* photometry, merge) do that once.  Keepers (a session, the analyzer)     *)
(* release the file, go on working, and take it back with ReSyncWithFile(),*)
(* which reads the file again only if its modification time is later than  *)
(* the release.                                                            *)
(***************************************************************************)
EXTENDS Integers, FiniteSets

CONSTANTS
  Keepers, Tools,  \* processes
  NoClient,        \* the file is not locked
  MaxMakes,        \* bound: entries one process adds
  JsonFaultKinds   \* bound: the subset of Kinds below that may happen

\* kill: a process is killed;  tick: a write falls into the clock tick of an
\* earlier release (the kernel's file times are coarse);  sigchld: a signal
\* interrupts flock().
Kinds == {"kill", "tick", "sigchld"}

ASSUME JsonSyncConstants ==
  /\ Keepers \cap Tools = {} /\ NoClient \notin Keepers \cup Tools
  /\ MaxMakes \in Nat /\ JsonFaultKinds \subseteq Kinds

Clients == Keepers \cup Tools

\* An item of a list ("exposures", "stacks", "sets"...), the n-th its maker made.
JsonEntry == [juid : Nat, by : Clients, n : Nat]

VARIABLES
  jfaults,  \* the faults of this behaviour, chosen at the start
  jfile,    \* what is in the file: no bytes, a part of a tree, or a whole tree
  jlock,    \* the process that has the flock
  jpc,      \* where each process is
  jmem,     \* the tree it has in memory
  jnewer,   \* the file's modification time is later than its time_of_release
  jmade,    \* how many entries it has made
  jwrote,   \* history: every entry that ever was in a whole file
  jraced    \* history: a keeper kept a tree that was no longer the file's

jsonVars == <<jfaults, jfile, jlock, jpc, jmem, jnewer, jmade, jwrote, jraced>>

NoBytes == [state |-> "empty", entries |-> {}]
Torn == [state |-> "torn", entries |-> {}]
Whole(S) == [state |-> "whole", entries |-> S]

JsonInit ==
  /\ jfaults \in SUBSET JsonFaultKinds
  /\ jfile = NoBytes /\ jlock = NoClient
  /\ jpc = [p \in Clients |-> "off"]
  /\ jmem = [p \in Clients |-> {}]
  /\ jnewer = [p \in Clients |-> FALSE]
  /\ jmade = [p \in Clients |-> 0]
  /\ jwrote = {} /\ jraced = FALSE

-----------------------------------------------------------------------------
\* JUID::Initialize() and GetNextJUID(): one more than the largest in memory.
NextJUID(S) == CHOOSE j \in {0} \cup {x.juid + 1 : x \in S} : \A x \in S : x.juid < j

\* A write by p gives the file a time later than the releases of the others.
Touch(p) ==
  \/ jnewer' = [q \in Clients |-> q # p]
  \/ "tick" \in jfaults /\ jnewer' = [jnewer EXCEPT ![p] = FALSE]

LeaveLock(p) == IF jlock = p THEN NoClient ELSE jlock

\* The constructor of AstroDB, up to flock(); open() creates the file.
OpenDB(p) ==
  /\ jpc[p] = "off"
  /\ jpc' = [jpc EXCEPT ![p] = "open"]
  /\ UNCHANGED <<jfaults, jfile, jlock, jmem, jnewer, jmade, jwrote, jraced>>

\* A keeper holds the file it opened until it first writes it.
Opened(p) ==
  jpc' = [jpc EXCEPT ![p] = IF @ = "open" /\ p \in Keepers THEN "held" ELSE "active"]

\* Mutant: the file is read without waiting for the lock.
M_SyncWithFile(p) ==
  /\ jpc[p] \in {"open", "read"}
  /\ jfile.state # "torn"
  /\ jlock' = p
  /\ jmem' = [jmem EXCEPT ![p] = jfile.entries]
  /\ Opened(p)
  /\ UNCHANGED <<jfaults, jfile, jnewer, jmade, jwrote, jraced>>

\* SyncWithFile(): the lock, then all of the file.  Without bytes it is a new
\* database.  Programs that open it to read only take no lock (json.cc:88), may
\* find the file truncated, and write nothing: they are left out.
SyncWithFile(p) ==
  /\ jpc[p] \in {"open", "read"} /\ jlock = NoClient
  /\ jfile.state # "torn"
  /\ jlock' = p
  /\ jmem' = [jmem EXCEPT ![p] = jfile.entries]
  /\ Opened(p)
  /\ UNCHANGED <<jfaults, jfile, jnewer, jmade, jwrote, jraced>>

\* A part of a tree: kill(0, SIGABRT).
ParseFails(p) ==
  /\ jpc[p] \in {"open", "read"} /\ jlock = NoClient
  /\ jfile.state = "torn"
  /\ jpc' = [jpc EXCEPT ![p] = "gone"]
  /\ UNCHANGED <<jfaults, jfile, jlock, jmem, jnewer, jmade, jwrote, jraced>>

\* The lists of AstroDB that grow: a directive, an exposure, a set, a target.
\* A keeper whose last Close() did not release the file goes on here: its
\* Reactivate() returns at once.
AddEntry(p) ==
  /\ jpc[p] \in {"active", "held"} /\ jmade[p] < MaxMakes
  /\ jmade' = [jmade EXCEPT ![p] = @ + 1]
  /\ jmem' = [jmem EXCEPT ![p] =
       @ \cup {[juid |-> NextJUID(@), by |-> p, n |-> jmade[p] + 1]}]
  /\ jpc' = [jpc EXCEPT ![p] = "changed"]
  /\ UNCHANGED <<jfaults, jfile, jlock, jnewer, jwrote, jraced>>

\* DB_Measurement::Close() with more than one set returns before
\* SyncAndRelease().
CloseHeld(p) ==
  /\ p \in Keepers /\ jpc[p] = "changed"
  /\ jpc' = [jpc EXCEPT ![p] = "held"]
  /\ UNCHANGED <<jfaults, jfile, jlock, jmem, jnewer, jmade, jwrote, jraced>>

\* WriteAndReleaseFileSync(): ftruncate() ...
Truncate(p) ==
  /\ jpc[p] = "changed"
  /\ jfile' = NoBytes /\ Touch(p)
  /\ jpc' = [jpc EXCEPT ![p] = "writing"]
  /\ UNCHANGED <<jfaults, jlock, jmem, jmade, jwrote, jraced>>

\* Mutant: the descriptor, and so the lock, is not closed.
M_WriteJSON(p) ==
  /\ jpc[p] = "writing"
  /\ jfile' = Whole(jmem[p]) /\ Touch(p)
  /\ jwrote' = jwrote \cup jmem[p]
  /\ jpc' = [jpc EXCEPT ![p] = IF p \in Keepers THEN "released" ELSE "gone"]
  /\ UNCHANGED <<jfaults, jlock, jmem, jmade, jraced>>

\* ... then WriteJSON(), the time of release, and close().
WriteJSON(p) ==
  /\ jpc[p] = "writing"
  /\ jfile' = Whole(jmem[p]) /\ Touch(p)
  /\ jlock' = LeaveLock(p)
  /\ jwrote' = jwrote \cup jmem[p]
  /\ jpc' = [jpc EXCEPT ![p] = IF p \in Keepers THEN "released" ELSE "gone"]
  /\ UNCHANGED <<jfaults, jmem, jmade, jraced>>

\* Mutant: the tree is killed and not read again.
M_ReSyncWithFile(p) ==
  /\ jpc[p] = "released" /\ jmade[p] < MaxMakes
  /\ jmem' = [jmem EXCEPT ![p] = IF jnewer[p] THEN {} ELSE @]
  /\ jpc' = [jpc EXCEPT ![p] = "keep"]
  /\ UNCHANGED <<jfaults, jfile, jlock, jnewer, jmade, jwrote, jraced>>

\* ReSyncWithFile(): stat(), and what is decided by it, before flock().
ReSyncWithFile(p) ==
  /\ jpc[p] = "released" /\ jmade[p] < MaxMakes
  /\ IF jnewer[p]
     THEN /\ jpc' = [jpc EXCEPT ![p] = "read"]
          /\ jmem' = [jmem EXCEPT ![p] = {}]
     ELSE jpc' = [jpc EXCEPT ![p] = "keep"] /\ UNCHANGED jmem
  /\ UNCHANGED <<jfaults, jfile, jlock, jnewer, jmade, jwrote, jraced>>

\* The other branch: the lock, and the tree that is in memory.
KeepMemory(p) ==
  /\ jpc[p] = "keep" /\ jlock = NoClient
  /\ jlock' = p
  /\ jraced' = (jraced \/ jfile.entries # jmem[p])
  /\ jpc' = [jpc EXCEPT ![p] = "active"]
  /\ UNCHANGED <<jfaults, jfile, jmem, jnewer, jmade, jwrote>>

\* flock() returns -1 (EINTR), because a background task ended: kill(0, SIGABRT).
LockAborts(p) ==
  /\ "sigchld" \in jfaults /\ p \in Keepers
  /\ jpc[p] \in {"open", "read", "keep"} /\ jlock # NoClient
  /\ jpc' = [jpc EXCEPT ![p] = "gone"]
  /\ UNCHANGED <<jfaults, jfile, jlock, jmem, jnewer, jmade, jwrote, jraced>>

\* The program ends with what it has in memory.
Exit(p) ==
  /\ p \in Keepers /\ jpc[p] \in {"released", "held"}
  /\ jpc' = [jpc EXCEPT ![p] = "gone"]
  /\ jlock' = LeaveLock(p)
  /\ UNCHANGED <<jfaults, jfile, jmem, jnewer, jmade, jwrote, jraced>>

\* The program is killed; between ftruncate() and close() the file keeps
\* whatever part was written.
KillClient(p) ==
  /\ "kill" \in jfaults /\ jpc[p] \notin {"off", "gone"}
  /\ jpc' = [jpc EXCEPT ![p] = "gone"]
  /\ jlock' = LeaveLock(p)
  /\ jfile' \in IF jpc[p] = "writing" THEN {NoBytes, Torn} ELSE {jfile}
  /\ UNCHANGED <<jfaults, jmem, jnewer, jmade, jwrote, jraced>>

-----------------------------------------------------------------------------
\* What a process does once it has asked for the file.
JsonWork(p) ==
  \/ SyncWithFile(p) \/ ParseFails(p) \/ KeepMemory(p)
  \/ jpc[p] = "active" /\ AddEntry(p)
  \/ Truncate(p) \/ WriteJSON(p)

JsonNext ==
  \E p \in Clients :
    \/ OpenDB(p) \/ ReSyncWithFile(p) \/ Exit(p)
    \/ SyncWithFile(p) \/ ParseFails(p) \/ KeepMemory(p) \/ AddEntry(p)
    \/ CloseHeld(p) \/ Truncate(p) \/ WriteJSON(p) \/ LockAborts(p) \/ KillClient(p)

JsonSpec == JsonInit /\ [][JsonNext]_jsonVars
JsonFairSpec == JsonSpec /\ \A p \in Clients : WF_jsonVars(JsonWork(p))

-----------------------------------------------------------------------------
(* Properties.                                                             *)

JsonPlaces == {"off", "open", "read", "active", "changed", "held", "writing", "released",
               "keep", "gone"}

\* Types; and the lock is with the one process that is between flock() and
\* close().
JsonTypeOK ==
  /\ jfaults \subseteq JsonFaultKinds
  /\ jfile \in [state : {"empty", "torn", "whole"}, entries : SUBSET JsonEntry]
  /\ jlock \in Clients \cup {NoClient} /\ jpc \in [Clients -> JsonPlaces]
  /\ jmem \in [Clients -> SUBSET JsonEntry] /\ jnewer \in [Clients -> BOOLEAN]
  /\ jmade \in [Clients -> 0 .. MaxMakes]
  /\ jwrote \subseteq JsonEntry /\ jraced \in BOOLEAN
  /\ \A p \in Clients :
       jpc[p] \in {"active", "changed", "held", "writing"} <=> jlock = p

\* What is in the database stays in it, and no JUID is ever given to two
\* entries, as long as nobody is killed while writing and no keeper kept a tree
\* that was no longer the file's.
LostOnlyByRace ==
  "kill" \notin jfaults /\ ~jraced =>
    /\ jfile.state = "whole" => jwrote \subseteq jfile.entries
    /\ \A x, y \in jwrote : x.juid = y.juid => x = y

\* Whatever others do, and even when it kept an old tree, the only keeper
\* never loses an entry it has written.
KeeperKeepsOwn ==
  \A k \in Keepers :
    Keepers = {k} /\ "kill" \notin jfaults /\ jfile.state = "whole" =>
      {x \in jwrote : x.by = k} \subseteq jfile.entries

\* A process that waits for the database gets it, or is aborted, or a keeper
\* sits on the lock: it has not written the file since it opened it, or its
\* last Close() did not release it.
DatabaseObtained ==
  \A p \in Clients :
    jpc[p] \in {"open", "read", "keep"} ~>
      \/ jpc[p] \notin {"open", "read", "keep"}
      \/ \E k \in Keepers : jpc[k] = "held"
=============================================================================
