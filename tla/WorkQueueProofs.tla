--------------------------- MODULE WorkQueueProofs ---------------------------
(***************************************************************************)
(* Proofs about WorkQueue: the lock, the UIDs, the wake-up of the workers, *)
(* and that it implements WorkLog, for every number of workers, tasks and  *)
(* files and with any number of crashes; where flock() is never            *)
(* interrupted, and, for the UIDs and the log, also where it is, with one  *)
(* session.                                                                *)
(***************************************************************************)
EXTENDS WorkQueue, TLAPS

\* No SIGCHLD ends the flock() of GetLock(), or no two sessions write.
Undisturbed == "sigchld" \notin Faults
OneSession == \A r, s \in Sessions : r = s

USE DEF Undisturbed

-----------------------------------------------------------------------------
(* The inductive invariant.                                                *)

\* Whoever is between GetLock() and ReleaseLock() has the flock, but for a
\* session that was interrupted.
Mutex ==
  /\ Undisturbed => \A s \in Sessions : spc[s] \in {"sync", "write"} => holder = s
  /\ \A w \in Workers : wpc[w] \in {"locked", "mark", "measure"} => holder = w

\* The UID of a line says how many lines precede it, in the file and in every
\* list of lines.
Numbered ==
  /\ \A i \in DOMAIN file : file[i].uid = UidAfter(i - 1)
  /\ \A p \in Processes : Len(seen[p]) <= Len(file)
  /\ \A p \in Processes : \A i \in DOMAIN seen[p] : seen[p][i] = UidAfter(i - 1)

\* What a session measured is still so, for only one writes; what a worker
\* measured under the lock is, unless a session writes without it.
Measured ==
  /\ \A s \in Sessions : spc[s] = "write" =>
       where[s] = Len(file) + 1 /\ Len(seen[s]) = Len(file)
  /\ Undisturbed => \A w \in Workers : wpc[w] = "measure" => Len(seen[w]) = Len(file)
  /\ Undisturbed => \A w \in Workers : wpc[w] = "wait" =>
       length[w] = Len(seen[w]) /\ (Len(file) # length[w] => event[w])

\* The line a worker is about to mark is a TASK, and the one it remembers.
Marking ==
  \A w \in Workers : wpc[w] = "mark" =>
    \E i \in DOMAIN file : current[w] = UidAfter(i - 1) /\ file[i].text.kind = "TASK"

Inv == TypeOK /\ Mutex /\ Numbered /\ Measured /\ Marking

-----------------------------------------------------------------------------
(* Operators.                                                              *)

\* UIDs number the lines.
LEMMA UidInjective ==
  ASSUME NEW i \in Int, NEW k \in Int, UidAfter(i) = UidAfter(k) PROVE i = k
BY DEF UidAfter

LEMMA UidNat == \A n \in Nat : UidAfter(n) \in Nat /\ UidAfter(n) # WQ_None
BY DEF UidAfter, WQ_None

\* SyncFile() makes a list as long as the file, of the UIDs of its lines.
LEMMA SyncFileResult ==
  ASSUME TypeOK, Numbered, NEW known \in Seq(Nat), Len(known) <= Len(file),
         \A i \in DOMAIN known : known[i] = UidAfter(i - 1)
  PROVE  /\ SyncFile(known) \in Seq(Nat)
         /\ Len(SyncFile(known)) = Len(file)
         /\ DOMAIN SyncFile(known) = 1 .. Len(file)
         /\ \A i \in 1 .. Len(file) : SyncFile(known)[i] = UidAfter(i - 1)
<1>1. file \in Seq(Line) /\ Len(file) \in Nat /\ DOMAIN file = 1 .. Len(file)
  BY DEF TypeOK
<1>2. Len(known) \in Nat /\ DOMAIN known = 1 .. Len(known)
  OBVIOUS
<1>3. \A i \in 1 .. Len(file) :
        (IF i <= Len(known) THEN known[i] ELSE file[i].uid) = UidAfter(i - 1)
  BY <1>1, <1>2 DEF Numbered
<1>4. \A i \in 1 .. Len(file) : UidAfter(i - 1) \in Nat
  <2>1. \A i \in 1 .. Len(file) : i - 1 \in Nat
    BY <1>1
  <2> QED  BY <2>1, UidNat
<1> QED  BY <1>1, <1>3, <1>4 DEF SyncFile

\* FindUID() finds the line itself.
LEMMA FindUIDResult ==
  ASSUME NEW lines \in Seq(Nat), NEW i \in DOMAIN lines,
         \A k \in DOMAIN lines : lines[k] = UidAfter(k - 1)
  PROVE  FindUID(lines, lines[i]) = i
<1>1. \A k \in DOMAIN lines : lines[k] = lines[i] => k = i
  BY UidInjective
<1>2. \A k \in 1 .. i - 1 : lines[k] # lines[i]
  BY <1>1
<1> QED  BY <1>1, <1>2 DEF FindUID

\* What a process gets to know when it synchronises.
LEMMA SyncSeen ==
  ASSUME Inv, NEW p \in Processes
  PROVE  /\ SyncFile(seen[p]) \in Seq(Nat)
         /\ Len(SyncFile(seen[p])) = Len(file)
         /\ DOMAIN SyncFile(seen[p]) = 1 .. Len(file)
         /\ \A i \in 1 .. Len(file) : SyncFile(seen[p])[i] = UidAfter(i - 1)
BY SyncFileResult DEF Inv, TypeOK, Numbered

LEMMA SyncNew ==
  ASSUME Inv
  PROVE  /\ SyncFile(<<>>) \in Seq(Nat)
         /\ Len(SyncFile(<<>>)) = Len(file)
         /\ \A i \in DOMAIN SyncFile(<<>>) : SyncFile(<<>>)[i] = UidAfter(i - 1)
<1> DEFINE none == <<>>
<1>1. none \in Seq(Nat) /\ Len(none) = 0 /\ DOMAIN none = {}
  OBVIOUS
<1>2. Len(file) \in Nat /\ TypeOK /\ Numbered
  BY DEF Inv, TypeOK
<1> HIDE DEF none
<1>3. Len(none) <= Len(file) /\ \A i \in DOMAIN none : none[i] = UidAfter(i - 1)
  BY <1>1, <1>2
<1>4. /\ SyncFile(none) \in Seq(Nat)
      /\ Len(SyncFile(none)) = Len(file)
      /\ DOMAIN SyncFile(none) = 1 .. Len(file)
      /\ \A i \in 1 .. Len(file) : SyncFile(none)[i] = UidAfter(i - 1)
  BY <1>1, <1>2, <1>3, SyncFileResult
<1> QED  BY <1>4 DEF none

\* The worker handles the line whose UID it keeps.
LEMMA TakeLineAt ==
  ASSUME Inv, NEW w \in Workers, NEW i \in Following(w)
  PROVE  /\ i \in DOMAIN file
         /\ SyncFile(seen[w])[i] = UidAfter(i - 1)
         /\ FindUID(SyncFile(seen[w]), SyncFile(seen[w])[i]) = i
<1> DEFINE lines == SyncFile(seen[w])
<1>1. /\ lines \in Seq(Nat) /\ DOMAIN lines = 1 .. Len(file) /\ Len(lines) = Len(file)
      /\ \A k \in 1 .. Len(file) : lines[k] = UidAfter(k - 1)
  BY SyncSeen DEF Processes
<1>2. i \in 1 .. Len(file)
  BY <1>1 DEF Following
<1>3. DOMAIN file = 1 .. Len(file)
  BY DEF Inv, TypeOK
<1> HIDE DEF lines
<1>4. FindUID(lines, lines[i]) = i
  BY <1>1, <1>2, FindUIDResult
<1> QED  BY <1>1, <1>2, <1>3, <1>4 DEF lines

\* A session neither is nor becomes a worker.
LEMMA Apart == Sessions \cap Workers = {} /\ None \notin Processes
BY WorkQueueConstants DEF Processes

\* No two sessions add a line at a time.
LEMMA OneWriter ==
  ASSUME Undisturbed \/ OneSession, Mutex, NEW r \in Sessions, NEW s \in Sessions,
         spc[r] \in {"sync", "write"}, spc[s] \in {"sync", "write"}
  PROVE  r = s
BY DEF OneSession, Mutex

-----------------------------------------------------------------------------
(* The steps.                                                              *)

LEMMA InitInv == Init => Inv
<1> SUFFICES ASSUME Init PROVE Inv
  OBVIOUS
<1>1. <<>> \in Seq(Line) /\ <<>> \in Seq(Nat) /\ <<>> \in Seq(Tasks)
  OBVIOUS
<1>2. TypeOK
  <2>1. Fini \in Text
    BY DEF Fini, Text
  <2>2. text \in [Sessions -> Text] /\ where \in [Sessions -> Nat]
        /\ spc \in [Sessions -> {"off", "idle", "sync", "write", "over"}]
    BY <2>1 DEF Init
  <2>3. wpc \in [Workers -> WorkerPlaces] /\ current \in [Workers -> Nat \cup {WQ_None}]
        /\ length \in [Workers -> Nat] /\ todo \in [Workers -> Tasks \cup {None}]
    BY DEF Init, WorkerPlaces
  <2>4. file \in Seq(Line) /\ ran \in Seq(Tasks) /\ seen \in [Processes -> Seq(Nat)]
    BY <1>1 DEF Init
  <2> QED  BY <2>2, <2>3, <2>4 DEF Init, TypeOK
<1>3. Mutex
  BY DEF Init, Mutex
<1>4. Numbered
  BY DEF Init, Numbered
<1>5. Measured
  BY DEF Init, Measured
<1>6. Marking
  BY DEF Init, Marking
<1> QED  BY <1>2, <1>3, <1>4, <1>5, <1>6 DEF Inv

\* The lists of a process that synchronises stay numbered.
LEMMA SeenUpdate ==
  ASSUME Inv, NEW p \in Processes, NEW lines \in Seq(Nat), Len(lines) <= Len(file),
         \A i \in DOMAIN lines : lines[i] = UidAfter(i - 1),
         seen' = [seen EXCEPT ![p] = lines], file' = file
  PROVE  Numbered' /\ seen' \in [Processes -> Seq(Nat)]
BY DEF Inv, TypeOK, Numbered

LEMMA OpenInv ==
  ASSUME Inv, NEW s \in Sessions, Open(s) PROVE Inv'
<1> USE DEF Open
<1>1. s \in Processes
  BY DEF Processes
<1>2. Numbered' /\ seen' \in [Processes -> Seq(Nat)]
  <2> DEFINE lines == SyncFile(<<>>)
  <2>1. /\ lines \in Seq(Nat) /\ Len(lines) = Len(file)
        /\ \A i \in DOMAIN lines : lines[i] = UidAfter(i - 1)
    BY SyncNew
  <2>2. seen' = [seen EXCEPT ![s] = lines] /\ file' = file /\ Len(file) \in Nat
    BY DEF Inv, TypeOK
  <2> HIDE DEF lines
  <2>3. Len(lines) <= Len(file)
    BY <2>1, <2>2
  <2> QED  BY <1>1, <2>1, <2>2, <2>3, SeenUpdate
<1>3. TypeOK'
  BY <1>2 DEF Inv, TypeOK, readerVars, prereqVars
<1>4. Mutex'
  BY DEF Inv, TypeOK, Mutex
<1>5. Measured'
  BY <1>1, Apart DEF Inv, TypeOK, Measured, readerVars, Processes
<1>6. Marking'
  BY DEF Inv, TypeOK, Marking, sessionVars, readerVars
<1> QED  BY <1>2, <1>3, <1>4, <1>5, <1>6 DEF Inv

LEMMA AddInv ==
  ASSUME Inv, NEW s \in Sessions, AddToQueue(s) PROVE Inv'
<1> USE DEF AddToQueue
<1>1. Lines \subseteq Text
  BY DEF Lines, Text, Fini
<1>2. TypeOK'
  BY <1>1 DEF Inv, TypeOK, readerVars, prereqVars, Processes
<1>3. Mutex'
  BY Apart DEF Inv, TypeOK, Mutex, Processes
<1>4. Numbered'
  BY DEF Inv, Numbered
<1>5. Measured'
  BY DEF Inv, TypeOK, Measured, readerVars
<1>6. Marking'
  BY DEF Inv, TypeOK, Marking, sessionVars, readerVars
<1> QED  BY <1>2, <1>3, <1>4, <1>5, <1>6 DEF Inv

LEMMA InterruptedInv ==
  ASSUME Inv, NEW s \in Sessions, LockInterrupted(s) PROVE Inv'
<1> USE DEF LockInterrupted
<1>1. Lines \subseteq Text
  BY DEF Lines, Text, Fini
<1>2. TypeOK'
  BY <1>1 DEF Inv, TypeOK, readerVars, prereqVars
<1>3. Mutex'
  BY DEF Inv, Mutex
<1>4. Numbered'
  BY DEF Inv, Numbered
<1>5. Measured'
  BY DEF Inv, TypeOK, Measured, readerVars
<1>6. Marking'
  BY DEF Inv, TypeOK, Marking, readerVars
<1> QED  BY <1>2, <1>3, <1>4, <1>5, <1>6 DEF Inv

LEMMA MeasureInv ==
  ASSUME Inv, NEW s \in Sessions, Measure(s) PROVE Inv'
<1> USE DEF Measure
<1>1. s \in Processes
  BY DEF Processes
<1>2. Numbered' /\ seen' \in [Processes -> Seq(Nat)]
  <2> DEFINE lines == SyncFile(seen[s])
  <2>1. /\ lines \in Seq(Nat) /\ Len(lines) = Len(file)
        /\ \A i \in DOMAIN lines : lines[i] = UidAfter(i - 1)
    BY <1>1, SyncSeen
  <2>2. seen' = [seen EXCEPT ![s] = lines] /\ file' = file /\ Len(file) \in Nat
    BY DEF Inv, TypeOK
  <2> HIDE DEF lines
  <2>3. Len(lines) <= Len(file)
    BY <2>1, <2>2
  <2> QED  BY <1>1, <2>1, <2>2, <2>3, SeenUpdate
<1>3. TypeOK'
  BY <1>2 DEF Inv, TypeOK, readerVars, prereqVars
<1>4. Mutex'
  BY DEF Inv, TypeOK, Mutex
<1>5. Measured'
  <2>1. Len(seen'[s]) = Len(file)
    BY <1>1, SyncSeen DEF Inv, TypeOK
  <2>2. \A p \in Processes \ {s} : seen'[p] = seen[p]
    BY DEF Inv, TypeOK
  <2> QED  BY <1>1, <2>1, <2>2, Apart DEF Inv, TypeOK, Measured, readerVars, Processes
<1>6. Marking'
  BY DEF Inv, TypeOK, Marking, sessionVars, readerVars
<1> QED  BY <1>2, <1>3, <1>4, <1>5, <1>6 DEF Inv

LEMMA WriteInv ==
  ASSUME Undisturbed \/ OneSession, Inv, NEW s \in Sessions, Write(s) PROVE Inv'
<1> DEFINE n == Len(file)
           uid == UidAfter(Len(seen[s]))
           line == [uid |-> uid, text |-> text[s]]
<1>1. s \in Processes /\ file \in Seq(Line) /\ n \in Nat /\ DOMAIN file = 1 .. n
  BY DEF Inv, TypeOK, Processes
<1>2. where[s] = n + 1 /\ Len(seen[s]) = n
  BY DEF Write, Inv, Measured
<1>3. uid = UidAfter(n) /\ uid \in Nat
  BY <1>1, <1>2, UidNat
<1>4. line \in Line
  BY <1>3 DEF Line, Inv, TypeOK
<1>5. file' = [i \in 1 .. n + 1 |-> IF i = n + 1 THEN line ELSE file[i]]
  <2>1. 1 .. n \cup {n + 1} = 1 .. n + 1
    BY <1>1
  <2> QED  BY <1>2, <2>1 DEF Write
<1>6. /\ file' \in Seq(Line) /\ Len(file') = n + 1 /\ DOMAIN file' = 1 .. n + 1
      /\ \A i \in 1 .. n : file'[i] = file[i]
      /\ file'[n + 1].uid = uid
  <2>1. line.uid = uid
    OBVIOUS
  <2> HIDE DEF line
  <2>2. file' \in [1 .. n + 1 -> Line] /\ n + 1 \in Nat
    BY <1>1, <1>4, <1>5
  <2>3. file' \in Seq(Line) /\ Len(file') = n + 1 /\ DOMAIN file' = 1 .. n + 1
    BY <2>2
  <2>4. \A i \in 1 .. n : i \in 1 .. n + 1 /\ i # n + 1
    BY <1>1
  <2>5. n + 1 \in 1 .. n + 1
    BY <1>1
  <2> QED  BY <1>5, <2>1, <2>3, <2>4, <2>5
<1>7. /\ seen' = [seen EXCEPT ![s] = Append(@, uid)]
      /\ seen'[s] \in Seq(Nat) /\ Len(seen'[s]) = n + 1
      /\ \A i \in 1 .. n : seen'[s][i] = seen[s][i]
      /\ seen'[s][n + 1] = uid
      /\ \A p \in Processes \ {s} : seen'[p] = seen[p]
      /\ seen' \in [Processes -> Seq(Nat)]
  <2>1. seen' = [seen EXCEPT ![s] = Append(@, uid)]
    BY DEF Write
  <2>2. seen \in [Processes -> Seq(Nat)]
    BY DEF Inv, TypeOK
  <2> HIDE DEF uid
  <2> QED  BY <1>1, <1>2, <1>3, <2>1, <2>2
<1>8. UNCHANGED <<text, where, wpc, current, length, todo, finished, prereqs, watched,
                  dirEvent, exists, ran>>
  BY DEF Write, readerVars, prereqVars
<1>9. spc' = [spc EXCEPT ![s] = IF text[s] = Fini THEN "over" ELSE "idle"]
      /\ event' = Modified /\ holder' \in {holder, None} /\ (holder # s => holder' = holder)
  BY DEF Write, Unlocked
<1> DEFINE Nobody == \A r \in Sessions : spc'[r] \notin {"sync", "write"}
<1>0. Nobody
  <2>1. spc'[s] \in {"over", "idle"} /\ \A r \in Sessions \ {s} : spc'[r] = spc[r]
    BY <1>9 DEF Inv, TypeOK
  <2>2. \A r \in Sessions : spc[r] \in {"sync", "write"} => r = s
    BY OneWriter DEF Write, Inv
  <2> QED  BY <2>1, <2>2
<1>10. TypeOK'
  <2>1. event' \in [Workers -> BOOLEAN]
    BY <1>9 DEF Modified
  <2> QED  BY <1>6, <1>7, <1>8, <1>9, <2>1 DEF Inv, TypeOK
<1>11. Mutex'
  BY <1>0, <1>8, <1>9, Apart DEF Inv, Mutex, Processes
<1>12. Numbered'
  <2>1. \A i \in DOMAIN file' : file'[i].uid = UidAfter(i - 1)
    <3>1. \A i \in 1 .. n : file'[i].uid = UidAfter(i - 1)
      BY <1>1, <1>6 DEF Inv, Numbered
    <3>2. file'[n + 1].uid = UidAfter((n + 1) - 1)
      <4>1. (n + 1) - 1 = n
        BY <1>1
      <4> QED  BY <1>3, <1>6, <4>1
    <3>3. \A i \in 1 .. n + 1 : i \in 1 .. n \/ i = n + 1
      BY <1>1
    <3> QED  BY <1>6, <3>1, <3>2, <3>3
  <2>2. \A p \in Processes : Len(seen'[p]) <= Len(file')
    BY <1>1, <1>6, <1>7 DEF Inv, TypeOK, Numbered
  <2>3. \A i \in DOMAIN seen'[s] : seen'[s][i] = UidAfter(i - 1)
    BY <1>1, <1>2, <1>3, <1>7 DEF Inv, TypeOK, Numbered
  <2>4. \A p \in Processes : \A i \in DOMAIN seen'[p] : seen'[p][i] = UidAfter(i - 1)
    BY <1>7, <2>3 DEF Inv, Numbered
  <2> QED  BY <2>1, <2>2, <2>4 DEF Numbered
<1>13. Measured'
  <2>1. \A r \in Sessions : spc'[r] # "write"
    BY <1>0
  <2>2. Undisturbed => \A w \in Workers : wpc'[w] # "measure"
    BY <1>1, <1>8, Apart DEF Write, Inv, Mutex
  <2>3. ASSUME Undisturbed, NEW w \in Workers, wpc'[w] = "wait"
        PROVE  length'[w] = Len(seen'[w]) /\ event'[w]
    <3>1. w \in Processes \ {s}
      BY Apart DEF Processes
    <3> QED  BY <1>7, <1>8, <1>9, <2>3, <3>1 DEF Inv, Measured, Modified, Watching
  <2> QED  BY <2>1, <2>2, <2>3 DEF Measured
<1>14. Marking'
  <2>1. DOMAIN file \subseteq DOMAIN file' /\ \A i \in DOMAIN file : file'[i] = file[i]
    BY <1>1, <1>6
  <2> QED  BY <1>8, <2>1 DEF Inv, Marking
<1> QED  BY <1>10, <1>11, <1>12, <1>13, <1>14 DEF Inv

LEMMA StartInv ==
  ASSUME Inv, NEW w \in Workers, Start(w) PROVE Inv'
<1> USE DEF Start
<1>1. w \in Processes
  BY DEF Processes
<1>2. Numbered' /\ seen' \in [Processes -> Seq(Nat)]
  <2> DEFINE lines == SyncFile(<<>>)
  <2>1. /\ lines \in Seq(Nat) /\ Len(lines) = Len(file)
        /\ \A i \in DOMAIN lines : lines[i] = UidAfter(i - 1)
    BY SyncNew
  <2>2. seen' = [seen EXCEPT ![w] = lines] /\ file' = file /\ Len(file) \in Nat
    BY DEF Inv, TypeOK
  <2> HIDE DEF lines
  <2>3. Len(lines) <= Len(file)
    BY <2>1, <2>2
  <2> QED  BY <1>1, <2>1, <2>2, <2>3, SeenUpdate
<1>3. TypeOK'
  BY <1>2 DEF Inv, TypeOK, sessionVars, readerVars, prereqVars, WorkerPlaces
<1>4. Mutex'
  BY DEF Inv, TypeOK, Mutex, sessionVars
<1>5. Measured'
  <2>1. \A p \in Processes \ {w} : seen'[p] = seen[p]
    BY DEF Inv, TypeOK
  <2> QED  BY <1>1, <2>1, Apart DEF Inv, TypeOK, Measured, readerVars, sessionVars, Processes
<1>6. Marking'
  BY DEF Inv, TypeOK, Marking, sessionVars, readerVars
<1> QED  BY <1>2, <1>3, <1>4, <1>5, <1>6 DEF Inv

LEMMA WorkerLockInv ==
  ASSUME Inv, NEW w \in Workers, WorkerLock(w) PROVE Inv'
<1> USE DEF WorkerLock
<1>1. TypeOK'
  BY DEF Inv, TypeOK, sessionVars, readerVars, prereqVars, WorkerPlaces, Processes
<1>2. Mutex'
  BY Apart DEF Inv, TypeOK, Mutex, sessionVars, Processes
<1>3. Numbered'
  BY DEF Inv, Numbered
<1>4. Measured'
  BY DEF Inv, TypeOK, Measured, sessionVars, readerVars
<1>5. Marking'
  BY DEF Inv, TypeOK, Marking, sessionVars, readerVars
<1> QED  BY <1>1, <1>2, <1>3, <1>4, <1>5 DEF Inv

LEMMA NoLineInv ==
  ASSUME Inv, NEW w \in Workers, NoLine(w) PROVE Inv'
<1> USE DEF NoLine
<1>1. w \in Processes
  BY DEF Processes
<1>2. Numbered' /\ seen' \in [Processes -> Seq(Nat)]
  <2> DEFINE lines == SyncFile(seen[w])
  <2>1. /\ lines \in Seq(Nat) /\ Len(lines) = Len(file)
        /\ \A i \in DOMAIN lines : lines[i] = UidAfter(i - 1)
    BY <1>1, SyncSeen
  <2>2. seen' = [seen EXCEPT ![w] = lines] /\ file' = file /\ Len(file) \in Nat
    BY DEF Inv, TypeOK
  <2> HIDE DEF lines
  <2>3. Len(lines) <= Len(file)
    BY <2>1, <2>2
  <2> QED  BY <1>1, <2>1, <2>2, <2>3, SeenUpdate
<1>3. TypeOK'
  BY <1>2 DEF Inv, TypeOK, sessionVars, readerVars, prereqVars, WorkerPlaces
<1>4. Mutex'
  BY DEF Inv, TypeOK, Mutex, sessionVars
<1>5. Measured'
  <2>1. Len(seen'[w]) = Len(file)
    BY <1>1, SyncSeen DEF Inv, TypeOK
  <2>2. \A p \in Processes \ {w} : seen'[p] = seen[p]
    BY DEF Inv, TypeOK
  <2> QED  BY <1>1, <2>1, <2>2, Apart DEF Inv, TypeOK, Measured, readerVars, sessionVars,
                                          Processes
<1>6. Marking'
  BY DEF Inv, TypeOK, Marking, sessionVars, readerVars
<1> QED  BY <1>2, <1>3, <1>4, <1>5, <1>6 DEF Inv

LEMMA ReleaseInv ==
  ASSUME Inv, NEW w \in Workers, ReleaseAndWait(w) PROVE Inv'
<1> USE DEF ReleaseAndWait
<1>1. Len(file) \in Nat
  BY DEF Inv, TypeOK
<1>2. holder = w /\ holder' = None
  BY DEF Inv, Mutex, Unlocked
<1>3. TypeOK'
  BY <1>1, <1>2 DEF Inv, TypeOK, sessionVars, prereqVars, WorkerPlaces
<1>4. Mutex'
  BY <1>2, Apart DEF Inv, TypeOK, Mutex, sessionVars, Processes
<1>5. Numbered'
  BY DEF Inv, Numbered
<1>6. Measured'
  BY DEF Inv, TypeOK, Measured, sessionVars
<1>7. Marking'
  BY DEF Inv, TypeOK, Marking, sessionVars, readerVars
<1> QED  BY <1>3, <1>4, <1>5, <1>6, <1>7 DEF Inv

LEMMA AwakeInv ==
  ASSUME Inv, NEW w \in Workers, Awake(w) PROVE Inv'
<1> USE DEF Awake
<1>1. TypeOK'
  BY DEF Inv, TypeOK, sessionVars, readerVars, prereqVars, WorkerPlaces
<1>2. Mutex'
  BY DEF Inv, TypeOK, Mutex, sessionVars
<1>3. Numbered'
  BY DEF Inv, Numbered
<1>4. Measured'
  BY DEF Inv, TypeOK, Measured, sessionVars, readerVars
<1>5. Marking'
  BY DEF Inv, TypeOK, Marking, sessionVars, readerVars
<1> QED  BY <1>1, <1>2, <1>3, <1>4, <1>5 DEF Inv

\* What each keyword is followed by.
LEMMA TextKinds ==
  \A t \in Text : /\ t.kind \in {"TASK", "DONE", "PREQ", "FINI"}
                  /\ t.kind = "TASK" => t.arg \in Tasks /\ [t EXCEPT !.kind = "DONE"] \in Text
                  /\ t.kind = "PREQ" => t.arg \in Files
<1> SUFFICES ASSUME NEW t \in Text
             PROVE  /\ t.kind \in {"TASK", "DONE", "PREQ", "FINI"}
                    /\ t.kind = "TASK" => t.arg \in Tasks /\ [t EXCEPT !.kind = "DONE"] \in Text
                    /\ t.kind = "PREQ" => t.arg \in Files
  OBVIOUS
<1>1. CASE t \in [kind : {"TASK", "DONE"}, arg : Tasks]
  BY <1>1 DEF Text
<1>2. CASE t \in [kind : {"PREQ"}, arg : Files]
  BY <1>2
<1>3. CASE t \in [kind : {"FINI"}, arg : {0}]
  BY <1>3
<1> QED  BY <1>1, <1>2, <1>3 DEF Text

LEMMA TakeLineInv ==
  ASSUME Inv, NEW w \in Workers, TakeLine(w) PROVE Inv'
<1> DEFINE lines == SyncFile(seen[w])
<1>1. w \in Processes /\ wpc[w] = "locked" /\ holder = w
  BY DEF TakeLine, Inv, Mutex, Processes
<1>2. /\ UNCHANGED <<file, event, spc, text, where, length, dirEvent, exists, ran>>
      /\ seen' = [seen EXCEPT ![w] = lines]
  BY DEF TakeLine, sessionVars
<1>3. /\ lines \in Seq(Nat) /\ Len(lines) = Len(file)
      /\ \A i \in DOMAIN lines : lines[i] = UidAfter(i - 1)
  BY <1>1, SyncSeen
<1>4. PICK i \in Following(w) :
        LET t == file[FindUID(lines, lines[i])].text IN
        /\ current' = [current EXCEPT ![w] = lines[i]]
        /\ \/ /\ t.kind = "TASK"
              /\ todo' = [todo EXCEPT ![w] = t.arg]
              /\ wpc' = [wpc EXCEPT ![w] = "mark"]
              /\ UNCHANGED <<holder, finished, prereqs, watched>>
           \/ /\ t.kind = "PREQ"
              /\ prereqs' = [prereqs EXCEPT ![w] = @ \cup {t.arg}]
              /\ watched' = [watched EXCEPT ![w] = @ \cup ({t.arg} \ exists)]
              /\ wpc' = [wpc EXCEPT ![w] = "flush"] /\ holder' = Unlocked(w)
              /\ UNCHANGED <<todo, finished>>
           \/ /\ t.kind \in {"FINI", "DONE"}
              /\ finished' = [finished EXCEPT ![w] = t.kind = "FINI"]
              /\ wpc' = [wpc EXCEPT ![w] = "flush"] /\ holder' = Unlocked(w)
              /\ UNCHANGED <<todo, prereqs, watched>>
  BY DEF TakeLine
<1> DEFINE t == file[i].text
<1>5. i \in DOMAIN file /\ lines[i] = UidAfter(i - 1) /\ FindUID(lines, lines[i]) = i
  BY TakeLineAt
<1>6. t \in Text /\ UidAfter(i - 1) \in Nat
  <2>1. file[i] \in Line /\ i - 1 \in Nat
    BY <1>5 DEF Inv, TypeOK
  <2> QED  BY <2>1, UidNat DEF Line
<1>7. Numbered' /\ seen' \in [Processes -> Seq(Nat)]
  <2>1. Len(lines) <= Len(file)
    BY <1>3 DEF Inv, TypeOK
  <2> HIDE DEF lines
  <2> QED  BY <1>1, <1>2, <1>3, <2>1, SeenUpdate
<1> HIDE DEF lines
<1>8. current' = [current EXCEPT ![w] = UidAfter(i - 1)]
  BY <1>4, <1>5
<1>9. \/ /\ t.kind = "TASK"
         /\ todo' = [todo EXCEPT ![w] = t.arg]
         /\ wpc' = [wpc EXCEPT ![w] = "mark"]
         /\ UNCHANGED <<holder, finished, prereqs, watched>>
      \/ /\ t.kind = "PREQ"
         /\ prereqs' = [prereqs EXCEPT ![w] = @ \cup {t.arg}]
         /\ watched' = [watched EXCEPT ![w] = @ \cup ({t.arg} \ exists)]
         /\ wpc' = [wpc EXCEPT ![w] = "flush"] /\ holder' = None
         /\ UNCHANGED <<todo, finished>>
      \/ /\ \E b \in BOOLEAN : finished' = [finished EXCEPT ![w] = b]
         /\ wpc' = [wpc EXCEPT ![w] = "flush"] /\ holder' = None
         /\ UNCHANGED <<todo, prereqs, watched>>
  BY <1>1, <1>4, <1>5 DEF Unlocked
<1>10. TypeOK'
  <2>1. current' \in [Workers -> Nat \cup {WQ_None}]
    BY <1>6, <1>8 DEF Inv, TypeOK
  <2>2. /\ t.kind = "TASK" => t.arg \in Tasks
        /\ t.kind = "PREQ" => t.arg \in Files
    BY <1>6, TextKinds
  <2> HIDE DEF t
  <2>3. /\ wpc' \in [Workers -> WorkerPlaces] /\ holder' \in Processes \cup {None}
        /\ finished' \in [Workers -> BOOLEAN]
    BY <1>9 DEF Inv, TypeOK, WorkerPlaces
  <2>4. todo' \in [Workers -> Tasks \cup {None}]
    BY <1>9, <2>2 DEF Inv, TypeOK
  <2>5. /\ prereqs' \in [Workers -> SUBSET Files]
        /\ watched' \in [Workers -> SUBSET Files]
    <3>1. prereqs \in [Workers -> SUBSET Files] /\ watched \in [Workers -> SUBSET Files]
      BY DEF Inv, TypeOK
    <3>2. CASE t.kind = "PREQ"
      BY <1>9, <2>2, <3>1, <3>2
    <3>3. CASE t.kind # "PREQ"
      BY <1>9, <3>1, <3>3
    <3> QED  BY <3>2, <3>3
  <2> QED  BY <1>2, <1>7, <2>1, <2>3, <2>4, <2>5 DEF Inv, TypeOK
<1>11. Mutex'
  <2>1. Undisturbed => \A r \in Sessions : spc[r] \notin {"sync", "write"}
    BY <1>1, Apart DEF Inv, Mutex
  <2>2. \A v \in Workers : wpc[v] \in {"locked", "mark", "measure"} => v = w
    BY <1>1 DEF Inv, Mutex
  <2>3. \A v \in Workers : wpc'[v] \in {"locked", "mark", "measure"} =>
          v = w /\ t.kind = "TASK" /\ holder' = holder
    BY <1>9, <2>2 DEF Inv, TypeOK
  <2> QED  BY <1>1, <1>2, <2>1, <2>3 DEF Mutex
<1>12. Measured'
  <2>1. Len(seen'[w]) = Len(file)
    BY <1>1, <1>2, <1>3 DEF Inv, TypeOK
  <2>2. \A p \in Processes \ {w} : seen'[p] = seen[p]
    BY <1>2 DEF Inv, TypeOK
  <2>3. \A v \in Workers : wpc'[v] \in {"measure", "wait"} => v # w /\ wpc'[v] = wpc[v]
    BY <1>9 DEF Inv, TypeOK
  <2> QED  BY <1>1, <1>2, <2>1, <2>2, <2>3, Apart DEF Inv, Measured, Processes
<1>13. Marking'
  <2>1. ASSUME NEW v \in Workers, wpc'[v] = "mark"
        PROVE  \E k \in DOMAIN file' :
                 current'[v] = UidAfter(k - 1) /\ file'[k].text.kind = "TASK"
    <3>1. CASE v = w
      BY <1>2, <1>5, <1>8, <1>9, <2>1, <3>1 DEF Inv, TypeOK
    <3>2. CASE v # w
      BY <1>2, <1>8, <1>9, <2>1, <3>2 DEF Inv, TypeOK, Marking
    <3> QED  BY <3>1, <3>2
  <2> QED  BY <2>1 DEF Marking
<1> QED  BY <1>7, <1>10, <1>11, <1>12, <1>13 DEF Inv

LEMMA MarkLineInv ==
  ASSUME Inv, NEW w \in Workers, MarkLine(w) PROVE Inv'
<1> DEFINE lines == SyncFile(seen[w])
<1>1. w \in Processes /\ wpc[w] = "mark" /\ holder = w /\ holder' = None
  BY DEF MarkLine, Inv, Mutex, Processes, Unlocked
<1>2. /\ UNCHANGED <<spc, text, where, current, length, todo, finished, prereqs, watched,
                      dirEvent, exists, ran>>
      /\ seen' = [seen EXCEPT ![w] = lines] /\ event' = Modified
      /\ wpc' = [wpc EXCEPT ![w] = "flush"]
      /\ file' = [file EXCEPT ![FindUID(lines, current[w])].text.kind = "DONE"]
  BY DEF MarkLine, sessionVars, readerVars, prereqVars
<1>3. PICK i \in DOMAIN file : current[w] = UidAfter(i - 1) /\ file[i].text.kind = "TASK"
  BY <1>1 DEF Inv, Marking
<1>4. /\ lines \in Seq(Nat) /\ Len(lines) = Len(file) /\ DOMAIN lines = 1 .. Len(file)
      /\ \A k \in DOMAIN lines : lines[k] = UidAfter(k - 1)
  BY <1>1, SyncSeen
<1>5. file \in Seq(Line) /\ DOMAIN file = 1 .. Len(file) /\ Len(file) \in Nat
  BY DEF Inv, TypeOK
<1> HIDE DEF lines
<1>6. FindUID(lines, current[w]) = i
  BY <1>3, <1>4, <1>5, FindUIDResult
<1> DEFINE line == [file[i] EXCEPT !.text.kind = "DONE"]
<1>7. line \in Line /\ line.uid = file[i].uid
  <2>1. file[i] \in Line
    BY <1>5
  <2>2. [file[i].text EXCEPT !.kind = "DONE"] \in Text
    BY <1>3, <2>1, TextKinds DEF Line
  <2> QED  BY <2>1, <2>2 DEF Line
<1>8. file' = [file EXCEPT ![i] = line]
  BY <1>2, <1>6
<1>9. /\ file' \in Seq(Line) /\ Len(file') = Len(file) /\ DOMAIN file' = DOMAIN file
      /\ \A k \in DOMAIN file : file'[k].uid = file[k].uid
      /\ \A k \in DOMAIN file \ {i} : file'[k] = file[k]
  <2> HIDE DEF line
  <2> QED  BY <1>5, <1>7, <1>8
<1>10. /\ seen' \in [Processes -> Seq(Nat)] /\ seen'[w] = lines
       /\ \A p \in Processes \ {w} : seen'[p] = seen[p]
  BY <1>1, <1>2, <1>4 DEF Inv, TypeOK
<1>11. TypeOK'
  <2>1. event' \in [Workers -> BOOLEAN]
    BY <1>2 DEF Modified
  <2>2. wpc' \in [Workers -> WorkerPlaces]
    BY <1>2 DEF Inv, TypeOK, WorkerPlaces
  <2> QED  BY <1>1, <1>2, <1>9, <1>10, <2>1, <2>2 DEF Inv, TypeOK
<1>12. Mutex'
  <2>1. Undisturbed => \A r \in Sessions : spc[r] \notin {"sync", "write"}
    BY <1>1, Apart DEF Inv, Mutex
  <2>2. \A v \in Workers : wpc'[v] \notin {"locked", "mark", "measure"}
    BY <1>1, <1>2 DEF Inv, TypeOK, Mutex
  <2> QED  BY <1>2, <2>1, <2>2 DEF Mutex
<1>13. Numbered'
  <2>1. \A k \in DOMAIN file' : file'[k].uid = UidAfter(k - 1)
    BY <1>9 DEF Inv, Numbered
  <2>2. \A p \in Processes : Len(seen'[p]) <= Len(file')
    <3>1. \A p \in Processes : Len(seen[p]) <= Len(file)
      BY DEF Inv, Numbered
    <3>2. \A p \in Processes : seen'[p] = lines \/ seen'[p] = seen[p]
      BY <1>10
    <3>3. Len(lines) <= Len(file)
      BY <1>4, <1>5
    <3> QED  BY <1>9, <3>1, <3>2, <3>3
  <2>3. \A p \in Processes : \A k \in DOMAIN seen'[p] : seen'[p][k] = UidAfter(k - 1)
    BY <1>4, <1>10 DEF Inv, Numbered
  <2> QED  BY <2>1, <2>2, <2>3 DEF Numbered
<1>14. Measured'
  <2>1. \A r \in Sessions : spc'[r] = "write" =>
          where'[r] = Len(file') + 1 /\ Len(seen'[r]) = Len(file')
    <3>1. \A r \in Sessions : r \in Processes \ {w}
      BY Apart DEF Processes
    <3> QED  BY <1>2, <1>9, <1>10, <3>1 DEF Inv, Measured
  <2>2. ASSUME NEW v \in Workers, wpc'[v] \in {"measure", "wait"}
        PROVE  v \in Processes \ {w} /\ wpc'[v] = wpc[v]
    BY <1>2, <2>2 DEF Inv, TypeOK, Processes
  <2>3. Undisturbed => \A v \in Workers : wpc'[v] = "measure" => Len(seen'[v]) = Len(file')
    BY <1>9, <1>10, <2>2 DEF Inv, Measured
  <2>4. Undisturbed => \A v \in Workers : wpc'[v] = "wait" =>
          length'[v] = Len(seen'[v]) /\ event'[v]
    BY <1>2, <1>10, <2>2 DEF Inv, Measured, Modified, Watching
  <2> QED  BY <2>1, <2>3, <2>4 DEF Measured
<1>15. Marking'
  <2>1. \A v \in Workers : wpc'[v] # "mark"
    BY <1>1, <1>2 DEF Inv, TypeOK, Mutex
  <2> QED  BY <2>1 DEF Marking
<1> QED  BY <1>11, <1>12, <1>13, <1>14, <1>15 DEF Inv

\* The steps between two locked sections touch neither the file nor the lists.
LEMMA PrereqInv ==
  ASSUME Inv, NEW w \in Workers,
         FlushNotificationQueue(w) \/ Unsatisfied(w) \/ Notified(w)
  PROVE  Inv'
<1> USE DEF FlushNotificationQueue, Unsatisfied, Notified
<1>1. UNCHANGED <<file, holder, seen, event, spc, text, where, current, length, todo,
                  finished, prereqs, watched, exists, ran>>
  BY DEF sessionVars, readerVars, prereqVars
<1>2. PICK place \in {"check", "blocked"} : wpc' = [wpc EXCEPT ![w] = place]
  OBVIOUS
<1>3. TypeOK'
  <2>1. wpc' \in [Workers -> WorkerPlaces]
    BY <1>2 DEF Inv, TypeOK, WorkerPlaces
  <2>2. dirEvent' \in [Workers -> BOOLEAN]
    BY DEF Inv, TypeOK, prereqVars
  <2> QED  BY <1>1, <2>1, <2>2 DEF Inv, TypeOK
<1>4. Mutex'
  BY <1>1, <1>2 DEF Inv, TypeOK, Mutex
<1>5. Numbered'
  BY <1>1 DEF Inv, Numbered
<1>6. Measured'
  BY <1>1, <1>2 DEF Inv, TypeOK, Measured
<1>7. Marking'
  BY <1>1, <1>2 DEF Inv, TypeOK, Marking
<1> QED  BY <1>3, <1>4, <1>5, <1>6, <1>7 DEF Inv

LEMMA DoTaskInv ==
  ASSUME Inv, NEW w \in Workers, DoTask(w) PROVE Inv'
<1>1. UNCHANGED <<file, holder, seen, event, spc, text, where, current, length,
                  finished, prereqs, watched, dirEvent, exists>>
  BY DEF DoTask, sessionVars, prereqVars
<1>2. PICK place \in {"over", "idle"} : wpc' = [wpc EXCEPT ![w] = place]
  BY DEF DoTask
<1>3. TypeOK'
  <2>1. wpc' \in [Workers -> WorkerPlaces]
    BY <1>2 DEF Inv, TypeOK, WorkerPlaces
  <2>2. todo' \in [Workers -> Tasks \cup {None}] /\ ran' \in Seq(Tasks)
    BY DEF DoTask, Inv, TypeOK
  <2> QED  BY <1>1, <2>1, <2>2 DEF Inv, TypeOK
<1>4. Mutex'
  BY <1>1, <1>2 DEF Inv, TypeOK, Mutex
<1>5. Numbered'
  BY <1>1 DEF Inv, Numbered
<1>6. Measured'
  BY <1>1, <1>2 DEF Inv, TypeOK, Measured
<1>7. Marking'
  BY <1>1, <1>2 DEF Inv, TypeOK, Marking
<1> QED  BY <1>3, <1>4, <1>5, <1>6, <1>7 DEF Inv

LEMMA CreateFileInv ==
  ASSUME Inv, NEW f \in Files, CreateFile(f) PROVE Inv'
<1> USE DEF CreateFile
<1>1. TypeOK'
  BY DEF Inv, TypeOK, sessionVars, readerVars
<1>2. Mutex'
  BY DEF Inv, Mutex, sessionVars
<1>3. Numbered'
  BY DEF Inv, Numbered
<1>4. Measured'
  BY DEF Inv, Measured, sessionVars, readerVars
<1>5. Marking'
  BY DEF Inv, Marking, readerVars
<1> QED  BY <1>1, <1>2, <1>3, <1>4, <1>5 DEF Inv

LEMMA CrashInv ==
  ASSUME Inv, NEW w \in Workers, Crash(w) PROVE Inv'
<1>1. /\ UNCHANGED <<file, spc, text, where, exists, ran>>
      /\ wpc' = [wpc EXCEPT ![w] = "off"] /\ holder' = Unlocked(w)
      /\ w \in Processes
  BY DEF Crash, sessionVars, Processes
<1> DEFINE none == <<>>
<1>2. none \in Seq(Nat) /\ Len(none) = 0 /\ DOMAIN none = {}
  OBVIOUS
<1>3. seen' = [seen EXCEPT ![w] = none]
  BY DEF Crash
<1> HIDE DEF none
<1>4. Numbered' /\ seen' \in [Processes -> Seq(Nat)]
  <2>1. Len(none) <= Len(file) /\ \A i \in DOMAIN none : none[i] = UidAfter(i - 1)
    BY <1>2 DEF Inv, TypeOK
  <2> QED  BY <1>1, <1>2, <1>3, <2>1, SeenUpdate
<1>5. TypeOK'
  <2>1. wpc' \in [Workers -> WorkerPlaces] /\ holder' \in Processes \cup {None}
    BY <1>1 DEF Inv, TypeOK, WorkerPlaces, Unlocked
  <2>2. /\ event' \in [Workers -> BOOLEAN] /\ dirEvent' \in [Workers -> BOOLEAN]
        /\ finished' \in [Workers -> BOOLEAN]
    BY DEF Crash, Inv, TypeOK
  <2>3. /\ current' \in [Workers -> Nat \cup {WQ_None}] /\ length' \in [Workers -> Nat]
        /\ todo' \in [Workers -> Tasks \cup {None}]
    BY DEF Crash, Inv, TypeOK
  <2>4. /\ prereqs' \in [Workers -> SUBSET Files]
        /\ watched' \in [Workers -> SUBSET Files]
    BY DEF Crash, Inv, TypeOK
  <2> QED  BY <1>1, <1>4, <2>1, <2>2, <2>3, <2>4 DEF Inv, TypeOK
<1>6. Mutex'
  BY <1>1, Apart DEF Inv, TypeOK, Mutex, Unlocked, Processes
<1>7. Measured'
  <2>1. \A p \in Processes \ {w} : seen'[p] = seen[p]
    BY <1>3 DEF Inv, TypeOK
  <2>2. \A v \in Workers \ {w} :
          wpc'[v] = wpc[v] /\ length'[v] = length[v] /\ event'[v] = event[v]
    BY DEF Crash, Inv, TypeOK
  <2>3. wpc'[w] = "off"
    BY <1>1 DEF Inv, TypeOK
  <2> QED  BY <1>1, <2>1, <2>2, <2>3, Apart DEF Inv, Measured, Processes
<1>8. Marking'
  <2>1. \A v \in Workers \ {w} : wpc'[v] = wpc[v] /\ current'[v] = current[v]
    BY DEF Crash, Inv, TypeOK
  <2>2. wpc'[w] = "off"
    BY <1>1 DEF Inv, TypeOK
  <2> QED  BY <1>1, <2>1, <2>2 DEF Inv, Marking
<1> QED  BY <1>4, <1>5, <1>6, <1>7, <1>8 DEF Inv

LEMMA StutterInv == Inv /\ UNCHANGED vars => Inv'
<1> SUFFICES ASSUME Inv, UNCHANGED vars PROVE Inv'
  OBVIOUS
<1> USE DEF vars, sessionVars, readerVars, prereqVars
<1>1. TypeOK'
  BY DEF Inv, TypeOK
<1>2. Mutex'
  BY DEF Inv, Mutex
<1>3. Numbered'
  BY DEF Inv, Numbered
<1>4. Measured'
  BY DEF Inv, Measured
<1>5. Marking'
  BY DEF Inv, Marking
<1> QED  BY <1>1, <1>2, <1>3, <1>4, <1>5 DEF Inv

LEMMA NextInv ==
  ASSUME Undisturbed \/ OneSession, Inv, [Next]_vars PROVE Inv'
<1>1. ASSUME NEW s \in Sessions, SessionStep(s) PROVE Inv'
  BY <1>1, OpenInv, AddInv, InterruptedInv, MeasureInv, WriteInv DEF SessionStep
<1>2. ASSUME NEW w \in Workers, WorkerStep(w) PROVE Inv'
  <2>1. CASE Start(w) \/ WorkerLock(w) \/ NoLine(w) \/ ReleaseAndWait(w) \/ Awake(w)
    BY <2>1, StartInv, WorkerLockInv, NoLineInv, ReleaseInv, AwakeInv
  <2>2. CASE TakeLine(w) \/ MarkLine(w) \/ DoTask(w)
    BY <2>2, TakeLineInv, MarkLineInv, DoTaskInv
  <2>3. CASE FlushNotificationQueue(w) \/ Unsatisfied(w) \/ Notified(w)
    BY <2>3, PrereqInv
  <2> QED  BY <1>2, <2>1, <2>2, <2>3 DEF WorkerStep
<1> QED  BY <1>1, <1>2, CrashInv, CreateFileInv, StutterInv DEF Next

LEMMA Inductive == ASSUME Undisturbed \/ OneSession PROVE Spec => []Inv
<1>1. Init => Inv
  BY InitInv
<1>2. Inv /\ [Next]_vars => Inv'
  BY NextInv
<1> QED  BY <1>1, <1>2, PTL DEF Spec

-----------------------------------------------------------------------------
(* What follows for every execution.                                       *)

\* Every variable stays in its set: a worker that marks a line marks a TASK.
THEOREM TypeCorrect == ASSUME Undisturbed \/ OneSession PROVE Spec => []TypeOK
<1>1. Inv => TypeOK
  BY DEF Inv
<1> QED  BY <1>1, Inductive, PTL

\* GetLock(), ReleaseLock(): a session measures and writes the file only with
\* the flock.
THEOREM LockCorrect == ASSUME Undisturbed PROVE Spec => []WriterHoldsLock
<1>1. Inv => WriterHoldsLock
  BY DEF Inv, Mutex, WriterHoldsLock
<1> QED  BY <1>1, Inductive, PTL

\* SyncFile() never finds a UID changed, and UIDs are unique; a single session
\* may write without the lock.
THEOREM IntegrityCorrect == ASSUME Undisturbed \/ OneSession PROVE Spec => []IntegrityHolds
<1>1. ASSUME Inv PROVE IntegrityHolds
  <2>1. ASSUME NEW p \in Processes, NEW i \in DOMAIN seen[p]
        PROVE  i \in DOMAIN file /\ file[i].uid = seen[p][i]
    <3>1. DOMAIN seen[p] = 1 .. Len(seen[p]) /\ DOMAIN file = 1 .. Len(file)
          /\ Len(seen[p]) \in Nat /\ Len(file) \in Nat
      BY <1>1 DEF Inv, TypeOK
    <3> QED  BY <1>1, <2>1, <3>1 DEF Inv, Numbered
  <2>2. ASSUME NEW i \in DOMAIN file, NEW k \in DOMAIN file, file[i].uid = file[k].uid
        PROVE  i = k
    <3>1. i \in Int /\ k \in Int
      BY <1>1 DEF Inv, TypeOK
    <3>2. UidAfter(i - 1) = UidAfter(k - 1)
      BY <1>1, <2>2 DEF Inv, Numbered
    <3>3. i - 1 = k - 1
      BY <3>1, <3>2, UidInjective
    <3> QED  BY <3>1, <3>3
  <2> QED  BY <2>1, <2>2 DEF IntegrityHolds
<1> QED  BY <1>1, Inductive, PTL

\* ReleaseAndWaitForChange() never sleeps through a line.
THEOREM WakeupCorrect == ASSUME Undisturbed PROVE Spec => []NoLostWakeup
<1>1. Inv => NoLostWakeup
  BY DEF Inv, Measured, NoLostWakeup
<1> QED  BY <1>1, Inductive, PTL

-----------------------------------------------------------------------------
(****************************************************************************)
(* The queue implements WorkLog: a task is started at most once, after its *)
(* prerequisites.                                                          *)
(****************************************************************************)

-----------------------------------------------------------------------------
(* The inductive invariant, on top of the one above.                       *)

\* A line that is on its way into the file is not DONE, and a task of it is not
\* in the file.
Fresh ==
  \A s \in Sessions : spc[s] \in {"sync", "write"} =>
    /\ text[s].kind # "DONE"
    /\ text[s].kind = "TASK" => \A i \in DOMAIN file : file[i].text.arg # text[s].arg

\* No task has two lines.
IsTask(t) == t.kind \in {"TASK", "DONE"}
OneLine ==
  \A i, k \in DOMAIN file :
    IsTask(file[i].text) /\ IsTask(file[k].text) /\ file[i].text.arg = file[k].text.arg
      => i = k

\* current_uid is the UID of a line, and a worker remembers every prerequisite
\* up to there, and a FINI.
WasRead ==
  \A w \in Workers : current[w] # WQ_None =>
    \E i \in DOMAIN file :
      /\ current[w] = UidAfter(i - 1)
      /\ \A k \in 1 .. i :
           /\ file[k].text.kind = "PREQ" => file[k].text.arg \in prereqs[w]
           /\ file[k].text.kind = "FINI" => finished[w]

\* The places of a worker between the reading of a line and the next one.
Working == {"flush", "check", "blocked"}
NotFinished == \A w \in Workers : finished[w] => wpc[w] \in Working \cup {"over"}

\* A worker that has a task has marked its line, or is about to.
Has(w, i) ==
  /\ current[w] = UidAfter(i - 1) /\ file[i].text.arg = todo[w]
  /\ \/ wpc[w] = "mark" /\ file[i].text.kind = "TASK"
     \/ wpc[w] \in Working /\ file[i].text.kind = "DONE"
TaskHeld ==
  \A w \in Workers : todo[w] # None => ~finished[w] /\ \E i \in DOMAIN file : Has(w, i)

\* A task that was started is marked, and no worker has it; no two have the same.
NotTwice ==
  /\ \A k \in DOMAIN ran :
       /\ \E i \in DOMAIN file : file[i].text = [kind |-> "DONE", arg |-> ran[k]]
       /\ \A w \in Workers : todo[w] # ran[k]
  /\ \A v, w \in Workers : todo[v] # None /\ todo[v] = todo[w] => v = w

LogInv == Fresh /\ OneLine /\ WasRead /\ NotFinished /\ TaskHeld /\ NotTwice

-----------------------------------------------------------------------------
(* The steps.                                                              *)

LEMMA LogInitInv == Init => LogInv
<1> SUFFICES ASSUME Init PROVE LogInv
  OBVIOUS
<1>1. Fresh /\ NotFinished
  BY DEF Init, Fresh, NotFinished
<1>2. OneLine /\ WasRead /\ TaskHeld
  BY DEF Init, OneLine, WasRead, TaskHeld
<1>3. NotTwice
  BY DEF Init, NotTwice
<1> QED  BY <1>1, <1>2, <1>3 DEF LogInv

\* Steps of a session that add nothing, and steps that are none.
LEMMA SessionQuiet ==
  ASSUME LogInv, Fresh', UNCHANGED <<file, wpc, current, todo, finished, prereqs, ran>>
  PROVE  LogInv'
<1>1. OneLine'
  BY DEF LogInv, OneLine, IsTask
<1>2. WasRead'
  BY DEF LogInv, WasRead
<1>3. NotFinished'
  BY DEF LogInv, NotFinished
<1>4. TaskHeld'
  BY DEF LogInv, TaskHeld, Has
<1>5. NotTwice'
  BY DEF LogInv, NotTwice
<1> QED  BY <1>1, <1>2, <1>3, <1>4, <1>5 DEF LogInv

\* Steps of a worker that only move it on, with no task in its hands or between
\* the reading and the start of one.
LEMMA WorkerQuiet ==
  ASSUME Inv, LogInv, NEW w \in Workers, NEW place \in WorkerPlaces,
         wpc' = [wpc EXCEPT ![w] = place],
         \/ wpc[w] \in {"off", "idle", "locked", "measure", "wait"}
         \/ wpc[w] \in Working /\ place \in Working,
         UNCHANGED <<file, spc, text, current, todo, finished, prereqs, ran>>
  PROVE  LogInv'
<1>1. Fresh'
  BY DEF LogInv, Fresh
<1>2. OneLine'
  BY DEF LogInv, OneLine, IsTask
<1>3. WasRead'
  BY DEF LogInv, WasRead
<1>4. wpc'[w] = place /\ \A v \in Workers \ {w} : wpc'[v] = wpc[v]
  BY DEF Inv, TypeOK
<1>5. NotFinished'
  BY <1>4 DEF LogInv, NotFinished, Working
<1>6. TaskHeld'
  BY <1>4 DEF LogInv, TaskHeld, Has, Working
<1>7. NotTwice'
  BY DEF LogInv, NotTwice
<1> QED  BY <1>1, <1>2, <1>3, <1>5, <1>6, <1>7 DEF LogInv

LEMMA OpenLog ==
  ASSUME Inv, LogInv, NEW s \in Sessions, Open(s) \/ Measure(s) PROVE LogInv'
<1>1. UNCHANGED <<file, text, wpc, current, todo, finished, prereqs, ran>>
  BY DEF Open, Measure, readerVars, prereqVars
<1>2. \A r \in Sessions : spc'[r] \in {"sync", "write"} => spc[r] \in {"sync", "write"}
  BY DEF Open, Measure, Inv, TypeOK
<1>3. Fresh'
  BY <1>1, <1>2 DEF LogInv, Fresh
<1> QED  BY <1>1, <1>3, SessionQuiet

\* A line that is handed over is new.
LEMMA AddLog ==
  ASSUME Inv, LogInv, NEW s \in Sessions, AddToQueue(s) \/ LockInterrupted(s)
  PROVE  LogInv'
<1>1. UNCHANGED <<file, wpc, current, todo, finished, prereqs, ran>>
  BY DEF AddToQueue, LockInterrupted, readerVars, prereqVars
<1>2. PICK t \in Lines : text' = [text EXCEPT ![s] = t]
  BY DEF AddToQueue, LockInterrupted
<1>3. t.kind # "DONE" /\ (t.kind = "TASK" => ~Submitted(t.arg))
  <2>1. CASE t \in [kind : {"TASK"}, arg : {x \in Tasks : ~Submitted(x)}]
    BY <2>1
  <2>2. CASE t \in [kind : {"PREQ"}, arg : {f \in Files : ~Submitted(f)}]
    BY <2>2
  <2>3. CASE t = Fini
    BY <2>3 DEF Fini
  <2> QED  BY <2>1, <2>2, <2>3 DEF Lines
<1>4. Fresh'
  <2>1. text'[s] = t /\ \A r \in Sessions \ {s} : text'[r] = text[r] /\ spc'[r] = spc[r]
    BY <1>2 DEF AddToQueue, LockInterrupted, Inv, TypeOK
  <2> QED  BY <1>1, <1>3, <2>1 DEF LogInv, Fresh, Submitted
<1> QED  BY <1>1, <1>4, SessionQuiet

\* What Write() does to the file.
LEMMA WriteResult ==
  ASSUME Inv, NEW s \in Sessions, Write(s)
  PROVE  /\ Len(file) \in Nat /\ DOMAIN file = 1 .. Len(file)
         /\ DOMAIN file' = 1 .. Len(file) + 1
         /\ \A i \in DOMAIN file : file'[i] = file[i]
         /\ file'[Len(file) + 1].text = text[s]
<1> DEFINE n == Len(file)
           line == [uid |-> UidAfter(Len(seen[s])), text |-> text[s]]
<1>1. n \in Nat /\ DOMAIN file = 1 .. n
  BY DEF Inv, TypeOK
<1>2. where[s] = n + 1
  BY DEF Write, Inv, Measured
<1>3. file' = [i \in 1 .. n + 1 |-> IF i = n + 1 THEN line ELSE file[i]]
  <2>1. 1 .. n \cup {n + 1} = 1 .. n + 1
    BY <1>1
  <2> QED  BY <1>2, <2>1 DEF Write
<1>4. line.text = text[s]
  OBVIOUS
<1> HIDE DEF line
<1>5. \A i \in 1 .. n : i \in 1 .. n + 1 /\ i # n + 1
  BY <1>1
<1>6. n + 1 \in 1 .. n + 1
  BY <1>1
<1> QED  BY <1>1, <1>3, <1>4, <1>5, <1>6

LEMMA WriteLog ==
  ASSUME Undisturbed \/ OneSession, Inv, LogInv, NEW s \in Sessions, Write(s) PROVE LogInv'
<1> DEFINE n == Len(file)
<1>1. UNCHANGED <<text, wpc, current, todo, finished, prereqs, ran>>
  BY DEF Write, readerVars, prereqVars
<1>2. /\ n \in Nat /\ DOMAIN file = 1 .. n /\ DOMAIN file' = 1 .. n + 1
      /\ \A i \in DOMAIN file : file'[i] = file[i]
      /\ file'[n + 1].text = text[s]
  BY WriteResult
<1>3. DOMAIN file \subseteq DOMAIN file'
      /\ \A i \in DOMAIN file' : i \in DOMAIN file \/ i = n + 1
  BY <1>2
<1>4. /\ text[s].kind # "DONE"
      /\ text[s].kind = "TASK" => \A i \in DOMAIN file : file[i].text.arg # text[s].arg
  BY DEF Write, LogInv, Fresh
<1> HIDE DEF n
<1>5. Fresh'
  <2>1. \A r \in Sessions : spc'[r] \notin {"sync", "write"}
    <3>1. spc'[s] \in {"over", "idle"} /\ \A r \in Sessions \ {s} : spc'[r] = spc[r]
      BY DEF Write, Inv, TypeOK
    <3>2. \A r \in Sessions : spc[r] \in {"sync", "write"} => r = s
      BY OneWriter DEF Write, Inv
    <3> QED  BY <3>1, <3>2
  <2> QED  BY <2>1 DEF Fresh
<1>6. OneLine'
  BY <1>2, <1>3, <1>4 DEF LogInv, OneLine, IsTask
<1>7. WasRead'
  <2>1. ASSUME NEW w \in Workers, current'[w] # WQ_None
        PROVE  \E i \in DOMAIN file' :
                 /\ current'[w] = UidAfter(i - 1)
                 /\ \A k \in 1 .. i :
                      /\ file'[k].text.kind = "PREQ" => file'[k].text.arg \in prereqs'[w]
                      /\ file'[k].text.kind = "FINI" => finished'[w]
    <3>1. PICK i \in DOMAIN file :
            /\ current[w] = UidAfter(i - 1)
            /\ \A k \in 1 .. i :
                 /\ file[k].text.kind = "PREQ" => file[k].text.arg \in prereqs[w]
                 /\ file[k].text.kind = "FINI" => finished[w]
      BY <1>1, <2>1 DEF LogInv, WasRead
    <3>2. 1 .. i \subseteq DOMAIN file
      BY <1>2
    <3> QED  BY <1>1, <1>2, <1>3, <3>1, <3>2
  <2> QED  BY <2>1 DEF WasRead
<1>8. NotFinished'
  BY <1>1 DEF LogInv, NotFinished
<1>9. TaskHeld'
  BY <1>1, <1>2, <1>3 DEF LogInv, TaskHeld, Has
<1>10. NotTwice'
  <2>1. \A k \in DOMAIN ran :
          \E i \in DOMAIN file' : file'[i].text = [kind |-> "DONE", arg |-> ran[k]]
    BY <1>2, <1>3 DEF LogInv, NotTwice
  <2> QED  BY <1>1, <2>1 DEF LogInv, NotTwice
<1> QED  BY <1>5, <1>6, <1>7, <1>8, <1>9, <1>10 DEF LogInv

\* The line after the current one is read, and every line before it was.
LEMMA TakeLineNext ==
  ASSUME Inv, LogInv, NEW w \in Workers, NEW i \in Following(w),
         \A k \in Following(w) : i <= k
  PROVE  \A k \in 1 .. i - 1 :
           /\ file[k].text.kind = "PREQ" => file[k].text.arg \in prereqs[w]
           /\ file[k].text.kind = "FINI" => finished[w]
<1> DEFINE lines == SyncFile(seen[w])
<1>1. /\ DOMAIN lines = 1 .. Len(file) /\ Len(lines) = Len(file) /\ Len(file) \in Nat
      /\ \A k \in 1 .. Len(file) : lines[k] = UidAfter(k - 1)
      /\ DOMAIN file = 1 .. Len(file)
  BY SyncSeen DEF Processes, Inv, TypeOK
<1>2. CASE current[w] = WQ_None
  <2>1. Following(w) = 1 .. Len(file)
    BY <1>1, <1>2 DEF Following
  <2>2. i = 1
    BY <1>1, <2>1
  <2> QED  BY <2>2
<1>3. CASE current[w] # WQ_None
  <2>1. PICK j \in DOMAIN file :
          /\ current[w] = UidAfter(j - 1)
          /\ \A k \in 1 .. j :
               /\ file[k].text.kind = "PREQ" => file[k].text.arg \in prereqs[w]
               /\ file[k].text.kind = "FINI" => finished[w]
    BY <1>3 DEF LogInv, WasRead
  <2>2. PICK k \in 1 .. i - 1 : lines[k] = current[w]
    BY <1>3 DEF Following
  <2>3. i \in 2 .. Len(file)
    BY <1>1, <1>3 DEF Following
  <2>4. k = j
    <3>1. k \in 1 .. Len(file)
      BY <1>1, <2>2, <2>3
    <3>2. UidAfter(k - 1) = UidAfter(j - 1)
      BY <1>1, <2>1, <2>2, <3>1
    <3>3. k - 1 \in Int /\ j - 1 \in Int /\ k \in Int /\ j \in Int
      BY <1>1, <3>1
    <3>4. k - 1 = j - 1
      BY <3>2, <3>3, UidInjective
    <3> QED  BY <3>3, <3>4
  <2>5. j + 1 \in 2 .. Len(file) /\ j \in 1 .. (j + 1) - 1
    BY <1>1, <2>1, <2>2, <2>3, <2>4
  <2>6. j + 1 \in Following(w)
    BY <1>1, <1>3, <2>2, <2>4, <2>5 DEF Following
  <2>7. i <= j + 1
    BY <2>6
  <2>8. 1 .. i - 1 \subseteq 1 .. j
    BY <1>1, <2>3, <2>7
  <2> QED  BY <2>1, <2>8
<1> QED  BY <1>2, <1>3

\* What TakeLine() leaves alone, and what it reads.
LEMMA TakeLineResult ==
  ASSUME Inv, NEW w \in Workers, TakeLine(w)
  PROVE  /\ UNCHANGED <<file, spc, text, exists, ran>>
         /\ wpc[w] = "locked" /\ holder = w
         /\ \E i \in Following(w) :
              /\ \A k \in Following(w) : i <= k
              /\ i \in DOMAIN file /\ current' = [current EXCEPT ![w] = UidAfter(i - 1)]
              /\ \/ /\ file[i].text.kind = "TASK"
                    /\ todo' = [todo EXCEPT ![w] = file[i].text.arg]
                    /\ wpc' = [wpc EXCEPT ![w] = "mark"]
                    /\ UNCHANGED <<finished, prereqs>>
                 \/ /\ file[i].text.kind = "PREQ"
                    /\ prereqs' = [prereqs EXCEPT ![w] = @ \cup {file[i].text.arg}]
                    /\ wpc' = [wpc EXCEPT ![w] = "flush"]
                    /\ UNCHANGED <<todo, finished>>
                 \/ /\ file[i].text.kind \in {"FINI", "DONE"}
                    /\ finished' = [finished EXCEPT ![w] = file[i].text.kind = "FINI"]
                    /\ wpc' = [wpc EXCEPT ![w] = "flush"]
                    /\ UNCHANGED <<todo, prereqs>>
<1>1. UNCHANGED <<file, spc, text, exists, ran>> /\ wpc[w] = "locked" /\ holder = w
  BY DEF TakeLine, sessionVars, Inv, Mutex
<1> DEFINE lines == SyncFile(seen[w])
<1>2. PICK i \in Following(w) :
        LET t == file[FindUID(lines, lines[i])].text IN
        /\ \A k \in Following(w) : i <= k
        /\ current' = [current EXCEPT ![w] = lines[i]]
        /\ \/ /\ t.kind = "TASK"
              /\ todo' = [todo EXCEPT ![w] = t.arg]
              /\ wpc' = [wpc EXCEPT ![w] = "mark"]
              /\ UNCHANGED <<holder, finished, prereqs, watched>>
           \/ /\ t.kind = "PREQ"
              /\ prereqs' = [prereqs EXCEPT ![w] = @ \cup {t.arg}]
              /\ watched' = [watched EXCEPT ![w] = @ \cup ({t.arg} \ exists)]
              /\ wpc' = [wpc EXCEPT ![w] = "flush"] /\ holder' = Unlocked(w)
              /\ UNCHANGED <<todo, finished>>
           \/ /\ t.kind \in {"FINI", "DONE"}
              /\ finished' = [finished EXCEPT ![w] = t.kind = "FINI"]
              /\ wpc' = [wpc EXCEPT ![w] = "flush"] /\ holder' = Unlocked(w)
              /\ UNCHANGED <<todo, prereqs, watched>>
  BY DEF TakeLine
<1>3. i \in DOMAIN file /\ lines[i] = UidAfter(i - 1) /\ FindUID(lines, lines[i]) = i
  BY TakeLineAt
<1> HIDE DEF lines
<1>4. FindUID(lines, UidAfter(i - 1)) = i
  BY <1>3
<1>5. current' = [current EXCEPT ![w] = UidAfter(i - 1)]
  BY <1>2, <1>3
<1> QED  BY <1>1, <1>2, <1>3, <1>5

LEMMA TakeLineLog ==
  ASSUME Inv, LogInv, NEW w \in Workers, TakeLine(w) PROVE LogInv'
<1>1. UNCHANGED <<file, spc, text, exists, ran>> /\ wpc[w] = "locked" /\ holder = w
  BY TakeLineResult
<1>2. PICK i \in Following(w) :
        /\ \A k \in Following(w) : i <= k
        /\ i \in DOMAIN file /\ current' = [current EXCEPT ![w] = UidAfter(i - 1)]
        /\ \/ /\ file[i].text.kind = "TASK"
              /\ todo' = [todo EXCEPT ![w] = file[i].text.arg]
              /\ wpc' = [wpc EXCEPT ![w] = "mark"]
              /\ UNCHANGED <<finished, prereqs>>
           \/ /\ file[i].text.kind = "PREQ"
              /\ prereqs' = [prereqs EXCEPT ![w] = @ \cup {file[i].text.arg}]
              /\ wpc' = [wpc EXCEPT ![w] = "flush"]
              /\ UNCHANGED <<todo, finished>>
           \/ /\ file[i].text.kind \in {"FINI", "DONE"}
              /\ finished' = [finished EXCEPT ![w] = file[i].text.kind = "FINI"]
              /\ wpc' = [wpc EXCEPT ![w] = "flush"]
              /\ UNCHANGED <<todo, prereqs>>
  BY TakeLineResult
<1>3. \A k \in 1 .. i - 1 :
        /\ file[k].text.kind = "PREQ" => file[k].text.arg \in prereqs[w]
        /\ file[k].text.kind = "FINI" => finished[w]
  BY <1>2, TakeLineNext
<1>4. todo[w] = None /\ ~finished[w]
  BY <1>1 DEF LogInv, TaskHeld, Has, NotFinished, Working
<1>5. \A v \in Workers \ {w} :
        /\ wpc'[v] = wpc[v] /\ current'[v] = current[v] /\ todo'[v] = todo[v]
        /\ prereqs'[v] = prereqs[v] /\ finished'[v] = finished[v]
  BY <1>2 DEF Inv, TypeOK
<1>6. /\ current'[w] = UidAfter(i - 1) /\ i \in Nat /\ DOMAIN file = 1 .. Len(file)
      /\ prereqs[w] \subseteq prereqs'[w]
  BY <1>2 DEF Inv, TypeOK
<1>7. \/ /\ file[i].text.kind = "TASK" /\ todo'[w] = file[i].text.arg /\ wpc'[w] = "mark"
         /\ ~finished'[w]
      \/ /\ file[i].text.kind = "PREQ" /\ todo'[w] = None /\ wpc'[w] = "flush"
         /\ file[i].text.arg \in prereqs'[w] /\ ~finished'[w]
      \/ /\ file[i].text.kind \in {"FINI", "DONE"} /\ todo'[w] = None /\ wpc'[w] = "flush"
         /\ finished'[w] = (file[i].text.kind = "FINI")
  BY <1>2, <1>4 DEF Inv, TypeOK
<1>8. Fresh' /\ OneLine'
  BY <1>1 DEF LogInv, Fresh, OneLine, IsTask
<1>9. WasRead'
  <2>1. \A k \in 1 .. i :
          /\ file[k].text.kind = "PREQ" => file[k].text.arg \in prereqs'[w]
          /\ file[k].text.kind = "FINI" => finished'[w]
    <3>1. \A k \in 1 .. i : k \in 1 .. i - 1 \/ k = i
      BY <1>6
    <3> QED  BY <1>3, <1>4, <1>6, <1>7, <3>1
  <2> QED  BY <1>1, <1>2, <1>5, <1>6, <2>1 DEF LogInv, WasRead
<1>10. NotFinished'
  BY <1>5, <1>7 DEF LogInv, NotFinished, Working
<1>11. TaskHeld'
  <2>1. todo'[w] # None => ~finished'[w] /\ Has(w, i)'
    BY <1>1, <1>6, <1>7 DEF Has
  <2>2. \A v \in Workers \ {w} :
          todo'[v] # None => ~finished'[v] /\ \E k \in DOMAIN file : Has(v, k)'
    BY <1>1, <1>5 DEF LogInv, TaskHeld, Has
  <2> QED  BY <1>1, <1>2, <2>1, <2>2 DEF TaskHeld
<1>12. NotTwice'
  <2>1. todo'[w] # None => file[i].text.kind = "TASK" /\ todo'[w] = file[i].text.arg
    BY <1>7
  <2>2. ASSUME NEW v \in Workers \ {w}, todo[v] # None, todo'[w] # None
        PROVE  todo'[w] # todo[v]
    <3>1. PICK k \in DOMAIN file : Has(v, k)
      BY <2>2 DEF LogInv, TaskHeld
    <3>2. wpc[v] # "mark"
      BY <1>1 DEF Inv, Mutex
    <3>3. file[k].text.kind = "DONE" /\ file[k].text.arg = todo[v]
      BY <3>1, <3>2 DEF Has
    <3> QED  BY <1>2, <2>1, <2>2, <3>3 DEF LogInv, OneLine, IsTask
  <2>3. ASSUME NEW k \in DOMAIN ran, todo'[w] # None
        PROVE  todo'[w] # ran[k]
    <3>1. PICK j \in DOMAIN file : file[j].text = [kind |-> "DONE", arg |-> ran[k]]
      BY DEF LogInv, NotTwice
    <3>2. file[j].text.kind = "DONE" /\ file[j].text.arg = ran[k]
      BY <3>1
    <3> QED  BY <1>2, <2>1, <2>3, <3>2 DEF LogInv, OneLine, IsTask
  <2>4. \A k \in DOMAIN ran : ran[k] # None
    BY WorkQueueConstants DEF Inv, TypeOK
  <2>5. \A k \in DOMAIN ran : \A v \in Workers : todo'[v] # ran[k]
    BY <1>5, <2>3, <2>4 DEF LogInv, NotTwice
  <2>6. \A u, v \in Workers : todo'[v] # None /\ todo'[v] = todo'[u] => v = u
    BY <1>5, <2>2 DEF LogInv, NotTwice
  <2> QED  BY <1>1, <2>5, <2>6 DEF LogInv, NotTwice
<1> QED  BY <1>8, <1>9, <1>10, <1>11, <1>12 DEF LogInv

\* What MarkLine() does to the file: the line that is current becomes DONE.
LEMMA MarkLineResult ==
  ASSUME Inv, NEW w \in Workers, MarkLine(w)
  PROVE  \E i \in DOMAIN file :
           /\ current[w] = UidAfter(i - 1) /\ file[i].text.kind = "TASK"
           /\ DOMAIN file' = DOMAIN file
           /\ file'[i].text = [file[i].text EXCEPT !.kind = "DONE"]
           /\ \A k \in DOMAIN file \ {i} : file'[k] = file[k]
<1> DEFINE lines == SyncFile(seen[w])
<1>1. PICK i \in DOMAIN file : current[w] = UidAfter(i - 1) /\ file[i].text.kind = "TASK"
  BY DEF MarkLine, Inv, Marking
<1>2. /\ lines \in Seq(Nat) /\ Len(lines) = Len(file) /\ DOMAIN lines = 1 .. Len(file)
      /\ \A k \in DOMAIN lines : lines[k] = UidAfter(k - 1)
  BY SyncSeen DEF Processes
<1>3. file \in Seq(Line) /\ DOMAIN file = 1 .. Len(file)
  BY DEF Inv, TypeOK
<1>4. file' = [file EXCEPT ![FindUID(lines, current[w])].text.kind = "DONE"]
  BY DEF MarkLine
<1> HIDE DEF lines
<1>5. FindUID(lines, current[w]) = i
  BY <1>1, <1>2, <1>3, FindUIDResult
<1>6. file' = [file EXCEPT ![i].text.kind = "DONE"]
  BY <1>4, <1>5
<1>7. file[i] \in Line
  BY <1>3
<1>8. file[i] \in [uid : Nat, text : Text]
  BY <1>7 DEF Line
<1> QED  BY <1>1, <1>3, <1>6, <1>8

LEMMA MarkLineLog ==
  ASSUME Inv, LogInv, NEW w \in Workers, MarkLine(w) PROVE LogInv'
<1>1. /\ UNCHANGED <<spc, text, current, todo, finished, prereqs, ran>>
      /\ wpc[w] = "mark" /\ holder = w /\ wpc' = [wpc EXCEPT ![w] = "flush"]
  BY DEF MarkLine, sessionVars, readerVars, prereqVars, Inv, Mutex
<1>2. PICK i \in DOMAIN file :
        /\ current[w] = UidAfter(i - 1) /\ file[i].text.kind = "TASK"
        /\ DOMAIN file' = DOMAIN file
        /\ file'[i].text = [file[i].text EXCEPT !.kind = "DONE"]
        /\ \A k \in DOMAIN file \ {i} : file'[k] = file[k]
  BY MarkLineResult
<1>3. file[i].text \in Text /\ i \in Int
  <2>1. file[i] \in Line /\ i \in Int
    BY DEF Inv, TypeOK
  <2> QED  BY <2>1 DEF Line
<1>4. /\ file'[i].text.kind = "DONE" /\ file'[i].text.arg = file[i].text.arg
      /\ \A k \in DOMAIN file : file'[k].text.arg = file[k].text.arg
      /\ \A k \in DOMAIN file : k # i => file'[k].text.kind = file[k].text.kind
  BY <1>2, <1>3 DEF Text
<1>5. Fresh'
  BY <1>1, <1>2, <1>4 DEF LogInv, Fresh
<1>6. OneLine'
  BY <1>2, <1>4 DEF LogInv, OneLine, IsTask
<1>7. WasRead'
  <2>1. ASSUME NEW v \in Workers, current[v] # WQ_None
        PROVE  \E j \in DOMAIN file :
                 /\ current[v] = UidAfter(j - 1)
                 /\ \A k \in 1 .. j :
                      /\ file'[k].text.kind = "PREQ" => file'[k].text.arg \in prereqs[v]
                      /\ file'[k].text.kind = "FINI" => finished[v]
    <3>1. PICK j \in DOMAIN file :
            /\ current[v] = UidAfter(j - 1)
            /\ \A k \in 1 .. j :
                 /\ file[k].text.kind = "PREQ" => file[k].text.arg \in prereqs[v]
                 /\ file[k].text.kind = "FINI" => finished[v]
      BY <2>1 DEF LogInv, WasRead
    <3>2. 1 .. j \subseteq DOMAIN file
      BY DEF Inv, TypeOK
    <3> QED  BY <1>4, <3>1, <3>2
  <2> QED  BY <1>1, <1>2, <2>1 DEF WasRead
<1>8. wpc'[w] = "flush" /\ \A v \in Workers \ {w} : wpc'[v] = wpc[v]
  BY <1>1 DEF Inv, TypeOK
<1>9. NotFinished'
  BY <1>1, <1>8 DEF LogInv, NotFinished, Working
<1>10. TaskHeld'
  <2>1. ASSUME todo[w] # None PROVE Has(w, i)'
    <3>1. PICK k \in DOMAIN file : Has(w, k)
      BY <2>1 DEF LogInv, TaskHeld
    <3>2. k - 1 \in Int /\ i - 1 \in Int /\ k \in Int
      BY <1>3 DEF Inv, TypeOK
    <3>3. k - 1 = i - 1
      BY <1>2, <3>1, <3>2, UidInjective DEF Has
    <3>4. k = i
      BY <1>3, <3>2, <3>3
    <3> QED  BY <1>1, <1>4, <1>8, <3>1, <3>4 DEF Has, Working
  <2>2. ASSUME NEW v \in Workers \ {w}, todo[v] # None
        PROVE  \E k \in DOMAIN file : Has(v, k)'
    <3>1. PICK k \in DOMAIN file : Has(v, k)
      BY <2>2 DEF LogInv, TaskHeld
    <3>2. wpc[v] # "mark"
      BY <1>1 DEF Inv, Mutex
    <3>3. k # i
      BY <1>2, <3>1, <3>2 DEF Has
    <3> QED  BY <1>1, <1>2, <1>8, <3>1, <3>3 DEF Has
  <2>3. \A v \in Workers : todo'[v] # None => ~finished'[v]
    BY <1>1 DEF LogInv, TaskHeld
  <2> QED  BY <1>1, <1>2, <2>1, <2>2, <2>3 DEF TaskHeld
<1>11. NotTwice'
  <2>1. ASSUME NEW k \in DOMAIN ran
        PROVE  \E j \in DOMAIN file : file'[j].text = [kind |-> "DONE", arg |-> ran[k]]
    <3>1. PICK j \in DOMAIN file : file[j].text = [kind |-> "DONE", arg |-> ran[k]]
      BY DEF LogInv, NotTwice
    <3>2. j # i
      BY <1>2, <3>1
    <3> QED  BY <1>2, <3>1, <3>2
  <2> QED  BY <1>1, <1>2, <2>1 DEF LogInv, NotTwice
<1> QED  BY <1>5, <1>6, <1>7, <1>9, <1>10, <1>11 DEF LogInv

\* A task that is started was in one worker's hands, and was not started before.
LEMMA DoTaskLog ==
  ASSUME Inv, LogInv, NEW w \in Workers, DoTask(w) PROVE LogInv'
<1>1. /\ UNCHANGED <<file, spc, text, current, finished, prereqs>> /\ wpc[w] = "check"
      /\ todo' = [todo EXCEPT ![w] = None]
      /\ ran' = IF todo[w] = None THEN ran ELSE Append(ran, todo[w])
      /\ wpc' = [wpc EXCEPT ![w] = IF finished[w] THEN "over" ELSE "idle"]
  BY DEF DoTask, sessionVars, prereqVars
<1>2. /\ todo'[w] = None /\ wpc'[w] = IF finished[w] THEN "over" ELSE "idle"
      /\ \A v \in Workers \ {w} : wpc'[v] = wpc[v] /\ todo'[v] = todo[v]
  BY <1>1 DEF Inv, TypeOK
<1>3. Fresh' /\ OneLine' /\ WasRead'
  BY <1>1 DEF LogInv, Fresh, OneLine, IsTask, WasRead
<1>4. NotFinished'
  BY <1>1, <1>2 DEF LogInv, NotFinished, Working
<1>5. TaskHeld'
  BY <1>1, <1>2 DEF LogInv, TaskHeld, Has
<1>6. NotTwice'
  <2>1. CASE todo[w] = None
    <3>1. ran' = ran /\ \A v \in Workers : todo'[v] = todo[v]
      BY <1>1, <1>2, <2>1
    <3> QED  BY <1>1, <3>1 DEF LogInv, NotTwice
  <2>2. CASE todo[w] # None
    <3>1. ran \in Seq(Tasks) /\ todo[w] \in Tasks /\ None \notin Tasks
      BY <2>2, WorkQueueConstants DEF Inv, TypeOK
    <3>2. PICK i \in DOMAIN file : Has(w, i)
      BY <2>2 DEF LogInv, TaskHeld
    <3>3. file[i].text = [kind |-> "DONE", arg |-> todo[w]]
      <4>1. file[i] \in Line
        BY DEF Inv, TypeOK
      <4>2. file[i].text \in Text /\ file[i].text.kind = "DONE" /\ file[i].text.arg = todo[w]
        BY <1>1, <3>2, <4>1 DEF Has, Line
      <4> QED  BY <4>2 DEF Text
    <3>4. \A k \in DOMAIN ran' : (k \in DOMAIN ran /\ ran'[k] = ran[k]) \/ ran'[k] = todo[w]
      BY <1>1, <2>2, <3>1
    <3>5. \A k \in DOMAIN ran' :
            \E j \in DOMAIN file : file[j].text = [kind |-> "DONE", arg |-> ran'[k]]
      BY <3>3, <3>4 DEF LogInv, NotTwice
    <3>6. \A v \in Workers \ {w} : todo'[v] # todo[w]
      BY <1>2, <2>2 DEF LogInv, NotTwice
    <3>7. \A k \in DOMAIN ran : ran[k] # None
      BY <3>1
    <3>8. \A k \in DOMAIN ran' : \A v \in Workers : todo'[v] # ran'[k]
      BY <1>2, <2>2, <3>4, <3>6, <3>7 DEF LogInv, NotTwice
    <3>9. \A u, v \in Workers : todo'[u] # None /\ todo'[u] = todo'[v] => u = v
      BY <1>2 DEF LogInv, NotTwice
    <3> QED  BY <1>1, <3>5, <3>8, <3>9 DEF NotTwice
  <2> QED  BY <2>1, <2>2
<1> QED  BY <1>3, <1>4, <1>5, <1>6 DEF LogInv

LEMMA CrashLog ==
  ASSUME Inv, LogInv, NEW w \in Workers, Crash(w) PROVE LogInv'
<1>1. UNCHANGED <<file, spc, text, ran>>
  BY DEF Crash, sessionVars
<1>2. /\ current'[w] = WQ_None /\ todo'[w] = None /\ ~finished'[w]
      /\ \A v \in Workers \ {w} :
           /\ wpc'[v] = wpc[v] /\ current'[v] = current[v] /\ todo'[v] = todo[v]
           /\ prereqs'[v] = prereqs[v] /\ finished'[v] = finished[v]
  BY DEF Crash, Inv, TypeOK
<1>3. Fresh' /\ OneLine'
  BY <1>1 DEF LogInv, Fresh, OneLine, IsTask
<1>4. WasRead'
  BY <1>1, <1>2 DEF LogInv, WasRead
<1>5. NotFinished'
  BY <1>2 DEF LogInv, NotFinished
<1>6. TaskHeld'
  BY <1>1, <1>2 DEF LogInv, TaskHeld, Has
<1>7. NotTwice'
  <2>1. \A k \in DOMAIN ran : ran[k] # None
    BY WorkQueueConstants DEF Inv, TypeOK
  <2> QED  BY <1>1, <1>2, <2>1 DEF LogInv, NotTwice
<1> QED  BY <1>3, <1>4, <1>5, <1>6, <1>7 DEF LogInv

LEMMA CreateFileLog ==
  ASSUME LogInv, NEW f \in Files, CreateFile(f) PROVE LogInv'
<1>1. UNCHANGED <<file, spc, text, wpc, current, todo, finished, prereqs, ran>>
  BY DEF CreateFile, sessionVars, readerVars
<1>2. Fresh'
  BY <1>1 DEF LogInv, Fresh
<1> QED  BY <1>1, <1>2, SessionQuiet

\* The steps of a worker that only move it on.
LEMMA MoveLog ==
  ASSUME Inv, LogInv, NEW w \in Workers,
         \/ Start(w) \/ WorkerLock(w) \/ NoLine(w) \/ ReleaseAndWait(w) \/ Awake(w)
         \/ FlushNotificationQueue(w) \/ Unsatisfied(w) \/ Notified(w)
  PROVE  LogInv'
<1>1. UNCHANGED <<file, spc, text, current, todo, finished, prereqs, ran>>
  BY DEF Start, WorkerLock, NoLine, ReleaseAndWait, Awake, FlushNotificationQueue,
         Unsatisfied, Notified, sessionVars, readerVars, prereqVars
<1>2. \/ \E place \in WorkerPlaces :
             /\ wpc' = [wpc EXCEPT ![w] = place]
             /\ wpc[w] \in {"off", "idle", "locked", "measure", "wait"}
      \/ \E place \in {"check", "blocked"} :
             wpc' = [wpc EXCEPT ![w] = place] /\ wpc[w] \in Working
  BY DEF Start, WorkerLock, NoLine, ReleaseAndWait, Awake, FlushNotificationQueue,
         Unsatisfied, Notified, WorkerPlaces, Working
<1>3. {"check", "blocked"} \subseteq Working \cap WorkerPlaces
  BY DEF Working, WorkerPlaces
<1> QED  BY <1>1, <1>2, <1>3, WorkerQuiet

LEMMA LogNextInv ==
  ASSUME Undisturbed \/ OneSession, Inv, LogInv, [Next]_vars PROVE LogInv'
<1>1. ASSUME NEW s \in Sessions, SessionStep(s) PROVE LogInv'
  BY <1>1, OpenLog, AddLog, WriteLog DEF SessionStep
<1>2. ASSUME NEW w \in Workers, WorkerStep(w) PROVE LogInv'
  BY <1>2, MoveLog, TakeLineLog, MarkLineLog, DoTaskLog DEF WorkerStep
<1>3. CASE UNCHANGED vars
  <2>1. UNCHANGED <<file, spc, text, wpc, current, todo, finished, prereqs, ran>>
    BY <1>3 DEF vars, sessionVars, readerVars, prereqVars
  <2>2. Fresh'
    BY <2>1 DEF LogInv, Fresh
  <2> QED  BY <2>1, <2>2, SessionQuiet
<1> QED  BY <1>1, <1>2, <1>3, CrashLog, CreateFileLog DEF Next

LEMMA LogInductive == ASSUME Undisturbed \/ OneSession PROVE Spec => [](Inv /\ LogInv)
<1>1. Init => Inv /\ LogInv
  BY InitInv, LogInitInv
<1>2. Inv /\ LogInv /\ [Next]_vars => (Inv /\ LogInv)'
  BY NextInv, LogNextInv
<1> QED  BY <1>1, <1>2, PTL DEF Spec

-----------------------------------------------------------------------------
(* The refinement.                                                         *)

\* The log that WorkLog sees.
TheLog == [i \in DOMAIN file |-> LogOf(file[i].text)]

\* DONE is the only kind that is mapped, and to a TASK with the same argument.
LEMMA LogOfResult ==
  ASSUME NEW t \in Text
  PROVE  /\ t.kind # "DONE" => LogOf(t) = t
         /\ LogOf(t).arg = t.arg
         /\ LogOf(t).kind = "TASK" <=> IsTask(t)
         /\ LogOf(t).kind = "PREQ" <=> t.kind = "PREQ"
         /\ LogOf(t).kind = "FINI" <=> t.kind = "FINI"
         /\ t.kind # "DONE" => t \in Log!Entry
<1>1. CASE t \in [kind : {"TASK", "DONE"}, arg : Tasks]
  BY <1>1 DEF LogOf, IsTask, Log!Entry
<1>2. CASE t \in [kind : {"PREQ"}, arg : Files]
  BY <1>2 DEF LogOf, IsTask, Log!Entry
<1>3. CASE t \in [kind : {"FINI"}, arg : {0}]
  BY <1>3 DEF LogOf, IsTask, Log!Entry
<1> QED  BY <1>1, <1>2, <1>3 DEF Text

\* Every line of the file has a text.
LEMMA LinesText == ASSUME Inv PROVE \A i \in DOMAIN file : file[i].text \in Text
<1> SUFFICES ASSUME NEW i \in DOMAIN file PROVE file[i].text \in Text
  OBVIOUS
<1>1. file[i] \in Line
  BY DEF Inv, TypeOK
<1> QED  BY <1>1 DEF Line

\* Write() appends the line to the log: nobody else wrote since it was measured.
LEMMA WriteSubmits ==
  ASSUME Inv, LogInv, NEW s \in Sessions, Write(s)
  PROVE  Log!Submit(text[s])
<1> DEFINE n == Len(file)
           e == text[s]
<1>1. /\ n \in Nat /\ DOMAIN file = 1 .. n /\ DOMAIN file' = 1 .. n + 1
      /\ \A i \in DOMAIN file : file'[i] = file[i]
      /\ file'[n + 1].text = e
  BY WriteResult
<1>2. /\ e \in Text /\ e.kind # "DONE"
      /\ e.kind = "TASK" => \A i \in DOMAIN file : file[i].text.arg # e.arg
  BY DEF Write, Inv, TypeOK, LogInv, Fresh
<1>3. LogOf(e) = e
  BY <1>2, LogOfResult
<1> HIDE DEF n, e
<1>4. \A i \in DOMAIN file : LogOf(file[i].text).arg = file[i].text.arg
  BY LinesText, LogOfResult
<1>5. e.kind = "TASK" => \A i \in DOMAIN TheLog : TheLog[i] # e
  BY <1>2, <1>4 DEF TheLog
<1>6. TheLog' = Append(TheLog, e)
  <2>1. DOMAIN TheLog' = 1 .. n + 1 /\ TheLog' = [i \in 1 .. n + 1 |-> LogOf(file'[i].text)]
    BY <1>1 DEF TheLog
  <2>2. TheLog = [i \in 1 .. n |-> LogOf(file[i].text)] /\ Len(TheLog) = n
    BY <1>1 DEF TheLog
  <2>3. Append(TheLog, e) = [i \in 1 .. n + 1 |-> IF i = n + 1 THEN e ELSE TheLog[i]]
    BY <1>1, <2>2
  <2>4. \A i \in 1 .. n + 1 : LogOf(file'[i].text) = IF i = n + 1 THEN e ELSE TheLog[i]
    BY <1>1, <1>3, <2>2
  <2> QED  BY <2>1, <2>3, <2>4
<1>7. UNCHANGED <<exists, ran>>
  BY DEF Write
<1> QED  BY <1>5, <1>6, <1>7 DEF Log!Submit, TheLog, e

\* MarkLine() is not seen in the log.
LEMMA MarkStutters ==
  ASSUME Inv, NEW w \in Workers, MarkLine(w)
  PROVE  UNCHANGED <<TheLog, exists, ran>>
<1>1. PICK i \in DOMAIN file :
        /\ file[i].text.kind = "TASK" /\ DOMAIN file' = DOMAIN file
        /\ file'[i].text = [file[i].text EXCEPT !.kind = "DONE"]
        /\ \A k \in DOMAIN file \ {i} : file'[k] = file[k]
  BY MarkLineResult
<1>2. LogOf(file'[i].text) = LogOf(file[i].text)
  <2>1. file[i].text \in Text
    BY LinesText
  <2> QED  BY <1>1, <2>1 DEF LogOf, Text
<1>3. \A k \in DOMAIN file : LogOf(file'[k].text) = LogOf(file[k].text)
  BY <1>1, <1>2
<1>4. TheLog' = TheLog
  BY <1>1, <1>3 DEF TheLog
<1> QED  BY <1>4 DEF MarkLine

\* DoTask() runs the task of the line that is current, which nobody started
\* before and whose prerequisites exist.
LEMMA DoTaskRuns ==
  ASSUME Inv, LogInv, NEW w \in Workers, DoTask(w), todo[w] # None
  PROVE  \E i \in DOMAIN TheLog : Log!Run(i)
<1>1. PICK i \in DOMAIN file : ~finished[w] /\ Has(w, i)
  BY DEF LogInv, TaskHeld
<1>2. UNCHANGED <<file, exists>> /\ prereqs[w] \subseteq exists /\ ran' = Append(ran, todo[w])
      /\ wpc[w] = "check"
  BY DEF DoTask
<1>3. /\ DOMAIN file = 1 .. Len(file) /\ Len(file) \in Nat
      /\ current[w] = UidAfter(i - 1) /\ file[i].text.arg = todo[w]
      /\ file[i].text.kind = "DONE"
  BY <1>1, <1>2 DEF Has, Inv, TypeOK
<1>4. current[w] # WQ_None
  BY <1>3, UidNat
<1>5. PICK j \in DOMAIN file :
        /\ current[w] = UidAfter(j - 1)
        /\ \A k \in 1 .. j :
             /\ file[k].text.kind = "PREQ" => file[k].text.arg \in prereqs[w]
             /\ file[k].text.kind = "FINI" => finished[w]
  BY <1>4 DEF LogInv, WasRead
<1>6. i = j
  <2>1. i - 1 \in Int /\ j - 1 \in Int /\ i \in Int /\ j \in Int
    BY <1>3
  <2>2. i - 1 = j - 1
    BY <1>3, <1>5, <2>1, UidInjective
  <2> QED  BY <2>1, <2>2
<1>7. 1 .. i - 1 \subseteq 1 .. j /\ 1 .. i - 1 \subseteq DOMAIN file
  BY <1>3, <1>6
<1>8. DOMAIN TheLog = DOMAIN file
      /\ \A k \in DOMAIN file :
           /\ TheLog[k].arg = file[k].text.arg
           /\ TheLog[k].kind = "TASK" <=> IsTask(file[k].text)
           /\ TheLog[k].kind = "PREQ" <=> file[k].text.kind = "PREQ"
           /\ TheLog[k].kind = "FINI" <=> file[k].text.kind = "FINI"
  BY LinesText, LogOfResult DEF TheLog
<1>9. TheLog[i].kind = "TASK" /\ TheLog[i].arg = todo[w]
  BY <1>3, <1>8 DEF IsTask
<1>10. ~Log!Started(TheLog[i].arg)
  BY <1>9 DEF LogInv, NotTwice, Log!Started
<1>11. \A k \in 1 .. i - 1 :
         /\ TheLog[k].kind # "FINI"
         /\ TheLog[k].kind = "PREQ" => TheLog[k].arg \in exists
  BY <1>1, <1>2, <1>5, <1>7, <1>8
<1>12. TheLog' = TheLog
  BY <1>2 DEF TheLog
<1>13. Log!Run(i)
  BY <1>2, <1>8, <1>9, <1>10, <1>11, <1>12 DEF Log!Run, TheLog
<1> QED  BY <1>8, <1>13

\* Every step is a step of the log, or is not seen there.
LEMMA LogStep ==
  ASSUME Undisturbed \/ OneSession, Inv, LogInv, [Next]_vars
  PROVE  Log!Next \/ UNCHANGED <<TheLog, exists, ran>>
<1>1. ASSUME NEW s \in Sessions, SessionStep(s)
      PROVE  Log!Next \/ UNCHANGED <<TheLog, exists, ran>>
  <2>1. CASE Write(s)
    <3>1. text[s] \in Log!Entry
      BY <2>1, LogOfResult DEF Write, Inv, TypeOK, LogInv, Fresh
    <3> QED  BY <2>1, <3>1, WriteSubmits DEF Log!Next
  <2>2. CASE Open(s) \/ AddToQueue(s) \/ LockInterrupted(s) \/ Measure(s)
    <3>1. UNCHANGED <<file, exists, ran>>
      BY <2>2 DEF Open, AddToQueue, LockInterrupted, Measure
    <3> QED  BY <3>1 DEF TheLog
  <2> QED  BY <1>1, <2>1, <2>2 DEF SessionStep
<1>2. ASSUME NEW w \in Workers, WorkerStep(w) \/ Crash(w)
      PROVE  Log!Next \/ UNCHANGED <<TheLog, exists, ran>>
  <2>1. CASE MarkLine(w)
    BY <2>1, MarkStutters
  <2>2. CASE DoTask(w)
    <3>1. CASE todo[w] = None
      <4>1. UNCHANGED <<file, exists, ran>>
        BY <2>2, <3>1 DEF DoTask
      <4> QED  BY <4>1 DEF TheLog
    <3>2. CASE todo[w] # None
      <4>1. PICK i \in DOMAIN TheLog : Log!Run(i)
        BY <2>2, <3>2, DoTaskRuns
      <4> QED  BY <4>1 DEF Log!Next, TheLog
    <3> QED  BY <3>1, <3>2
  <2>3. CASE ~(MarkLine(w) \/ DoTask(w))
    <3>1. UNCHANGED <<file, exists, ran>>
      BY <1>2, <2>3 DEF WorkerStep, Start, WorkerLock, TakeLine, NoLine, ReleaseAndWait,
        Awake, FlushNotificationQueue, Unsatisfied, Notified, Crash
    <3> QED  BY <3>1 DEF TheLog
  <2> QED  BY <2>1, <2>2, <2>3
<1>3. ASSUME NEW f \in Files, CreateFile(f)
      PROVE  Log!Next \/ UNCHANGED <<TheLog, exists, ran>>
  <2>1. Log!Provide(f)
    BY <1>3 DEF CreateFile, Log!Provide
  <2> QED  BY <2>1 DEF Log!Next
<1>4. CASE UNCHANGED vars
  BY <1>4 DEF vars, TheLog
<1> QED  BY <1>1, <1>2, <1>3, <1>4 DEF Next

\* work_queue.h, worker.cc: the file implements the log of WorkLog.  Lines are
\* only appended, and a task is started at most once, by whichever worker and
\* before or after a crash, behind no FINI and after its prerequisites exist.
\* A single session may write without the lock.
THEOREM QueueImplementsLog == ASSUME Undisturbed \/ OneSession PROVE Spec => Implements
<1>1. Init => Log!Init
  <2> SUFFICES ASSUME Init PROVE Log!Init
    OBVIOUS
  <2>1. file = <<>> /\ DOMAIN file = {}
    BY DEF Init
  <2>2. TheLog = <<>>
    BY <2>1 DEF TheLog
  <2> QED  BY <2>2 DEF Init, Log!Init, TheLog
<1>2. Inv /\ LogInv /\ [Next]_vars => [Log!Next]_Log!vars
  BY LogStep DEF Log!vars, TheLog
<1> QED  BY <1>1, <1>2, LogInductive, PTL DEF Spec, Implements, Log!Spec
=============================================================================
