----------------------------- MODULE ImageNotify -----------------------------
(***************************************************************************)
(* How the image monitor learns of a new image: REMOTE_LIB/image_notify.cc *)
(* with TOOLS/IMAGE_MONITOR/image_monitor.cc.  Programs that take images   *)
(* write the name of the last one into a file and send SIGUSR1 to the      *)
(* process whose pid is in another file.  There the handler reads the name *)
(* and puts a byte into a pipe, and the main loop shows the name.          *)
(***************************************************************************)
EXTENDS Integers, Sequences

CONSTANTS
  Observers,   \* programs that take images
  Names,       \* names of images, different from each other
  Length,      \* the length of each name
  NoObserver,  \* nobody has the exclusive lock
  MaxNotices   \* bound: images of all programs

ASSUME ImageNotifyConstants ==
  Length \in [Names -> Nat \ {0}] /\ NoObserver \notin Observers /\ MaxNotices \in Nat

VARIABLES
  name_file,    \* the characters in the file of the name, each that of a name
  pid_file,     \* whether the monitor's pid is in the other file
  exclusive,    \* who has the exclusive flock()
  shared,       \* whether the handler of the monitor has the shared one
  opc, naming,  \* where each program is, and the name it writes
  hpc,          \* where the monitor is: its registration, or its handler
  size,         \* what fstat() said
  sigusr1,      \* a signal is pending
  NewImageFilename, pipe,  \* what the handler left for the main loop
  shown,        \* the name the monitor shows
  notices,      \* history: the names of the images, in order
  crossing      \* history: two programs were in NotifyServiceProvider() at once

observerVars == <<opc, naming, notices, crossing>>
lockVars == <<exclusive, shared>>
imageVars == <<name_file, pid_file, lockVars, observerVars, hpc, size, sigusr1,
               NewImageFilename, pipe, shown>>

Chars(n) == [i \in 1 .. Length[n] |-> n]

\* write() at the begin of the file, which leaves what is behind it.
WrittenOver(file, s) ==
  [i \in 1 .. IF Len(file) > Len(s) THEN Len(file) ELSE Len(s) |->
     IF i <= Len(s) THEN s[i] ELSE file[i]]

ImageInit ==
  /\ name_file = <<>> /\ pid_file = FALSE
  /\ exclusive = NoObserver /\ shared = FALSE
  /\ opc = [o \in Observers |-> "idle"]
  /\ naming = [o \in Observers |-> <<>>]
  /\ hpc = "register" /\ size = 0 /\ sigusr1 = FALSE
  /\ NewImageFilename = <<>> /\ pipe = 0 /\ shown = <<>>
  /\ notices = <<>> /\ crossing = FALSE

-----------------------------------------------------------------------------
(* NotifyServiceProvider().                                                *)

\* open() truncates the file, before any lock.
TruncateName(o, n) ==
  /\ opc[o] = "idle" /\ Len(notices) < MaxNotices
  /\ \A i \in DOMAIN notices : notices[i] # n
  /\ name_file' = <<>>
  /\ opc' = [opc EXCEPT ![o] = "lock"]
  /\ naming' = [naming EXCEPT ![o] = Chars(n)]
  /\ notices' = Append(notices, n)
  /\ crossing' = (crossing \/ \E p \in Observers : opc[p] # "idle")
  /\ UNCHANGED <<pid_file, lockVars, hpc, size, sigusr1, NewImageFilename, pipe, shown>>

LockForWrite(o) ==
  /\ opc[o] = "lock" /\ exclusive = NoObserver /\ ~shared
  /\ exclusive' = o
  /\ opc' = [opc EXCEPT ![o] = "write"]
  /\ UNCHANGED <<name_file, pid_file, shared, naming, notices, crossing, hpc, size, sigusr1,
                 NewImageFilename, pipe, shown>>

WriteName(o) ==
  /\ opc[o] = "write"
  /\ name_file' = WrittenOver(name_file, naming[o])
  /\ opc' = [opc EXCEPT ![o] = "kill"]
  /\ UNCHANGED <<pid_file, lockVars, naming, notices, crossing, hpc, size, sigusr1,
                 NewImageFilename, pipe, shown>>

\* kill() and ReleaseLock().
SignalMonitor(o) ==
  /\ opc[o] = "kill"
  /\ sigusr1' = (sigusr1 \/ pid_file)
  /\ exclusive' = NoObserver
  /\ opc' = [opc EXCEPT ![o] = "idle"]
  /\ naming' = [naming EXCEPT ![o] = <<>>]
  /\ UNCHANGED <<name_file, pid_file, shared, notices, crossing, hpc, size,
                 NewImageFilename, pipe, shown>>

-----------------------------------------------------------------------------
(* The monitor.                                                            *)

\* RegisterAsProviderCommon(): the pid is written under the exclusive lock.
RegisterAsProvider ==
  /\ hpc = "register" /\ exclusive = NoObserver
  /\ pid_file' = TRUE /\ hpc' = "idle"
  /\ UNCHANGED <<name_file, lockVars, observerVars, size, sigusr1, NewImageFilename, pipe,
                 shown>>

\* Mutant: the shared lock is not waited for.
M_UnixSigHandler ==
  /\ hpc = "idle" /\ sigusr1
  /\ sigusr1' = FALSE
  /\ shared' = TRUE
  /\ size' = Len(name_file)
  /\ hpc' = "read"
  /\ UNCHANGED <<name_file, pid_file, exclusive, observerVars, NewImageFilename, pipe, shown>>

\* UnixSigHandler(), with the signal blocked, up to fstat() under the shared lock.
UnixSigHandler ==
  /\ hpc = "idle" /\ sigusr1 /\ exclusive = NoObserver
  /\ sigusr1' = FALSE
  /\ shared' = TRUE
  /\ size' = Len(name_file)
  /\ hpc' = "read"
  /\ UNCHANGED <<name_file, pid_file, exclusive, observerVars, NewImageFilename, pipe, shown>>

\* Four more than size are read; a file that was truncated gives no name.
ProvideCurrentFilename ==
  /\ hpc = "read"
  /\ NewImageFilename' =
       SubSeq(name_file, 1, IF Len(name_file) < size + 4 THEN Len(name_file) ELSE size + 4)
  /\ pipe' = pipe + 1
  /\ shared' = FALSE
  /\ hpc' = "idle"
  /\ UNCHANGED <<name_file, pid_file, exclusive, observerVars, size, sigusr1, shown>>

\* Mutant: the main loop takes every signal out of the pipe for the name it got
\* with the first.
M_DeliverSignal ==
  /\ pipe > 0 /\ hpc # "register"
  /\ pipe' = 0
  /\ shown' = IF shown = <<>> THEN NewImageFilename ELSE shown
  /\ UNCHANGED <<name_file, pid_file, lockVars, observerVars, hpc, size, sigusr1,
                 NewImageFilename>>

\* deliver_signal() and NewExposureCallback(): one byte, and the last name; the
\* handler may run at any time, but not within it what is one step of it.
DeliverSignal ==
  /\ pipe > 0 /\ hpc = "idle"
  /\ pipe' = pipe - 1
  /\ shown' = IF NewImageFilename = <<>> THEN shown ELSE NewImageFilename
  /\ UNCHANGED <<name_file, pid_file, lockVars, observerVars, hpc, size, sigusr1,
                 NewImageFilename>>

-----------------------------------------------------------------------------
NotifyStep(o) == LockForWrite(o) \/ WriteName(o) \/ SignalMonitor(o)
HandlerStep == UnixSigHandler \/ ProvideCurrentFilename
MonitorStep == RegisterAsProvider \/ HandlerStep \/ DeliverSignal

ImageNext ==
  \/ MonitorStep
  \/ \E o \in Observers : NotifyStep(o) \/ \E n \in Names : TruncateName(o, n)

ImageSpec == ImageInit /\ [][ImageNext]_imageVars

\* A call that was begun ends, and the monitor runs; its handler comes before
\* its main loop.
ImageFairSpec ==
  /\ ImageSpec
  /\ \A o \in Observers : WF_imageVars(NotifyStep(o))
  /\ WF_imageVars(HandlerStep) /\ WF_imageVars(DeliverSignal)

-----------------------------------------------------------------------------
(* Properties.                                                             *)

\* image_notify.cc:51, the name "will not be 'sliced in half'": what the monitor
\* shows, or finds when it reads while the next name is being written, is a
\* whole name or none.  Two programs in NotifyServiceProvider() at once both
\* truncate before they write, and can leave the end of a longer name.
NameWhole ==
  ~crossing => {NewImageFilename, shown} \subseteq {Chars(n) : n \in Names} \cup {<<>>}

\* When the images stop, the monitor shows the last one that was taken after it
\* had registered: in spite of signals that become one, of a name that was
\* replaced before it was shown, and of a file that was found empty.
LatestShown ==
  \A n \in Names :
    pid_file /\ (\E o \in Observers : opc[o] = "lock" /\ naming[o] = Chars(n)) ~>
      shown = Chars(n) \/ crossing \/ (notices # <<>> /\ notices[Len(notices)] # n)
=============================================================================
