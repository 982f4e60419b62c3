------------------------------ MODULE Timetable ------------------------------
(***************************************************************************)
(* How the scheduler program makes a timetable of a chromosome:            *)
(* calculate_score() of SESSION_LIB/scoring.cc up to the scores, with      *)
(* TRIAL::InsertFixedTime() and TRIAL::InsertInFirstGap() of scheduler.cc. *)
(* The night begins at 0, and times and durations are small numbers.       *)
(***************************************************************************)
EXTENDS Integers, Sequences, FiniteSets
Seqs == INSTANCE SequencesExt

CONSTANTS
  Fixed,        \* observations at a fixed time: AT_Time_Seq
  Repeated,     \* observations that are repeated: AT_Quick
  Scripted,     \* observations that may wait before they begin: AT_Script
  Frames,       \* darks and flats
  FixedStarts,  \* bound: the times a fixed one may begin
  Durations,    \* bound: the durations
  Cadences,     \* bound: the least times between two of the same
  Delays,       \* bound: the waiting times of time_delay_table
  PastTable,    \* what may be found in the place after its last entry
  t_quit        \* bound: the end of the night

Plain == Scripted \cup Frames
Elements == Fixed \cup Repeated \cup Plain

ASSUME TimetableConstants ==
  /\ Fixed \cap (Repeated \cup Plain) = {} /\ Repeated \cap Plain = {}
  /\ FixedStarts \subseteq Nat /\ Durations \subseteq Nat \ {0}
  /\ IsFiniteSet(Elements) /\ Cadences \subseteq Nat \ {0} /\ t_quit \in Nat
  /\ Delays \subseteq Nat /\ PastTable \subseteq Int

VARIABLES
  duration, start, cadence,  \* of the observations, chosen at the beginning
  chromosome,       \* the elements in order
  element_index,    \* of the loops; the first element is 1
  ttpc,             \* the first loop, the second, or the end
  quick_pool,       \* the repeated ones of the first half
  tried,            \* how many of the pool were tried before this element
  trial,            \* the timetable
  last_scheduled,   \* of the repeated ones
  scheduling_time,
  early             \* history: the elements that were given a negative waiting time

inputs == <<duration, start, cadence, chromosome>>
timetableVars == <<inputs, element_index, ttpc, quick_pool, tried, trial, last_scheduled,
                   scheduling_time, early>>

\* The time of a repeated one that was not yet scheduled.
LongAgo == -1000

\* Every order of the elements.
Chromosomes ==
  {c \in [1 .. Cardinality(Elements) -> Elements] : \A i, k \in DOMAIN c : c[i] = c[k] => i = k}

TimetableInit ==
  /\ duration \in [Elements -> Durations]
  /\ start \in [Fixed -> FixedStarts] /\ cadence \in [Repeated -> Cadences]
  /\ chromosome \in Chromosomes
  /\ element_index = 1 /\ ttpc = "pool" /\ quick_pool = <<>> /\ tried = 0
  /\ trial = <<>> /\ last_scheduled = [q \in Repeated |-> LongAgo] /\ scheduling_time = 0
  /\ early = {}

-----------------------------------------------------------------------------
(* The timetable.                                                          *)

Slot(e, from) == [element |-> e, from |-> from, to |-> from + duration[e]]

\* prior_end when the loop is at place k.
PriorEnd(k) == IF k = 1 THEN 0 ELSE trial[k - 1].to

\* Mutant: what comes after the fixed one is not looked at.
M_FixedPlaces(e) ==
  {k \in 1 .. Len(trial) + 1 :
     /\ start[e] + duration[e] <= t_quit
     /\ k <= Len(trial) => start[e] < trial[k].from
     /\ \A i \in 1 .. k - 1 : start[e] >= trial[i].from}

\* InsertFixedTime(): the place before the first that begins later, when there is
\* room before that one.
FixedPlaces(e) ==
  {k \in 1 .. Len(trial) + 1 :
     /\ start[e] + duration[e] <= t_quit
     /\ k <= Len(trial) => start[e] < trial[k].from /\ start[e] + duration[e] <= trial[k].from
     /\ \A i \in 1 .. k - 1 : start[e] >= trial[i].from}

\* InsertInFirstGap(): where a repeated one fits between others and long enough
\* after the last time it was scheduled.
Gaps(q) ==
  {k \in DOMAIN trial :
     /\ PriorEnd(k) + duration[q] <= trial[k].from
     /\ PriorEnd(k) > last_scheduled[q] + cadence[q]}

\* At the end this time is not looked at.
FitsAtEnd(e, delay) == PriorEnd(Len(trial) + 1) + delay + duration[e] <= t_quit

RepeatedPlaces(q) ==
  IF Gaps(q) # {} THEN {k \in Gaps(q) : \A i \in Gaps(q) : k <= i}
  ELSE IF FitsAtEnd(q, 0) THEN {Len(trial) + 1} ELSE {}

-----------------------------------------------------------------------------
(* The loops.                                                              *)

Element == chromosome[element_index]
InFirstHalf == element_index - 1 < Len(chromosome) \div 2

NextElement ==
  IF element_index = Len(chromosome)
  THEN element_index' = 1 /\ ttpc' = IF ttpc = "pool" THEN "quick" ELSE "done"
  ELSE element_index' = element_index + 1 /\ ttpc' = IF ttpc = "pool" THEN "pool" ELSE "quick"

\* The first loop: the fixed and the repeated ones of the first half.
PoolElement ==
  /\ ttpc = "pool"
  /\ IF Element \in Fixed /\ InFirstHalf /\ FixedPlaces(Element) # {}
     THEN \E k \in FixedPlaces(Element) :
            trial' = Seqs!InsertAt(trial, k, Slot(Element, start[Element]))
     ELSE UNCHANGED trial
  /\ quick_pool' = IF Element \in Repeated /\ InFirstHalf THEN Append(quick_pool, Element)
                   ELSE quick_pool
  /\ NextElement
  /\ UNCHANGED <<inputs, tried, last_scheduled, scheduling_time, early>>

\* Mutant: the time since the last time is not looked at.
M_TryRepeated ==
  /\ ttpc = "quick" /\ Element \in Plain /\ tried < Len(quick_pool)
  /\ LET q == quick_pool[tried + 1] IN
       IF RepeatedPlaces(q) # {}
       THEN \E k \in RepeatedPlaces(q) :
              /\ trial' = Seqs!InsertAt(trial, k, Slot(q, PriorEnd(k)))
              /\ last_scheduled' = [last_scheduled EXCEPT ![q] = PriorEnd(k)]
              /\ scheduling_time' = PriorEnd(k) + duration[q]
       ELSE UNCHANGED <<trial, last_scheduled, scheduling_time>>
  /\ tried' = tried + 1
  /\ UNCHANGED <<inputs, element_index, ttpc, quick_pool, early>>

\* The second loop: before a plain element each repeated one is tried, when its
\* time has come and, which is external, it is visible.
TryRepeated ==
  /\ ttpc = "quick" /\ Element \in Plain /\ tried < Len(quick_pool)
  /\ LET q == quick_pool[tried + 1] IN
       \/ /\ scheduling_time - last_scheduled[q] >= cadence[q]
          /\ \E k \in RepeatedPlaces(q) :
               /\ trial' = Seqs!InsertAt(trial, k, Slot(q, PriorEnd(k)))
               /\ last_scheduled' = [last_scheduled EXCEPT ![q] = PriorEnd(k)]
               /\ scheduling_time' = PriorEnd(k) + duration[q]
       \/ UNCHANGED <<trial, last_scheduled, scheduling_time>>
  /\ tried' = tried + 1
  /\ UNCHANGED <<inputs, element_index, ttpc, quick_pool, early>>

\* time_adjust() draws one of 0 .. TIME_INDEX_ENTRIES, one more than the table
\* has: that script waits for as long as whatever lies behind the table says,
\* and where it is negative the script begins before the one before it ends.
WaitingTimes == IF Element \in Scripted THEN Delays \cup PastTable ELSE {0}

\* A plain one goes to the end, after a waiting time: a gap is only looked for
\* after a time that is given.
PlaceElement ==
  /\ ttpc = "quick"
  /\ Element \in Plain => tried = Len(quick_pool)
  /\ \E delay \in WaitingTimes :
       IF Element \in Plain /\ FitsAtEnd(Element, delay)
       THEN LET slot == Slot(Element, PriorEnd(Len(trial) + 1) + delay)
            IN /\ trial' = Append(trial, slot) /\ scheduling_time' = slot.to
               /\ early' = IF delay < 0 THEN early \cup {Element} ELSE early
       ELSE UNCHANGED <<trial, scheduling_time, early>>
  /\ tried' = 0
  /\ NextElement
  /\ UNCHANGED <<inputs, quick_pool, last_scheduled>>

TimetableNext == PoolElement \/ TryRepeated \/ PlaceElement
TimetableSpec == TimetableInit /\ [][TimetableNext]_timetableVars

-----------------------------------------------------------------------------
(* Properties.                                                             *)

Precedes(e, f) == \E i, k \in DOMAIN chromosome : i < k /\ chromosome[i] = e /\ chromosome[k] = f

\* Nothing is scheduled past the end of the night, and nothing before what
\* precedes it in the timetable has ended, but for two things the code does: a
\* script whose waiting time is read past the table and is negative, and a
\* fixed one that begins within one inserted before it, as InsertFixedTime()
\* only compares it with what follows.
NoOverlap ==
  \A k \in DOMAIN trial :
    /\ trial[k].to <= t_quit
    /\ trial[k].from < PriorEnd(k) =>
         \/ trial[k].element \in early
         \/ /\ k > 1 /\ {trial[k - 1].element, trial[k].element} \subseteq Fixed
            /\ Precedes(trial[k - 1].element, trial[k].element)

\* The slots begin in the order of the timetable: so they do unless a script
\* begins so much too early that it comes before the one it follows.
InOrderOfTime == \A i, k \in DOMAIN trial : i < k => trial[i].from <= trial[k].from

\* Between two times of a repeated observation is its cadence, also when one
\* goes into a gap and the other to the end, where the time it was last
\* scheduled is not looked at, and when others overlap.
CadenceKept ==
  InOrderOfTime =>
    \A i, k \in DOMAIN trial :
      LET q == trial[i].element IN
        i < k /\ q \in Repeated /\ trial[k].element = q =>
          trial[k].from - trial[i].from >= cadence[q]
=============================================================================
