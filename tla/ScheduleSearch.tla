--------------------------- MODULE ScheduleSearch ----------------------------
(***************************************************************************)
(* The genetic search of the scheduler program: main_loop() of             *)
(* SESSION_LIB/scheduler.cc and the operators that make one individual of  *)
(* others, as the library is built (with NO_HASH).  A chromosome says in   *)
(* which order the observations are tried; the waiting times it holds as   *)
(* well, and how a score comes about, are left out: a score is any         *)
(* function of the order.  random() never gives its highest value, with    *)
(* which int_random() would be one above its limit.                        *)
(***************************************************************************)
EXTENDS Integers, FiniteSets

CONSTANTS
  Sizes,             \* bound: the numbers of observations that are tried
  POPULATION_SIZE, N_RETAIN,
  Score(_)           \* of a chromosome

ASSUME ScheduleSearchConstants ==
  /\ Sizes \subseteq Nat
  /\ POPULATION_SIZE \in Nat /\ N_RETAIN \in 2 .. POPULATION_SIZE - 1
  /\ \A n \in Sizes : \A c \in [0 .. n - 1 -> 0 .. n - 1] : Score(c) \in Nat

VARIABLES
  SIZEOFCHROMOSOME,  \* chosen at the start
  population,        \* the individuals, by place
  gpc,               \* "replace", "sort", "crashed"
  next_individual,   \* i of the loop over the individuals to be replaced
  best               \* history: the best score found before the last sort

searchVars == <<SIZEOFCHROMOSOME, population, gpc, next_individual, best>>

Individuals == 0 .. POPULATION_SIZE - 1
Genes == 0 .. SIZEOFCHROMOSOME - 1
InOrder(n) == [i \in 0 .. n - 1 |-> i]
Individual(c) == [chromosome |-> c, score |-> Score(c)]

\* The best score of the individuals p.
BestScore(p) == CHOOSE s \in {p[i].score : i \in Individuals} : \A i \in Individuals : p[i].score <= s

\* std::max(4, ...) of the useful length, or of all of it.
LastSlots == {4} \cup 4 .. SIZEOFCHROMOSOME

-----------------------------------------------------------------------------
(* The operators.                                                          *)

\* random_swap(): two places, wherever they are.
Swap(e, n1, n2) == [e EXCEPT ![n1] = e[n2], ![n2] = e[n1]]

\* rotate_elements(): the genes n1 .. n2 move jump places to the right.
Rotate(e, n1, n2, jump) ==
  [j \in DOMAIN e |->
     IF j \in n1 .. n2
     THEN LET i == j - jump IN e[IF i < n1 THEN i + (n2 - n1 + 1) ELSE i]
     ELSE e[j]]

\* cleanout_duplicates(): from one end or the other, a star that was met before
\* is replaced by the highest of the missing ones that is left.
Cleanout(e, reverse) ==
  LET missing == {s \in DOMAIN e : \A i \in DOMAIN e : e[i] # s}
      Before(i) == {k \in DOMAIN e : IF reverse THEN k > i ELSE k < i}
      duplicates == {i \in DOMAIN e : \E k \in Before(i) : e[k] = e[i]}
      rank(i) == Cardinality(Before(i) \cap duplicates)
      nth(n) == CHOOSE s \in missing : Cardinality({t \in missing : t > s}) = n
  IN [i \in DOMAIN e |-> IF i \in duplicates THEN nth(rank(i)) ELSE e[i]]

Splice(e1, e2, split, reverse) ==
  Cleanout([i \in DOMAIN e1 |-> IF i < split THEN e1[i] ELSE e2[i]], reverse)

-----------------------------------------------------------------------------
\* build_initial_population(), where inner_rotate() makes the others of the
\* first; with few observations it writes past the chromosomes.
SearchInit ==
  /\ SIZEOFCHROMOSOME \in Sizes
  /\ gpc \in IF SIZEOFCHROMOSOME < 4 THEN {"sort", "crashed"} ELSE {"sort"}
  /\ next_individual = N_RETAIN
  /\ LET turns == {t \in Genes \X Genes \X Genes : t[3] >= 1 /\ t[3] <= t[2] - t[1]}
         rotated == {Rotate(InOrder(SIZEOFCHROMOSOME), t[1], t[2], t[3]) : t \in turns}
     IN population \in {p \in [Individuals -> {Individual(c) :
                                    c \in rotated \cup {InOrder(SIZEOFCHROMOSOME)}}] :
                          \A i \in Individuals :
                            (i = 0) = (p[i].chromosome = InOrder(SIZEOFCHROMOSOME))}
  /\ best = BestScore(population)

\* What takes the next individual's place.
Replace(c) ==
  /\ population' = [population EXCEPT ![next_individual] = Individual(c)]
  /\ IF next_individual + 1 = POPULATION_SIZE
     THEN gpc' = "sort" /\ next_individual' = N_RETAIN
     ELSE next_individual' = next_individual + 1 /\ UNCHANGED gpc
  /\ UNCHANGED <<SIZEOFCHROMOSOME, best>>

\* A slot past the chromosome is read and written.
WritePast ==
  /\ gpc' = "crashed"
  /\ UNCHANGED <<SIZEOFCHROMOSOME, population, next_individual, best>>

Retained == 0 .. N_RETAIN - 1
Chromosome(i) == population[i].chromosome

RandomSwap ==
  /\ gpc = "replace"
  /\ \E i \in Retained, last_slot \in LastSlots :
       \E n1, n2 \in 0 .. last_slot - 1 :
         /\ n1 # n2
         /\ IF {n1, n2} \subseteq Genes THEN Replace(Swap(Chromosome(i), n1, n2))
            ELSE WritePast

InnerRotate ==
  /\ gpc = "replace"
  /\ \E i \in Retained, last_slot \in LastSlots :
       \E n1 \in 0 .. last_slot - 2 :
         \E n2 \in n1 + 1 .. last_slot - 1 :
           \E jump \in 1 .. n2 - n1 :
             IF n2 \in Genes THEN Replace(Rotate(Chromosome(i), n1, n2, jump))
             ELSE WritePast

\* pair_swap() looks whether its place is one of the chromosome.
PairSwap ==
  /\ gpc = "replace"
  /\ \E i \in 0 .. next_individual - 1, last_slot \in LastSlots :
       \E n \in 1 .. last_slot - 1 :
         Replace(IF n < SIZEOFCHROMOSOME THEN Swap(Chromosome(i), n - 1, n)
                 ELSE Chromosome(i))

\* Only a waiting time is changed, to one of 0 .. TIME_INDEX_ENTRIES: the last
\* is past the table (see WaitingTimes of Timetable).
TimeAdjust ==
  /\ gpc = "replace"
  /\ \E i \in 0 .. next_individual - 1, last_slot \in LastSlots :
       \E n \in 0 .. last_slot - 1 :
         IF n \in Genes THEN Replace(Chromosome(i)) ELSE WritePast

\* Mutant: the duplicates stay.
M_Slice ==
  /\ gpc = "replace"
  /\ \E i, k \in Retained, last_slot \in LastSlots :
       \E split \in 1 .. last_slot - 2 :
         /\ i # k
         /\ Replace([s \in Genes |-> IF s < split THEN Chromosome(i)[s] ELSE Chromosome(k)[s]])

Slice ==
  /\ gpc = "replace"
  /\ \E i, k \in Retained, last_slot \in LastSlots, reverse \in BOOLEAN :
       \E split \in 1 .. last_slot - 2 :
         /\ i # k
         /\ Replace(Splice(Chromosome(i), Chromosome(k), split, reverse))

\* simple_sort_population(): the better first, and nothing gets lost.
Sorted(p) ==
  {q \in [Individuals -> {p[i] : i \in Individuals}] :
     /\ \A i \in Individuals \ {0} : q[i - 1].score >= q[i].score
     /\ \A x \in {p[i] : i \in Individuals} :
          Cardinality({i \in Individuals : q[i] = x}) = Cardinality({i \in Individuals : p[i] = x})}

\* Mutant: both of two duplicates lose their score.
M_Zeroed(p) ==
  {[i \in Individuals |->
      IF \E j \in Individuals \ {i} : p[j] = p[i] THEN [p[i] EXCEPT !.score = 0] ELSE p[i]]}

\* One that is taken for a duplicate of one after it, with the same score,
\* loses its score.  The results that say which genes to compare are never set,
\* so that each pair may be taken for duplicates or not.
Zeroed(p) ==
  LET alike == {i \in Individuals \ {0} : \E j \in Individuals : j > i /\ p[j].score = p[i].score}
  IN {[i \in Individuals |-> IF i \in zeroed THEN [p[i] EXCEPT !.score = 0] ELSE p[i]] :
        zeroed \in SUBSET alike}

\* sort_population(), at the head of a generation.
SortPopulation ==
  /\ gpc = "sort"
  /\ best' = IF BestScore(population) > best THEN BestScore(population) ELSE best
  /\ \E p \in Sorted(population) : \E q \in Zeroed(p) : population' \in Sorted(q)
  /\ gpc' = "replace"
  /\ UNCHANGED <<SIZEOFCHROMOSOME, next_individual>>

SearchNext ==
  RandomSwap \/ InnerRotate \/ PairSwap \/ TimeAdjust \/ Slice \/ SortPopulation

SearchSpec == SearchInit /\ [][SearchNext]_searchVars

-----------------------------------------------------------------------------
(* Properties.                                                             *)

\* scheduler.cc:105: "Each chromosome should contain each star_id exactly once",
\* whatever is made of whatever; and with four observations or more no slot
\* past a chromosome is touched.
EachStarOnce ==
  gpc # "crashed" \/ SIZEOFCHROMOSOME >= 4 =>
    /\ gpc # "crashed"
    /\ \A i \in Individuals :
         /\ DOMAIN Chromosome(i) = Genes
         /\ {Chromosome(i)[s] : s \in Genes} = Genes

\* The individual written to the output file is population[0], which is not
\* sorted again after the last generation: it has the best score that was found
\* up to the last sort, in spite of those that lose their scores.
BestKept == gpc = "replace" => population[0].score = best
=============================================================================
