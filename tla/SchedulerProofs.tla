--------------------------- MODULE SchedulerProofs ---------------------------
(****************************************************************************)
(* Proofs about ScheduleSearch and Timetable: the chromosomes stay         *)
(* permutations and the best is kept, and what is put into the timetable has*)
(* room there, for any number of observations, chromosomes and generations.*)
(****************************************************************************)
EXTENDS ScheduleSearch, Timetable, FiniteSetTheorems, FunctionTheorems, SequenceTheorems, TLAPS

-----------------------------------------------------------------------------
(****************************************************************************)
(* ScheduleSearch.                                                         *)
(****************************************************************************)

-----------------------------------------------------------------------------
(* Ranks.                                                                  *)

\* The members of S before i, which is after them when r holds.
Preceding(S, i, r) == {k \in S : IF r THEN k > i ELSE k < i}

\* The ranks of a finite set of numbers are 0, 1 and so on, each of one member.
LEMMA Ranks ==
  ASSUME NEW S \in SUBSET Int, IsFiniteSet(S), NEW r \in BOOLEAN
  PROVE  /\ Cardinality(S) \in Nat
         /\ \A i \in S : Cardinality(Preceding(S, i, r)) \in 0 .. Cardinality(S) - 1
         /\ \A i, k \in S : Cardinality(Preceding(S, i, r)) = Cardinality(Preceding(S, k, r)) => i = k
         /\ \A n \in 0 .. Cardinality(S) - 1 : \E i \in S : Cardinality(Preceding(S, i, r)) = n
<1> DEFINE P(i) == Preceding(S, i, r)
           m == Cardinality(S)
           f == [i \in S |-> Cardinality(P(i))]
<1>1. m \in Nat /\ \A i \in S : IsFiniteSet(P(i)) /\ Cardinality(P(i)) \in Nat
  <2>1. \A i \in S : P(i) \in SUBSET S
    BY DEF Preceding
  <2>2. ASSUME NEW i \in S PROVE IsFiniteSet(P(i))
    BY <2>1, FS_Subset
  <2> QED  BY <2>2, FS_CardinalityType
<1>2. ASSUME NEW i \in S PROVE Cardinality(P(i)) < m
  <2>1. P(i) \in SUBSET S /\ i \notin P(i)
    BY DEF Preceding
  <2>2. Cardinality(P(i)) <= m /\ (m = Cardinality(P(i)) => S = P(i))
    BY <2>1, FS_Subset
  <2> QED  BY <1>1, <2>1, <2>2
<1>3. ASSUME NEW i \in S, NEW k \in S, k \in P(i) PROVE Cardinality(P(k)) < Cardinality(P(i))
  <2>1. P(k) \in SUBSET P(i) /\ k \notin P(k)
    <3>1. /\ k \in Int /\ i \in Int /\ IF r THEN k > i ELSE k < i
          /\ k \notin P(k)
      BY <1>3 DEF Preceding
    <3>2. ASSUME NEW x \in P(k) PROVE x \in P(i)
      <4>1. x \in S /\ x \in Int /\ IF r THEN x > k ELSE x < k
        BY <3>2 DEF Preceding
      <4>2. IF r THEN x > i ELSE x < i
        BY <3>1, <4>1
      <4> QED  BY <4>1, <4>2 DEF Preceding
    <3> HIDE DEF P
    <3> QED  BY <3>1, <3>2
  <2>2. /\ Cardinality(P(k)) <= Cardinality(P(i))
        /\ Cardinality(P(i)) = Cardinality(P(k)) => P(i) = P(k)
    BY <1>1, <2>1, FS_Subset
  <2> QED  BY <1>1, <1>3, <2>1, <2>2
<1>4. ASSUME NEW i \in S, NEW k \in S, Cardinality(P(i)) = Cardinality(P(k)) PROVE i = k
  <2>1. i = k \/ i \in P(k) \/ k \in P(i)
    BY DEF Preceding
  <2> QED  BY <1>1, <1>3, <1>4, <2>1
<1>5. f \in Injection(S, 0 .. m - 1)
  <2>1. f \in [S -> 0 .. m - 1]
    BY <1>1, <1>2
  <2> QED  BY <1>4, <2>1 DEF Injection, IsInjective
<1>6. f \in Surjection(S, 0 .. m - 1)
  <2>1. IsFiniteSet(0 .. m - 1) /\ Cardinality(0 .. m - 1) = m
    <3> DEFINE top == m - 1
    <3>1. top \in Int /\ m = top + 1 /\ (0 > top => m = 0)
      BY <1>1
    <3> HIDE DEF top
    <3>2. /\ \A a, b \in Int : IsFiniteSet(a .. b)
          /\ \A a, b \in Int : Cardinality(a .. b) = IF a > b THEN 0 ELSE b - a + 1
      BY FS_Interval
    <3>3. IsFiniteSet(0 .. top) /\ Cardinality(0 .. top) = m
      BY <1>1, <3>1, <3>2
    <3> QED  BY <3>3 DEF top
  <2> QED  BY <1>5, <2>1, FS_Injection
<1> QED  BY <1>1, <1>2, <1>4, <1>6 DEF Surjection

\* A set of numbers that is not empty has a first member, and a last one.
LEMMA FirstMember ==
  ASSUME NEW S \in SUBSET Int, IsFiniteSet(S), S # {}, NEW r \in BOOLEAN
  PROVE  \E i \in S : \A k \in S : IF r THEN k <= i ELSE k >= i
<1>1. Cardinality(S) \in Nat /\ Cardinality(S) # 0
  BY FS_CardinalityType, FS_EmptySet
<1>2. PICK i \in S : Cardinality(Preceding(S, i, r)) = 0
  BY <1>1, Ranks
<1>3. IsFiniteSet(Preceding(S, i, r))
  BY FS_Subset DEF Preceding
<1>4. Preceding(S, i, r) = {}
  BY <1>2, <1>3, FS_EmptySet
<1> QED  BY <1>4 DEF Preceding

-----------------------------------------------------------------------------
(* The operators make permutations.                                        *)

\* The chromosomes of n observations that hold each of them.
Stars(n) == 0 .. n - 1
Permutes(e, n) == e \in [Stars(n) -> Stars(n)] /\ \A s \in Stars(n) : \E i \in Stars(n) : e[i] = s

LEMMA InOrderPermutes ==
  ASSUME NEW n \in Nat
  PROVE  Permutes(InOrder(n), n)
BY DEF InOrder, Permutes, Stars

LEMMA SwapPermutes ==
  ASSUME NEW n \in Nat, NEW e, Permutes(e, n), NEW n1 \in Stars(n), NEW n2 \in Stars(n)
  PROVE  Permutes(Swap(e, n1, n2), n)
<1> DEFINE t == Swap(e, n1, n2)
<1>1. t \in [Stars(n) -> Stars(n)]
  BY DEF Swap, Permutes
<1>2. ASSUME NEW s \in Stars(n) PROVE \E i \in Stars(n) : t[i] = s
  <2>1. PICK i \in Stars(n) : e[i] = s
    BY DEF Permutes
  <2>2. t[IF i = n1 THEN n2 ELSE IF i = n2 THEN n1 ELSE i] = s
    BY <2>1 DEF Swap, Permutes
  <2> QED  BY <2>2
<1> QED  BY <1>1, <1>2 DEF Permutes

LEMMA RotatePermutes ==
  ASSUME NEW n \in Nat, NEW e, Permutes(e, n), NEW n1 \in Stars(n), NEW n2 \in Stars(n),
         NEW jump \in Nat, jump >= 1, jump <= n2 - n1
  PROVE  Permutes(Rotate(e, n1, n2, jump), n)
<1> DEFINE t == Rotate(e, n1, n2, jump)
           Source(j) == IF j \in n1 .. n2
                        THEN IF j - jump < n1 THEN j - jump + (n2 - n1 + 1) ELSE j - jump
                        ELSE j
<1>1. DOMAIN e = Stars(n) /\ e \in [Stars(n) -> Stars(n)]
  BY DEF Permutes
<1>2. \A j \in Stars(n) : Source(j) \in Stars(n)
  BY DEF Stars
<1>3. t = [j \in Stars(n) |-> e[Source(j)]]
  BY <1>1 DEF Rotate
<1>4. ASSUME NEW s \in Stars(n) PROVE \E j \in Stars(n) : Source(j) = s
  <2>1. CASE s \notin n1 .. n2
    BY <2>1
  <2>2. CASE s \in n1 .. n2 /\ s + jump <= n2
    <3>1. s + jump \in Stars(n) /\ Source(s + jump) = s
      BY <2>2 DEF Stars
    <3> QED  BY <3>1
  <2>3. CASE s \in n1 .. n2 /\ s + jump > n2
    <3>1. s + jump - (n2 - n1 + 1) \in Stars(n) /\ Source(s + jump - (n2 - n1 + 1)) = s
      BY <2>3 DEF Stars
    <3> QED  BY <3>1
  <2> QED  BY <2>1, <2>2, <2>3 DEF Stars
<1> HIDE DEF Source
<1>5. t \in [Stars(n) -> Stars(n)]
  BY <1>1, <1>2, <1>3
<1>6. ASSUME NEW s \in Stars(n) PROVE \E j \in Stars(n) : t[j] = s
  <2>1. PICK i \in Stars(n) : e[i] = s
    BY DEF Permutes
  <2>2. PICK j \in Stars(n) : Source(j) = i
    BY <1>4
  <2> QED  BY <1>3, <2>1, <2>2
<1> QED  BY <1>5, <1>6 DEF Permutes

\* What cleanout_duplicates() makes of any n stars.
LEMMA CleanoutPermutes ==
  ASSUME NEW n \in Nat, NEW e \in [Stars(n) -> Stars(n)], NEW reverse \in BOOLEAN
  PROVE  Permutes(Cleanout(e, reverse), n)
<1> DEFINE missing == {s \in DOMAIN e : \A i \in DOMAIN e : e[i] # s}
           Before(i) == {k \in DOMAIN e : IF reverse THEN k > i ELSE k < i}
           duplicates == {i \in DOMAIN e : \E k \in Before(i) : e[k] = e[i]}
           rank(i) == Cardinality(Before(i) \cap duplicates)
           nth(j) == CHOOSE s \in missing : Cardinality({t \in missing : t > s}) = j
           t == [i \in DOMAIN e |-> IF i \in duplicates THEN nth(rank(i)) ELSE e[i]]
           first == DOMAIN e \ duplicates
           found == DOMAIN e \ missing
<1>1. Cleanout(e, reverse) = t
  BY DEF Cleanout
<1>2. /\ DOMAIN e = Stars(n) /\ Stars(n) \in SUBSET Int /\ IsFiniteSet(Stars(n))
      /\ missing \in SUBSET Stars(n) /\ duplicates \in SUBSET Stars(n)
      /\ first \in SUBSET Stars(n) /\ found \in SUBSET Stars(n)
  BY FS_Interval DEF Stars
<1>3. IsFiniteSet(missing) /\ IsFiniteSet(duplicates) /\ IsFiniteSet(first) /\ IsFiniteSet(found)
  BY <1>2, FS_Subset
\* The first place of each star that is found.
<1>4. ASSUME NEW s \in found PROVE \E i \in first : e[i] = s
  <2> DEFINE places == {i \in Stars(n) : e[i] = s}
  <2>1. places # {} /\ places \in SUBSET Stars(n) /\ places \in SUBSET Int
    BY <1>2
  <2>2. IsFiniteSet(places)
    BY <1>2, <2>1, FS_Subset
  <2>3. PICK i \in places : \A k \in places : IF ~reverse THEN k >= i ELSE k <= i
    BY <2>1, <2>2, FirstMember
  <2>4. \A k \in Before(i) : e[k] # e[i]
    <3> SUFFICES ASSUME NEW k \in Before(i), e[k] = e[i] PROVE FALSE
      OBVIOUS
    <3>1. k \in places /\ k \in Int /\ i \in Int
      BY <1>2
    <3> QED  BY <2>3, <3>1
  <2>5. i \in first /\ e[i] = s
    BY <1>2, <2>4
  <2> QED  BY <2>5
<1>5. \A i \in first : e[i] \in found
  BY <1>2
<1>6. \A i, k \in first : e[i] = e[k] => i = k
  <2> SUFFICES ASSUME NEW i \in first, NEW k \in first, e[i] = e[k], i # k PROVE FALSE
    OBVIOUS
  <2>1. i \in Before(k) \/ k \in Before(i)
    BY <1>2
  <2> QED  BY <1>2, <2>1
\* There are as many duplicates as there are missing stars.
<1>7. Cardinality(first) = Cardinality(found)
  <2> DEFINE f == [i \in first |-> e[i]]
  <2>1. f \in Injection(first, found) /\ f \in Surjection(first, found)
    BY <1>4, <1>5, <1>6 DEF Injection, IsInjective, Surjection
  <2> QED  BY <1>3, <2>1, FS_Injection
<1>8. Cardinality(duplicates) = Cardinality(missing) /\ Cardinality(missing) \in Nat
  <2>1. /\ Stars(n) \cap duplicates = duplicates /\ Stars(n) \cap missing = missing
        /\ first = Stars(n) \ duplicates /\ found = Stars(n) \ missing
    BY <1>2
  <2>2. /\ Cardinality(first) = Cardinality(Stars(n)) - Cardinality(duplicates)
        /\ Cardinality(found) = Cardinality(Stars(n)) - Cardinality(missing)
    <3> HIDE DEF first, found, duplicates, missing
    <3>1. \A S : Cardinality(Stars(n) \ S) = Cardinality(Stars(n)) - Cardinality(Stars(n) \cap S)
      BY <1>2, FS_Difference
    <3> QED  BY <2>1, <3>1
  <2>3. /\ Cardinality(duplicates) \in Nat /\ Cardinality(missing) \in Nat
        /\ Cardinality(Stars(n)) \in Nat
    BY <1>2, <1>3, FS_CardinalityType
  <2>4. \A a, b, c \in Nat : a - b = a - c => b = c
    OBVIOUS
  <2> HIDE DEF first, found, duplicates, missing
  <2>5. Cardinality(Stars(n)) - Cardinality(duplicates)
          = Cardinality(Stars(n)) - Cardinality(missing)
    BY <1>7, <2>2
  <2> QED  BY <2>3, <2>4, <2>5
\* So each duplicate is replaced by a missing star, and each of these is used.
<1> DEFINE m == Cardinality(missing)
<1>9. /\ \A i \in duplicates : rank(i) \in 0 .. m - 1
      /\ \A j \in 0 .. m - 1 : \E i \in duplicates : rank(i) = j
  <2>1. \A i \in duplicates : Before(i) \cap duplicates = Preceding(duplicates, i, reverse)
    BY <1>2 DEF Preceding
  <2>2. /\ \A i \in duplicates : Cardinality(Preceding(duplicates, i, reverse)) \in 0 .. m - 1
        /\ \A j \in 0 .. m - 1 :
             \E i \in duplicates : Cardinality(Preceding(duplicates, i, reverse)) = j
    <3> HIDE DEF duplicates, missing
    <3> QED  BY <1>2, <1>3, <1>8, Ranks
  <2> HIDE DEF duplicates, missing, Before
  <2> QED  BY <2>1, <2>2
<1>10. /\ \A j \in 0 .. m - 1 : nth(j) \in missing
       /\ \A s \in missing : \E j \in 0 .. m - 1 : nth(j) = s
  <2> DEFINE after(s) == Cardinality({u \in missing : u > s})
  <2>1. \A s \in missing : {u \in missing : u > s} = Preceding(missing, s, TRUE)
    BY DEF Preceding
  <2>2. /\ \A s \in missing : after(s) \in 0 .. m - 1
        /\ \A s, u \in missing : after(s) = after(u) => s = u
        /\ \A j \in 0 .. m - 1 : \E s \in missing : after(s) = j
    <3> HIDE DEF missing
    <3>1. /\ \A s \in missing : Cardinality(Preceding(missing, s, TRUE)) \in 0 .. m - 1
          /\ \A s, u \in missing : Cardinality(Preceding(missing, s, TRUE))
               = Cardinality(Preceding(missing, u, TRUE)) => s = u
          /\ \A j \in 0 .. m - 1 : \E s \in missing : Cardinality(Preceding(missing, s, TRUE)) = j
      BY <1>2, <1>3, Ranks
    <3>2. \A s \in missing : after(s) = Cardinality(Preceding(missing, s, TRUE))
      BY <2>1
    <3> HIDE DEF after
    <3> QED  BY <3>1, <3>2
  <2>3. \A j : nth(j) = CHOOSE s \in missing : after(s) = j
    OBVIOUS
  <2> HIDE DEF missing, after, nth
  <2>4. \A j \in 0 .. m - 1 : nth(j) \in missing /\ after(nth(j)) = j
    BY <2>2, <2>3
  <2> QED  BY <2>2, <2>4
<1>11. t \in [Stars(n) -> Stars(n)]
  <2>1. \A i \in duplicates : nth(rank(i)) \in Stars(n)
    <3> HIDE DEF duplicates, missing, rank, nth
    <3> QED  BY <1>2, <1>9, <1>10
  <2> HIDE DEF duplicates, rank, nth
  <2> QED  BY <1>2, <2>1
<1>12. ASSUME NEW s \in Stars(n) PROVE \E i \in Stars(n) : t[i] = s
  <2>1. CASE s \in missing
    <3>1. PICK j \in 0 .. m - 1 : nth(j) = s
      BY <1>10, <2>1
    <3>2. PICK i \in duplicates : rank(i) = j
      BY <1>9
    <3> HIDE DEF duplicates, rank, nth
    <3> QED  BY <1>2, <3>1, <3>2
  <2>2. CASE s \in found
    <3>1. PICK i \in first : e[i] = s
      BY <1>4, <2>2
    <3> HIDE DEF duplicates, rank, nth
    <3> QED  BY <1>2, <3>1
  <2> QED  BY <1>2, <2>1, <2>2
<1> QED  BY <1>1, <1>11, <1>12 DEF Permutes

\* Slices of two chromosomes.
LEMMA SplicePermutes ==
  ASSUME NEW n \in Nat, NEW e1, NEW e2, Permutes(e1, n), Permutes(e2, n),
         NEW split \in Int, NEW reverse \in BOOLEAN
  PROVE  Permutes(Splice(e1, e2, split, reverse), n)
<1> DEFINE e == [i \in DOMAIN e1 |-> IF i < split THEN e1[i] ELSE e2[i]]
<1>1. e \in [Stars(n) -> Stars(n)]
  BY DEF Permutes
<1> HIDE DEF e
<1>2. Splice(e1, e2, split, reverse) = Cleanout(e, reverse)
  BY DEF Splice, e
<1> QED  BY <1>1, <1>2, CleanoutPermutes

-----------------------------------------------------------------------------
(* Scores and sorting.                                                     *)

\* The individuals p of a population: each holds every star, and has a score.
Scored(p) ==
  /\ p \in [Individuals -> [chromosome : [Genes -> Genes], score : Nat]]
  /\ \A i \in Individuals : Permutes(p[i].chromosome, SIZEOFCHROMOSOME)

\* Whether s is the best score of the individuals p.
IsBest(p, s) ==
  /\ \E i \in Individuals : p[i].score = s
  /\ \A i \in Individuals : p[i].score <= s

LEMMA PopulationSizes ==
  /\ POPULATION_SIZE \in Nat /\ N_RETAIN \in Nat /\ N_RETAIN >= 2 /\ N_RETAIN < POPULATION_SIZE
  /\ IsFiniteSet(Individuals) /\ 0 \in Individuals /\ Individuals \in SUBSET Int
BY ScheduleSearchConstants, FS_Interval DEF Individuals

\* There is one such score.
LEMMA OneBest ==
  ASSUME NEW p, NEW a \in Nat, NEW b \in Nat, IsBest(p, a), IsBest(p, b)
  PROVE  a = b
BY DEF IsBest

LEMMA BestScoreIsBest ==
  ASSUME NEW p, Scored(p)
  PROVE  BestScore(p) \in Nat /\ IsBest(p, BestScore(p))
<1> DEFINE scores == {p[i].score : i \in Individuals}
<1>1. scores \in SUBSET Int /\ scores \in SUBSET Nat /\ scores # {}
  BY PopulationSizes DEF Scored
<1>2. IsFiniteSet(scores)
  <2> DEFINE f == [i \in Individuals |-> p[i].score]
  <2>1. f \in Surjection(Individuals, scores)
    BY DEF Surjection
  <2> QED  BY <2>1, PopulationSizes, FS_Surjection
<1>3. PICK s \in scores : \A u \in scores : u <= s
  <2> HIDE DEF scores
  <2>1. \E s \in scores : \A u \in scores : IF TRUE THEN u <= s ELSE u >= s
    BY <1>1, <1>2, FirstMember
  <2> QED  BY <2>1
<1>4. \A i \in Individuals : p[i].score <= s
  BY <1>3
<1>5. BestScore(p) = CHOOSE u \in scores : \A i \in Individuals : p[i].score <= u
  BY DEF BestScore
<1>6. BestScore(p) \in scores /\ \A i \in Individuals : p[i].score <= BestScore(p)
  <2> HIDE DEF scores
  <2> QED  BY <1>4, <1>5
<1> QED  BY <1>1, <1>6 DEF IsBest

\* After the sort the first individual is the best one, and nothing else is there.
LEMMA SortedFirst ==
  ASSUME NEW p, Scored(p), NEW q \in Sorted(p)
  PROVE  /\ Scored(q)
         /\ IsBest(p, q[0].score) /\ IsBest(q, q[0].score)
<1>1. /\ q \in [Individuals -> {p[i] : i \in Individuals}]
      /\ \A i \in Individuals \ {0} : q[i - 1].score >= q[i].score
      /\ \A x \in {p[i] : i \in Individuals} :
           Cardinality({i \in Individuals : q[i] = x}) = Cardinality({i \in Individuals : p[i] = x})
  BY DEF Sorted
<1>2. \A i \in Individuals : \E k \in Individuals : q[i] = p[k]
  BY <1>1
<1>3. Scored(q)
  BY <1>1, <1>2 DEF Scored
<1>4. \A i \in Individuals : q[i].score <= q[0].score
  <2> DEFINE better == {i \in Individuals : q[i].score > q[0].score}
  <2>1. better = {}
    <3> SUFFICES ASSUME better # {} PROVE FALSE
      OBVIOUS
    <3>1. IsFiniteSet(better) /\ better \in SUBSET Int
      BY PopulationSizes, FS_Subset
    <3>2. PICK i \in better : \A k \in better : IF FALSE THEN k <= i ELSE k >= i
      <4> HIDE DEF better
      <4> QED  BY <3>1, FirstMember
    <3>3. i \in Individuals /\ i # 0 /\ i - 1 \in Individuals /\ i \in Int
          /\ \A k \in Individuals : q[k].score \in Nat
      BY <1>3, PopulationSizes DEF Scored, Individuals
    <3>4. i - 1 \in better
      BY <1>1, <3>3, PopulationSizes
    <3> QED  BY <3>2, <3>3, <3>4
  <2> QED  BY <1>3, <2>1, PopulationSizes DEF Scored
<1>5. \A i \in Individuals : \E k \in Individuals : q[k] = p[i]
  <2> SUFFICES ASSUME NEW i \in Individuals PROVE \E k \in Individuals : q[k] = p[i]
    OBVIOUS
  <2> DEFINE there == {k \in Individuals : q[k] = p[i]}
             here == {k \in Individuals : p[k] = p[i]}
  <2>1. IsFiniteSet(there) /\ IsFiniteSet(here) /\ here # {}
    BY PopulationSizes, FS_Subset
  <2>2. Cardinality(there) = Cardinality(here)
    BY <1>1
  <2>3. there # {}
    <3> HIDE DEF there, here
    <3> QED  BY <2>1, <2>2, FS_EmptySet
  <2> QED  BY <2>3
<1>6. IsBest(q, q[0].score)
  BY <1>4, PopulationSizes DEF IsBest
<1>7. IsBest(p, q[0].score)
  BY <1>2, <1>4, <1>5, PopulationSizes DEF IsBest
<1> QED  BY <1>3, <1>6, <1>7

\* Of duplicates the first individual keeps its score.
LEMMA ZeroedFirst ==
  ASSUME NEW p, Scored(p), NEW q \in Zeroed(p)
  PROVE  /\ Scored(q) /\ q[0] = p[0]
         /\ \A i \in Individuals : q[i].score \in {0, p[i].score}
<1>1. /\ q \in [Individuals -> {p[i] : i \in Individuals} \cup {[p[i] EXCEPT !.score = 0] : i \in Individuals}]
      /\ q[0] = p[0]
      /\ \A i \in Individuals : q[i] = p[i] \/ q[i] = [p[i] EXCEPT !.score = 0]
  BY PopulationSizes DEF Zeroed
<1>2. \A i \in Individuals : [p[i] EXCEPT !.score = 0] =
                               [chromosome |-> p[i].chromosome, score |-> 0]
  BY DEF Scored
<1> QED  BY <1>1, <1>2 DEF Scored

-----------------------------------------------------------------------------
(* The invariant.                                                          *)

\* Nothing but a start with fewer than four observations writes past a
\* chromosome, and the best score is that of the first individual, or of one of
\* those that are to be sorted.
SearchInv ==
  /\ SIZEOFCHROMOSOME \in Sizes /\ gpc \in {"replace", "sort", "crashed"}
  /\ next_individual \in N_RETAIN .. POPULATION_SIZE - 1
  /\ Scored(population) /\ best \in Nat
  /\ gpc = "crashed" => SIZEOFCHROMOSOME < 4
  /\ gpc = "replace" => population[0].score = best
  /\ gpc = "sort" => \E i \in Individuals : population[i].score = best

\* Scored(p) in other words.
LEMMA ScoredChromosomes ==
  ASSUME SIZEOFCHROMOSOME \in Sizes
  PROVE  /\ SIZEOFCHROMOSOME \in Nat /\ Genes = Stars(SIZEOFCHROMOSOME)
         /\ \A c : Permutes(c, SIZEOFCHROMOSOME) =>
              Individual(c) \in [chromosome : [Genes -> Genes], score : Nat]
BY ScheduleSearchConstants DEF Genes, Stars, Permutes, Individual

LEMMA SearchInitial == SearchInit => SearchInv
<1> SUFFICES ASSUME SearchInit PROVE SearchInv
  OBVIOUS
<1> DEFINE n == SIZEOFCHROMOSOME
           turns == {t \in Genes \X Genes \X Genes : t[3] >= 1 /\ t[3] <= t[2] - t[1]}
           rotated == {Rotate(InOrder(n), t[1], t[2], t[3]) : t \in turns}
<1>1. n \in Sizes /\ n \in Nat /\ Genes = Stars(n)
  BY ScoredChromosomes DEF SearchInit
<1>2. \A c \in rotated \cup {InOrder(n)} : Permutes(c, n)
  <2>1. Permutes(InOrder(n), n)
    BY <1>1, InOrderPermutes
  <2>2. ASSUME NEW t \in turns PROVE Permutes(Rotate(InOrder(n), t[1], t[2], t[3]), n)
    <3>1. /\ t[1] \in Stars(n) /\ t[2] \in Stars(n) /\ t[3] \in Nat
          /\ t[3] >= 1 /\ t[3] <= t[2] - t[1]
      BY <1>1 DEF Stars
    <3> QED  BY <1>1, <2>1, <3>1, RotatePermutes
  <2> QED  BY <2>1, <2>2
<1>3. population \in [Individuals -> {Individual(c) : c \in rotated \cup {InOrder(n)}}]
  BY DEF SearchInit
<1>4. Scored(population)
  <2> HIDE DEF rotated
  <2>1. \A i \in Individuals : \E c : Permutes(c, n) /\ population[i] = Individual(c)
    BY <1>2, <1>3
  <2> QED  BY <1>1, <1>3, <2>1, ScoredChromosomes DEF Scored, Individual
<1>5. best \in Nat /\ \E i \in Individuals : population[i].score = best
  BY <1>4, BestScoreIsBest DEF SearchInit, IsBest
<1>6. /\ gpc \in {"sort", "crashed"} /\ (gpc = "crashed" => n < 4)
      /\ next_individual = N_RETAIN
  BY DEF SearchInit
<1> QED  BY <1>1, <1>4, <1>5, <1>6, PopulationSizes DEF SearchInv

\* What takes a place above the first.
LEMMA ReplaceKeeps ==
  ASSUME SearchInv, gpc = "replace", NEW c, Permutes(c, SIZEOFCHROMOSOME), Replace(c)
  PROVE  SearchInv'
<1>1. /\ SIZEOFCHROMOSOME \in Sizes /\ SIZEOFCHROMOSOME' = SIZEOFCHROMOSOME /\ best' = best
      /\ next_individual \in Individuals /\ next_individual # 0 /\ best \in Nat
      /\ Scored(population) /\ population[0].score = best
      /\ population' = [population EXCEPT ![next_individual] = Individual(c)]
  BY PopulationSizes DEF SearchInv, Replace, Individuals
<1>2. Scored(population) /\ Genes' = Genes /\ Individuals' = Individuals
  BY <1>1 DEF Genes, Individuals
<1>3. Scored(population)'
  <2>1. Individual(c) \in [chromosome : [Genes -> Genes], score : Nat] /\ Individual(c).chromosome = c
    BY <1>1, ScoredChromosomes DEF Individual
  <2> QED  BY <1>1, <1>2, <2>1 DEF Scored
<1>4. population'[0].score = best
  BY <1>1, PopulationSizes DEF Scored
<1>5. /\ gpc' \in {"replace", "sort"}
      /\ next_individual' \in N_RETAIN .. POPULATION_SIZE - 1
  BY PopulationSizes DEF SearchInv, Replace
<1> QED  BY <1>1, <1>3, <1>4, <1>5, PopulationSizes DEF SearchInv

\* The individuals that are copied, and the places that are changed.
LEMMA Copied ==
  ASSUME SearchInv, gpc = "replace"
  PROVE  /\ SIZEOFCHROMOSOME \in Nat /\ Genes = Stars(SIZEOFCHROMOSOME)
         /\ \A i \in Retained \cup 0 .. next_individual - 1 : Permutes(Chromosome(i), SIZEOFCHROMOSOME)
         /\ LastSlots \in SUBSET Nat
         /\ SIZEOFCHROMOSOME >= 4 => \A s \in LastSlots : s <= SIZEOFCHROMOSOME
<1>1. Retained \cup 0 .. next_individual - 1 \in SUBSET Individuals
  BY PopulationSizes DEF SearchInv, Retained, Individuals
<1> QED  BY <1>1, ScoredChromosomes DEF SearchInv, Chromosome, Scored, LastSlots

\* A write past a chromosome needs one of fewer than four observations.
LEMMA WritePastKeeps ==
  ASSUME SearchInv, SIZEOFCHROMOSOME < 4, WritePast
  PROVE  SearchInv'
<1>1. Scored(population)' <=> Scored(population)
  BY DEF WritePast, Scored, Genes, Individuals
<1> QED  BY <1>1 DEF SearchInv, WritePast

LEMMA RandomSwapKeeps == SearchInv /\ RandomSwap => SearchInv'
<1> SUFFICES ASSUME SearchInv, RandomSwap PROVE SearchInv'
  OBVIOUS
<1>1. PICK i \in Retained, last_slot \in LastSlots :
        \E n1, n2 \in 0 .. last_slot - 1 :
          IF {n1, n2} \subseteq Genes THEN Replace(Swap(Chromosome(i), n1, n2)) ELSE WritePast
  BY DEF RandomSwap
<1>2. PICK n1, n2 \in 0 .. last_slot - 1 :
        IF {n1, n2} \subseteq Genes THEN Replace(Swap(Chromosome(i), n1, n2)) ELSE WritePast
  BY <1>1
<1>3. gpc = "replace"
  BY DEF RandomSwap
<1>4. CASE {n1, n2} \subseteq Genes
  <2>1. Permutes(Swap(Chromosome(i), n1, n2), SIZEOFCHROMOSOME)
    BY <1>3, <1>4, Copied, SwapPermutes
  <2> QED  BY <1>2, <1>3, <1>4, <2>1, ReplaceKeeps
<1>5. CASE ~({n1, n2} \subseteq Genes)
  <2>1. SIZEOFCHROMOSOME < 4
    BY <1>3, <1>5, Copied DEF Stars
  <2> QED  BY <1>2, <1>5, <2>1, WritePastKeeps
<1> QED  BY <1>4, <1>5

LEMMA InnerRotateKeeps == SearchInv /\ InnerRotate => SearchInv'
<1> SUFFICES ASSUME SearchInv, InnerRotate PROVE SearchInv'
  OBVIOUS
<1>1. PICK i \in Retained, last_slot \in LastSlots :
        \E n1 \in 0 .. last_slot - 2 : \E n2 \in n1 + 1 .. last_slot - 1 : \E jump \in 1 .. n2 - n1 :
          IF n2 \in Genes THEN Replace(Rotate(Chromosome(i), n1, n2, jump)) ELSE WritePast
  BY DEF InnerRotate
<1>2. PICK n1 \in 0 .. last_slot - 2 : \E n2 \in n1 + 1 .. last_slot - 1 : \E jump \in 1 .. n2 - n1 :
        IF n2 \in Genes THEN Replace(Rotate(Chromosome(i), n1, n2, jump)) ELSE WritePast
  BY <1>1
<1>7. PICK n2 \in n1 + 1 .. last_slot - 1 : \E jump \in 1 .. n2 - n1 :
        IF n2 \in Genes THEN Replace(Rotate(Chromosome(i), n1, n2, jump)) ELSE WritePast
  BY <1>2
<1>3. PICK jump \in 1 .. n2 - n1 :
        IF n2 \in Genes THEN Replace(Rotate(Chromosome(i), n1, n2, jump)) ELSE WritePast
  BY <1>7
<1>4. gpc = "replace"
  BY DEF InnerRotate
<1>5. CASE n2 \in Genes
  <2>1. /\ n1 \in Stars(SIZEOFCHROMOSOME) /\ n2 \in Stars(SIZEOFCHROMOSOME)
        /\ jump \in Nat /\ jump >= 1 /\ jump <= n2 - n1
    BY <1>4, <1>5, Copied DEF Stars
  <2>2. Permutes(Rotate(Chromosome(i), n1, n2, jump), SIZEOFCHROMOSOME)
    BY <1>4, <2>1, Copied, RotatePermutes
  <2> QED  BY <1>3, <1>4, <1>5, <2>2, ReplaceKeeps
<1>6. CASE n2 \notin Genes
  <2>1. SIZEOFCHROMOSOME < 4
    BY <1>4, <1>6, Copied DEF Stars
  <2> QED  BY <1>3, <1>6, <2>1, WritePastKeeps
<1> QED  BY <1>5, <1>6

LEMMA PairSwapKeeps == SearchInv /\ PairSwap => SearchInv'
<1> SUFFICES ASSUME SearchInv, PairSwap PROVE SearchInv'
  OBVIOUS
<1>1. PICK i \in 0 .. next_individual - 1, last_slot \in LastSlots :
        \E n \in 1 .. last_slot - 1 :
          Replace(IF n < SIZEOFCHROMOSOME THEN Swap(Chromosome(i), n - 1, n) ELSE Chromosome(i))
  BY DEF PairSwap
<1>2. PICK n \in 1 .. last_slot - 1 :
        Replace(IF n < SIZEOFCHROMOSOME THEN Swap(Chromosome(i), n - 1, n) ELSE Chromosome(i))
  BY <1>1
<1>3. gpc = "replace" /\ Permutes(Chromosome(i), SIZEOFCHROMOSOME)
  BY Copied DEF PairSwap
<1>4. CASE n < SIZEOFCHROMOSOME
  <2>1. n - 1 \in Stars(SIZEOFCHROMOSOME) /\ n \in Stars(SIZEOFCHROMOSOME)
    BY <1>3, <1>4, Copied DEF Stars
  <2>2. Permutes(Swap(Chromosome(i), n - 1, n), SIZEOFCHROMOSOME)
    BY <1>3, <2>1, Copied, SwapPermutes
  <2> QED  BY <1>2, <1>3, <1>4, <2>2, ReplaceKeeps
<1>5. CASE ~(n < SIZEOFCHROMOSOME)
  BY <1>2, <1>3, <1>5, ReplaceKeeps
<1> QED  BY <1>4, <1>5

LEMMA TimeAdjustKeeps == SearchInv /\ TimeAdjust => SearchInv'
<1> SUFFICES ASSUME SearchInv, TimeAdjust PROVE SearchInv'
  OBVIOUS
<1>1. PICK i \in 0 .. next_individual - 1, last_slot \in LastSlots :
        \E n \in 0 .. last_slot - 1 : IF n \in Genes THEN Replace(Chromosome(i)) ELSE WritePast
  BY DEF TimeAdjust
<1>2. PICK n \in 0 .. last_slot - 1 : IF n \in Genes THEN Replace(Chromosome(i)) ELSE WritePast
  BY <1>1
<1>3. gpc = "replace" /\ Permutes(Chromosome(i), SIZEOFCHROMOSOME)
  BY Copied DEF TimeAdjust
<1>4. CASE n \in Genes
  BY <1>2, <1>3, <1>4, ReplaceKeeps
<1>5. CASE n \notin Genes
  <2>1. SIZEOFCHROMOSOME < 4
    BY <1>3, <1>5, Copied DEF Stars
  <2> QED  BY <1>2, <1>5, <2>1, WritePastKeeps
<1> QED  BY <1>4, <1>5

LEMMA SliceKeeps == SearchInv /\ Slice => SearchInv'
<1> SUFFICES ASSUME SearchInv, Slice PROVE SearchInv'
  OBVIOUS
<1>1. PICK i \in Retained, k \in Retained, last_slot \in LastSlots, reverse \in BOOLEAN :
        \E split \in 1 .. last_slot - 2 :
          Replace(Splice(Chromosome(i), Chromosome(k), split, reverse))
  BY DEF Slice
<1>2. PICK split \in 1 .. last_slot - 2 :
        Replace(Splice(Chromosome(i), Chromosome(k), split, reverse))
  BY <1>1
<1>3. gpc = "replace"
  BY DEF Slice
<1>4. Permutes(Splice(Chromosome(i), Chromosome(k), split, reverse), SIZEOFCHROMOSOME)
  BY <1>3, Copied, SplicePermutes
<1> QED  BY <1>2, <1>3, <1>4, ReplaceKeeps

\* The sort before and after duplicates lose their scores.
LEMMA SortPopulationKeeps == SearchInv /\ SortPopulation => SearchInv'
<1> SUFFICES ASSUME SearchInv, SortPopulation PROVE SearchInv'
  OBVIOUS
<1>1. PICK p \in Sorted(population) : \E q \in Zeroed(p) : population' \in Sorted(q)
  BY DEF SortPopulation
<1>2. PICK q \in Zeroed(p) : population' \in Sorted(q)
  BY <1>1
<1>3. Scored(population) /\ best \in Nat /\ \E i \in Individuals : population[i].score = best
  BY DEF SearchInv, SortPopulation
<1>4. Scored(p) /\ IsBest(population, p[0].score) /\ IsBest(p, p[0].score)
  BY <1>3, SortedFirst
<1>5. /\ Scored(q) /\ q[0] = p[0]
      /\ \A i \in Individuals : q[i].score \in {0, p[i].score}
  BY <1>4, ZeroedFirst
<1>6. Scored(population') /\ IsBest(q, population'[0].score)
  BY <1>2, <1>5, SortedFirst
<1>7. /\ \A i \in Individuals : p[i].score \in Nat /\ q[i].score \in Nat
                                /\ population'[i].score \in Nat /\ population[i].score \in Nat
      /\ BestScore(population) \in Nat /\ IsBest(population, BestScore(population))
  BY <1>3, <1>4, <1>5, <1>6, BestScoreIsBest DEF Scored
<1>8. population'[0].score = p[0].score
  <2> DEFINE a == population'[0].score
             b == p[0].score
  <2>1. a \in Nat /\ b \in Nat
    BY <1>7, PopulationSizes
  <2>2. b <= a
    BY <1>5, <1>6, PopulationSizes DEF IsBest
  <2>3. PICK i \in Individuals : q[i].score = a
    BY <1>6 DEF IsBest
  <2>4. a = 0 \/ a = p[i].score
    BY <1>5, <2>3
  <2>5. p[i].score <= b
    BY <1>4 DEF IsBest
  <2> HIDE DEF a, b
  <2>6. a <= b
    BY <2>1, <2>4, <2>5
  <2>7. a = b
    BY <2>1, <2>2, <2>6
  <2> QED  BY <2>7 DEF a, b
<1>9. best' = BestScore(population) /\ best' = p[0].score
  <2> DEFINE b == BestScore(population)
  <2>1. best' = IF b > best THEN b ELSE best
    BY DEF SortPopulation
  <2> HIDE DEF b
  <2>2. b \in Nat /\ best <= b /\ best \in Nat
    BY <1>3, <1>7 DEF IsBest, b
  <2>3. best' = b
    BY <2>1, <2>2
  <2>4. b = p[0].score
    BY <1>4, <1>7, PopulationSizes, OneBest DEF b
  <2> QED  BY <2>3, <2>4 DEF b
<1>10. Scored(population)' <=> Scored(population')
  BY DEF SortPopulation, Scored, Genes, Individuals
<1> QED  BY <1>6, <1>7, <1>8, <1>9, <1>10 DEF SearchInv, SortPopulation

\* The invariant holds.
LEMMA SearchInvariant == SearchSpec => []SearchInv
<1>1. SearchInv /\ UNCHANGED searchVars => SearchInv'
  <2> SUFFICES ASSUME SearchInv, UNCHANGED searchVars PROVE SearchInv'
    OBVIOUS
  <2>1. Scored(population)' <=> Scored(population)
    BY DEF searchVars, Scored, Genes, Individuals
  <2> QED  BY <2>1 DEF searchVars, SearchInv
<1>2. SearchInv /\ [SearchNext]_searchVars => SearchInv'
  BY <1>1, RandomSwapKeeps, InnerRotateKeeps, PairSwapKeeps, TimeAdjustKeeps, SliceKeeps,
     SortPopulationKeeps DEF SearchNext
<1> QED  BY <1>2, SearchInitial, PTL DEF SearchSpec

-----------------------------------------------------------------------------
(* The theorems.                                                           *)

\* For any number of observations and any size of the population: whatever the
\* genetic operators make of whatever, each chromosome holds each star once, and
\* with four observations or more nothing past a chromosome is touched.
THEOREM StarsOnce == SearchSpec => []EachStarOnce
<1>1. SearchInv => EachStarOnce
  <2> SUFFICES ASSUME SearchInv, gpc # "crashed" \/ SIZEOFCHROMOSOME >= 4, NEW i \in Individuals
               PROVE  /\ gpc # "crashed" /\ DOMAIN Chromosome(i) = Genes
                      /\ {Chromosome(i)[s] : s \in Genes} = Genes
    BY PopulationSizes DEF EachStarOnce
  <2>1. gpc # "crashed"
    BY ScoredChromosomes DEF SearchInv
  <2>2. Permutes(Chromosome(i), SIZEOFCHROMOSOME) /\ Genes = Stars(SIZEOFCHROMOSOME)
    BY ScoredChromosomes DEF SearchInv, Scored, Chromosome
  <2> QED  BY <2>1, <2>2 DEF Permutes
<1> QED  BY <1>1, SearchInvariant, PTL

\* The first individual, which becomes the schedule of the night, has the best
\* score that any had up to the last sort, whichever duplicates lost theirs.
THEOREM BestIsKept == SearchSpec => []BestKept
<1>1. SearchInv => BestKept
  BY DEF SearchInv, BestKept
<1> QED  BY <1>1, SearchInvariant, PTL

-----------------------------------------------------------------------------
(****************************************************************************)
(* Timetable.                                                              *)
(****************************************************************************)

Slots == [element : Elements, from : Int, to : Int]

TimetableTypeOK ==
  /\ duration \in [Elements -> Nat \ {0}] /\ start \in [Fixed -> Nat]
  /\ cadence \in [Repeated -> Nat \ {0}] /\ chromosome \in Seq(Elements)
  /\ element_index \in Nat \ {0} /\ ttpc \in {"pool", "quick", "done"}
  /\ quick_pool \in Seq(Repeated) /\ tried \in Nat
  /\ trial \in Seq(Slots) /\ last_scheduled \in [Repeated -> Int] /\ scheduling_time \in Int

\* The timetable t: every slot is as long as its observation and ends before the
\* night does, the slots begin in order, and repeated ones have their times.
InNight(t) ==
  \A k \in DOMAIN t : t[k].to = t[k].from + duration[t[k].element] /\ t[k].to <= t_quit
Ordered(t) == \A i, k \in DOMAIN t : i < k => t[i].from <= t[k].from
Kept(t) ==
  \A i, k \in DOMAIN t :
    LET q == t[i].element IN
      i < k /\ q \in Repeated /\ t[k].element = q => t[k].from - t[i].from >= cadence[q]

\* Where the slots before place k end.
End(t, k) == IF k = 1 THEN 0 ELSE t[k - 1].to

\* What may begin before place k: the two cases of NoOverlap.
TwoFixed(t, k) ==
  k > 1 /\ {t[k - 1].element, t[k].element} \subseteq Fixed
        /\ Precedes(t[k - 1].element, t[k].element)
Follows(t, x) ==
  \A k \in DOMAIN t : t[k].from < End(t, k) => t[k].element \in x \/ TwoFixed(t, k)

\* The first loop only puts in fixed ones, in the order of the chromosome.
OnlyFixed ==
  ttpc = "pool" =>
    /\ scheduling_time = 0
    /\ \A k \in DOMAIN trial :
         LET e == trial[k].element IN
           /\ e \in Fixed /\ trial[k].from = start[e]
           /\ \E i \in DOMAIN chromosome : i < element_index /\ chromosome[i] = e

\* What was scheduled last of a repeated one is its latest slot, and the time of
\* scheduling is not after the end of the timetable.
LastTimes ==
  /\ scheduling_time <= End(trial, Len(trial) + 1)
  /\ \A k \in DOMAIN trial :
       trial[k].element \in Repeated => trial[k].from <= last_scheduled[trial[k].element]

TimetableInv ==
  /\ TimetableTypeOK /\ OnlyFixed /\ InNight(trial) /\ Follows(trial, early)
  /\ early = {} => Ordered(trial)
  /\ Ordered(trial) => LastTimes /\ Kept(trial)

-----------------------------------------------------------------------------
(* Lemmas about insertion.                                                 *)

\* The sequence t is s with e at place k.
Inserts(t, s, k, e) ==
  /\ Len(t) = Len(s) + 1 /\ DOMAIN t = 1 .. Len(s) + 1 /\ t[k] = e
  /\ \A i \in 1 .. k - 1 : t[i] = s[i] /\ i \in DOMAIN s
  /\ \A i \in k + 1 .. Len(s) + 1 : t[i] = s[i - 1] /\ i - 1 \in DOMAIN s

LEMMA InsertedAt ==
  ASSUME NEW T, NEW s \in Seq(T), NEW k \in 1 .. Len(s) + 1, NEW e \in T, NEW t,
         t = Seqs!InsertAt(s, k, e)
  PROVE  t \in Seq(T) /\ Inserts(t, s, k, e)
<1> DEFINE a == SubSeq(s, 1, k - 1)
           b == SubSeq(s, k, Len(s))
<1>1. /\ a \in Seq(T) /\ Len(a) = k - 1 /\ \A i \in 1 .. k - 1 : a[i] = s[i]
      /\ Len(s) \in Nat /\ k \in Nat
  BY SubSeqProperties
<1>2. /\ b \in Seq(T) /\ Len(b) = Len(s) - k + 1
      /\ \A i \in 1 .. Len(s) - k + 1 : b[i] = s[k + i - 1]
  BY SubSeqProperties
<1>3. t = a \o <<e>> \o b
  BY DEF Seqs!InsertAt
<1> HIDE DEF a, b
<1>4. /\ a \o <<e>> \in Seq(T) /\ Len(a \o <<e>>) = k
      /\ \A i \in 1 .. k - 1 : (a \o <<e>>)[i] = a[i]
      /\ (a \o <<e>>)[k] = e
  BY <1>1
<1> DEFINE c == a \o <<e>>
<1> HIDE DEF c
<1>5. /\ t \in Seq(T) /\ Len(t) = k + Len(b) /\ \A i \in 1 .. k : t[i] = c[i]
      /\ \A i \in k + 1 .. k + Len(b) : t[i] = b[i - k]
  <2>1. c \in Seq(T) /\ Len(c) = k /\ t = c \o b
    BY <1>3, <1>4 DEF c
  <2>2. /\ c \o b \in Seq(T) /\ Len(c \o b) = Len(c) + Len(b)
        /\ \A i \in 1 .. Len(c) + Len(b) : (c \o b)[i] = IF i <= Len(c) THEN c[i] ELSE b[i - Len(c)]
    BY <1>2, <2>1, ConcatProperties
  <2> QED  BY <1>1, <1>2, <2>1, <2>2
<1>6. t[k] = e /\ \A i \in 1 .. k - 1 : t[i] = s[i]
  <2>1. c[k] = e /\ \A i \in 1 .. k - 1 : c[i] = a[i]
    BY <1>4 DEF c
  <2>2. k \in 1 .. k /\ \A i \in 1 .. k - 1 : i \in 1 .. k
    BY <1>1
  <2> QED  BY <1>1, <1>5, <2>1, <2>2
<1>7. \A i \in k + 1 .. Len(s) + 1 : t[i] = s[i - 1]
  <2> SUFFICES ASSUME NEW i \in k + 1 .. Len(s) + 1 PROVE t[i] = s[i - 1]
    OBVIOUS
  <2>1. t[i] = b[i - k] /\ i - k \in 1 .. Len(s) - k + 1
    BY <1>1, <1>2, <1>5
  <2>2. k + (i - k) - 1 = i - 1
    BY <1>1
  <2> QED  BY <1>2, <2>1, <2>2
<1> QED  BY <1>1, <1>2, <1>5, <1>6, <1>7 DEF Inserts
LEMMA AppendedAt ==
  ASSUME NEW T, NEW s \in Seq(T), NEW e \in T
  PROVE  Append(s, e) \in Seq(T) /\ Inserts(Append(s, e), s, Len(s) + 1, e)
BY DEF Inserts

\* The parts of the slots of a timetable.
LEMMA SlotTypes ==
  ASSUME NEW t \in Seq(Slots), duration \in [Elements -> Nat \ {0}], InNight(t)
  PROVE  \A i \in 1 .. Len(t) :
           /\ t[i] \in Slots /\ i \in DOMAIN t /\ t[i].element \in Elements
           /\ t[i].from \in Int /\ t[i].to \in Int /\ t[i].from <= t[i].to
<1> SUFFICES ASSUME NEW i \in 1 .. Len(t)
             PROVE  /\ t[i] \in Slots /\ i \in DOMAIN t /\ t[i].element \in Elements
                    /\ t[i].from \in Int /\ t[i].to \in Int /\ t[i].from <= t[i].to
  OBVIOUS
<1>1. t[i] \in Slots /\ i \in DOMAIN t
  OBVIOUS
<1>2. t[i].element \in Elements /\ t[i].from \in Int /\ t[i].to \in Int
  BY <1>1 DEF Slots
<1>3. duration[t[i].element] \in Nat /\ t[i].to = t[i].from + duration[t[i].element]
  BY <1>1, <1>2 DEF InNight
<1> QED  BY <1>1, <1>2, <1>3

\* Where the slots before a place end is a time.
LEMMA EndType ==
  ASSUME NEW t \in Seq(Slots), duration \in [Elements -> Nat \ {0}], InNight(t),
         NEW k \in 1 .. Len(t) + 1
  PROVE  End(t, k) \in Int
<1>1. CASE k = 1
  BY <1>1 DEF End
<1>2. CASE k # 1
  <2>1. k - 1 \in 1 .. Len(t) /\ End(t, k) = t[k - 1].to
    BY <1>2 DEF End
  <2> QED  BY <2>1, SlotTypes
<1> QED  BY <1>1, <1>2

\* In a timetable whose slots begin in order, those before a place have begun
\* when the last of them ends.
LEMMA BegunBefore ==
  ASSUME NEW t \in Seq(Slots), duration \in [Elements -> Nat \ {0}], InNight(t), Ordered(t),
         NEW k \in 1 .. Len(t) + 1, NEW i \in 1 .. k - 1
  PROVE  t[i].from <= End(t, k)
<1>1. k - 1 \in 1 .. Len(t) /\ End(t, k) = t[k - 1].to /\ i \in 1 .. Len(t) /\ i <= k - 1
  BY DEF End
<1>2. /\ t[k - 1].from \in Int /\ t[k - 1].to \in Int /\ t[k - 1].from <= t[k - 1].to
      /\ t[i].from \in Int /\ i \in DOMAIN t /\ k - 1 \in DOMAIN t
  BY <1>1, SlotTypes
<1>3. t[i].from <= t[k - 1].from
  <2>1. CASE i = k - 1
    BY <1>2, <2>1
  <2>2. CASE i # k - 1
    BY <1>1, <1>2, <2>2 DEF Ordered
  <2> QED  BY <2>1, <2>2
<1> QED  BY <1>1, <1>2, <1>3

\* A slot that fits: before place k there is room for it, and it begins where the
\* slots before it end unless it is one of the two cases.
LEMMA SlotFits ==
  ASSUME TimetableTypeOK, InNight(trial), Follows(trial, early),
         NEW k \in 1 .. Len(trial) + 1, NEW e \in Elements,
         NEW f \in Int, NEW t \in Seq(Slots), Inserts(t, trial, k, Slot(e, f)),
         f + duration[e] <= t_quit,
         k <= Len(trial) => f + duration[e] <= trial[k].from,
         NEW x, early \subseteq x,
         f < End(t, k) => e \in x \/ TwoFixed(t, k)
  PROVE  InNight(t) /\ Follows(t, x)
<1>1. /\ Slot(e, f).element = e /\ Slot(e, f).from = f /\ Slot(e, f).to = f + duration[e]
      /\ duration[e] \in Nat \ {0} /\ Len(trial) \in Nat
  BY DEF Slot, TimetableTypeOK
<1>2. \A i \in 1 .. Len(trial) : trial[i].from \in Int /\ i \in DOMAIN trial
  BY SlotTypes DEF TimetableTypeOK
<1>3. InNight(t)
  <2> SUFFICES ASSUME NEW i \in DOMAIN t
               PROVE  t[i].to = t[i].from + duration[t[i].element] /\ t[i].to <= t_quit
    BY DEF InNight
  <2>1. i < k \/ i = k \/ i > k
    BY DEF Inserts
  <2> QED  BY <1>1, <2>1 DEF InNight, Inserts
<1>4. Follows(t, x)
  <2> SUFFICES ASSUME NEW i \in DOMAIN t, t[i].from < End(t, i)
               PROVE  t[i].element \in x \/ TwoFixed(t, i)
    BY DEF Follows
  <2>0. i \in 1 .. Len(trial) + 1 /\ k \in Int
    BY DEF Inserts
  <2>1. CASE i = k
    BY <1>1, <2>1 DEF Inserts
  <2>2. CASE i < k
    <3>1. t[i] = trial[i] /\ i \in DOMAIN trial /\ (i > 1 => t[i - 1] = trial[i - 1])
      BY <2>0, <2>2 DEF Inserts
    <3>2. End(t, i) = End(trial, i) /\ (TwoFixed(trial, i) => TwoFixed(t, i))
      BY <2>0, <3>1 DEF End, TwoFixed
    <3> QED  BY <3>1, <3>2 DEF Follows
  <2>3. CASE i = k + 1
    <3>1. t[i] = trial[k] /\ k <= Len(trial) /\ k \in 1 .. Len(trial)
      BY <1>1, <2>0, <2>3 DEF Inserts
    <3>2. End(t, i) = f + duration[e]
      BY <1>1, <2>0, <2>3 DEF End, Inserts
    <3> QED  BY <1>1, <1>2, <3>1, <3>2
  <2>4. CASE i > k + 1
    <3>1. /\ t[i] = trial[i - 1] /\ i - 1 \in DOMAIN trial
          /\ t[i - 1] = trial[(i - 1) - 1] /\ i - 1 > 1
      BY <1>1, <2>0, <2>4 DEF Inserts
    <3>2. End(t, i) = End(trial, i - 1) /\ (TwoFixed(trial, i - 1) => TwoFixed(t, i))
      BY <2>0, <3>1 DEF End, TwoFixed
    <3> QED  BY <3>1, <3>2 DEF Follows
  <2> QED  BY <2>0, <2>1, <2>2, <2>3, <2>4
<1> QED  BY <1>3, <1>4

\* The slots of t other than that at place k come from s, in the same order.
ComesFrom(t, s, k) ==
  /\ \A i \in DOMAIN t \ {k} : \E a \in DOMAIN s : t[i] = s[a]
  /\ \A i, j \in DOMAIN t \ {k} :
       i < j => \E a, b \in DOMAIN s : a < b /\ t[i] = s[a] /\ t[j] = s[b]

LEMMA TheOthers ==
  ASSUME NEW T, NEW s \in Seq(T), NEW k \in 1 .. Len(s) + 1, NEW e \in T, NEW t \in Seq(T),
         Inserts(t, s, k, e)
  PROVE  ComesFrom(t, s, k)
<1> DEFINE From(i) == IF i < k THEN i ELSE i - 1
<1>1. Len(s) \in Nat /\ DOMAIN s = 1 .. Len(s) /\ DOMAIN t = 1 .. Len(s) + 1
  BY DEF Inserts
<1>2. \A i \in DOMAIN t \ {k} : From(i) \in DOMAIN s /\ t[i] = s[From(i)]
  BY <1>1 DEF Inserts
<1>3. \A i, j \in DOMAIN t \ {k} : i < j => From(i) < From(j)
  BY <1>1
<1> QED  BY <1>2, <1>3 DEF ComesFrom

\* A slot that does not begin before those that precede it, and for which there
\* is room, leaves the slots in order.
LEMMA OrderedAfter ==
  ASSUME TimetableTypeOK, InNight(trial), Ordered(trial),
         NEW k \in 1 .. Len(trial) + 1, NEW e \in Elements, NEW f \in Int,
         \A i \in 1 .. k - 1 : trial[i].from <= f,
         k <= Len(trial) => f + duration[e] <= trial[k].from,
         NEW t \in Seq(Slots), Inserts(t, trial, k, Slot(e, f))
  PROVE  Ordered(t)
<1>1. /\ Slot(e, f).from = f /\ Slot(e, f) \in Slots /\ duration[e] \in Nat \ {0}
      /\ Len(trial) \in Nat /\ trial \in Seq(Slots) /\ DOMAIN trial = 1 .. Len(trial)
  BY DEF Slot, Slots, TimetableTypeOK
<1>2. \A i \in 1 .. Len(trial) : trial[i].from \in Int
  BY <1>1, SlotTypes DEF TimetableTypeOK
<1>3. ComesFrom(t, trial, k)
  BY <1>1, TheOthers
<1> SUFFICES ASSUME NEW i \in DOMAIN t, NEW j \in DOMAIN t, i < j
             PROVE  t[i].from <= t[j].from
  BY DEF Ordered
<1>4. i \in 1 .. Len(trial) + 1 /\ j \in 1 .. Len(trial) + 1
  BY DEF Inserts
<1>5. CASE i # k /\ j # k
  BY <1>3, <1>5 DEF ComesFrom, Ordered
<1>6. CASE j = k
  BY <1>1, <1>4, <1>6 DEF Inserts
<1>7. CASE i = k
  <2>1. /\ t[j] = trial[j - 1] /\ j - 1 \in 1 .. Len(trial) /\ k \in 1 .. Len(trial)
        /\ k <= j - 1 /\ t[i].from = f
    BY <1>1, <1>4, <1>7 DEF Inserts
  <2>2. trial[k].from <= trial[j - 1].from
    <3>1. CASE k = j - 1
      BY <1>2, <2>1, <3>1
    <3>2. CASE k # j - 1
      <4>1. k < j - 1 /\ k \in DOMAIN trial /\ j - 1 \in DOMAIN trial
        BY <1>1, <2>1, <3>2
      <4> QED  BY <4>1 DEF Ordered
    <3> QED  BY <3>1, <3>2
  <2> QED  BY <1>1, <1>2, <2>1, <2>2
<1> QED  BY <1>5, <1>6, <1>7

\* What begins in order still does without the slot that was put in.
LEMMA OrderedBefore ==
  ASSUME NEW s \in Seq(Slots), NEW k \in 1 .. Len(s) + 1, NEW e, NEW t,
         Inserts(t, s, k, e), Ordered(t)
  PROVE  Ordered(s)
<1> DEFINE Into(i) == IF i < k THEN i ELSE i + 1
<1>1. Len(s) \in Nat /\ DOMAIN s = 1 .. Len(s) /\ DOMAIN t = 1 .. Len(s) + 1
  BY DEF Inserts
<1>2. \A i \in DOMAIN s : Into(i) \in DOMAIN t /\ s[i] = t[Into(i)]
  <2> SUFFICES ASSUME NEW i \in DOMAIN s PROVE Into(i) \in DOMAIN t /\ s[i] = t[Into(i)]
    OBVIOUS
  <2>1. CASE i < k
    BY <1>1, <2>1 DEF Inserts
  <2>2. CASE i >= k
    <3>1. i + 1 \in k + 1 .. Len(s) + 1 /\ (i + 1) - 1 = i /\ Into(i) = i + 1
      BY <1>1, <2>2
    <3> QED  BY <1>1, <3>1 DEF Inserts
  <2> QED  BY <1>1, <2>1, <2>2
<1>3. \A i, j \in DOMAIN s : i < j => Into(i) < Into(j)
  BY <1>1
<1> QED  BY <1>2, <1>3 DEF Ordered

\* A repeated observation that follows the slots before place k, when there is
\* room and its time has come.
LEMMA RepeatedKeeps ==
  ASSUME TimetableTypeOK, InNight(trial), LastTimes, Kept(trial),
         NEW k \in 1 .. Len(trial) + 1, NEW q \in Repeated, NEW f \in Int, f = End(trial, k),
         f >= last_scheduled[q] + cadence[q],
         k <= Len(trial) => f + duration[q] <= trial[k].from,
         NEW t \in Seq(Slots), Inserts(t, trial, k, Slot(q, f)), InNight(t), Ordered(t)
  PROVE  /\ Kept(t)
         /\ f + duration[q] <= End(t, Len(t) + 1)
         /\ \A i \in DOMAIN t : t[i].element \in Repeated =>
              t[i].from <= [last_scheduled EXCEPT ![q] = f][t[i].element]
<1>1. /\ Slot(q, f).element = q /\ Slot(q, f).from = f /\ Slot(q, f).to = f + duration[q]
      /\ duration[q] \in Nat \ {0} /\ cadence[q] \in Nat \ {0} /\ last_scheduled[q] \in Int
      /\ Len(trial) \in Nat /\ q \in Elements /\ t[k] = Slot(q, f) /\ k \in DOMAIN t
      /\ trial \in Seq(Slots) /\ duration \in [Elements -> Nat \ {0}]
      /\ Len(t) = Len(trial) + 1
  BY DEF Slot, TimetableTypeOK, Elements, Inserts
<1>4. /\ \A i \in DOMAIN trial : trial[i].from \in Int
      /\ \A i \in DOMAIN t : t[i].from \in Int /\ t[i].element \in Elements
  <2>1. \A i \in DOMAIN trial : trial[i] \in Slots
    BY <1>1
  <2>2. \A i \in DOMAIN t : t[i] \in Slots
    OBVIOUS
  <2> QED  BY <2>1, <2>2 DEF Slots
<1>5. \A i \in DOMAIN trial : trial[i].element = q => trial[i].from <= last_scheduled[q]
  BY DEF LastTimes
<1>9. Slot(q, f) \in Slots
  BY <1>1 DEF Slots, Slot
<1>10. ComesFrom(t, trial, k)
  BY <1>1, <1>9, TheOthers
\* What comes after the new slot begins when it has ended.
<1>11. ASSUME NEW j \in DOMAIN t, k < j
       PROVE  f + duration[q] <= t[j].from
  <2>1. k + 1 \in DOMAIN t /\ t[k + 1] = trial[k] /\ k \in DOMAIN trial /\ k + 1 <= j
    BY <1>1, <1>11 DEF Inserts
  <2>2. f + duration[q] <= t[k + 1].from
    BY <1>1, <2>1
  <2>3. t[k + 1].from <= t[j].from
    <3>1. CASE j = k + 1
      BY <1>4, <1>11, <3>1
    <3>2. CASE j # k + 1
      <4>1. k + 1 < j
        BY <1>11, <2>1, <3>2
      <4> QED  BY <1>11, <2>1, <4>1 DEF Ordered
    <3> QED  BY <3>1, <3>2
  <2> QED  BY <1>1, <1>4, <2>1, <2>2, <2>3
<1>6. Kept(t)
  <2> SUFFICES ASSUME NEW i \in DOMAIN t, NEW j \in DOMAIN t, i < j,
                      t[i].element \in Repeated, t[j].element = t[i].element
               PROVE  t[j].from - t[i].from >= cadence[t[i].element]
    BY DEF Kept
  <2>1. CASE i # k /\ j # k
    <3>1. PICK a, b \in DOMAIN trial : a < b /\ t[i] = trial[a] /\ t[j] = trial[b]
      BY <1>10, <2>1 DEF ComesFrom
    <3> QED  BY <3>1 DEF Kept
  <2>2. CASE j = k
    <3>1. PICK a \in DOMAIN trial : t[i] = trial[a]
      BY <1>10, <2>2 DEF ComesFrom
    <3>2. t[j].element = q /\ t[j].from = f /\ t[i].from <= last_scheduled[q] /\ t[i].from \in Int
      BY <1>1, <1>4, <1>5, <2>2, <3>1
    <3>3. t[i].element = q
      BY <3>2
    <3> QED  BY <1>1, <3>2, <3>3
  <2>3. CASE i = k
    <3>1. PICK a \in DOMAIN trial : t[j] = trial[a]
      BY <1>10, <2>3 DEF ComesFrom
    <3>2. t[i].element = q /\ t[i].to = f + duration[q] /\ t[j].from <= last_scheduled[q]
      BY <1>1, <1>5, <2>3, <3>1
    <3>3. f + duration[q] <= t[j].from /\ t[j].from \in Int
      BY <1>4, <1>11, <2>3
    <3>4. \A m, n, c, d, g \in Int : ~(c > 0 /\ d > 0 /\ m >= n + c /\ m + d <= g /\ g <= n)
      OBVIOUS
    <3>5. duration[q] \in Int /\ duration[q] > 0 /\ cadence[q] \in Int /\ cadence[q] > 0
      BY <1>1
    <3>6. FALSE
      BY <1>1, <3>2, <3>3, <3>4, <3>5
    <3> QED  BY <3>6
  <2> QED  BY <2>1, <2>2, <2>3
<1>7. f + duration[q] <= End(t, Len(t) + 1)
  <2>1. End(t, Len(t) + 1) = t[Len(t)].to /\ Len(t) \in 1 .. Len(t) /\ Len(t) \in DOMAIN t
    BY <1>1 DEF End, Inserts
  <2>2. CASE k = Len(t)
    BY <1>1, <2>1, <2>2
  <2>3. CASE k # Len(t)
    <3>1. f + duration[q] <= t[Len(t)].from
      <4>1. k < Len(t)
        BY <1>1, <2>3 DEF Inserts
      <4> QED  BY <1>11, <2>1, <4>1
    <3>2. t[Len(t)].from \in Int /\ t[Len(t)].to \in Int /\ t[Len(t)].from <= t[Len(t)].to
      BY <1>1, <2>1, SlotTypes
    <3> QED  BY <1>1, <2>1, <3>1, <3>2
  <2> QED  BY <2>2, <2>3
<1>8. ASSUME NEW i \in DOMAIN t, t[i].element \in Repeated
      PROVE  t[i].from <= [last_scheduled EXCEPT ![q] = f][t[i].element]
  <2>0. last_scheduled \in [Repeated -> Int]
    BY DEF TimetableTypeOK
  <2>1. CASE i = k
    BY <1>1, <2>0, <2>1
  <2>2. CASE i # k
    <3>1. PICK a \in DOMAIN trial : t[i] = trial[a]
      BY <1>10, <2>2 DEF ComesFrom
    <3>2. t[i].from <= last_scheduled[t[i].element]
      BY <1>8, <3>1 DEF LastTimes
    <3>3. last_scheduled[q] <= f
      BY <1>1
    <3> QED  BY <1>1, <1>4, <1>8, <2>0, <3>2, <3>3
  <2> QED  BY <2>1, <2>2
<1> QED  BY <1>6, <1>7, <1>8

-----------------------------------------------------------------------------
(* The steps.                                                              *)

\* What the state predicates say of the next state when the inputs stay.
LEMMA InputsStay ==
  ASSUME UNCHANGED inputs
  PROVE  /\ InNight(trial)' <=> InNight(trial')
         /\ Ordered(trial)' <=> Ordered(trial')
         /\ Follows(trial, early)' <=> Follows(trial', early')
         /\ Kept(trial)' <=> Kept(trial')
         /\ End(trial, Len(trial) + 1)' = End(trial', Len(trial') + 1)
BY DEF InNight, Ordered, Follows, TwoFixed, Precedes, Kept, End, inputs

LEMMA TimetableInitial == TimetableInit => TimetableInv
<1> SUFFICES ASSUME TimetableInit PROVE TimetableInv
  OBVIOUS
<1>1. chromosome \in Seq(Elements)
  <2>1. Cardinality(Elements) \in Nat
    BY TimetableConstants, FS_CardinalityType
  <2>2. chromosome \in Chromosomes
    BY DEF TimetableInit
  <2>3. chromosome \in [1 .. Cardinality(Elements) -> Elements]
    BY <2>2 DEF Chromosomes
  <2> QED  BY <2>1, <2>3
<1>2. trial = <<>> /\ DOMAIN trial = {} /\ Len(trial) = 0
  BY DEF TimetableInit
<1>3. TimetableTypeOK
  <2>1. trial \in Seq(Slots) /\ quick_pool \in Seq(Repeated)
    BY EmptySeq DEF TimetableInit
  <2>2. duration \in [Elements -> Nat \ {0}] /\ start \in [Fixed -> Nat]
    BY TimetableConstants DEF TimetableInit
  <2>3. cadence \in [Repeated -> Nat \ {0}]
    BY TimetableConstants DEF TimetableInit
  <2>4. last_scheduled \in [Repeated -> Int]
    BY DEF TimetableInit, LongAgo
  <2>5. element_index \in Nat \ {0} /\ ttpc \in {"pool", "quick", "done"} /\ tried \in Nat
        /\ scheduling_time \in Int
    BY DEF TimetableInit
  <2> QED  BY <1>1, <2>1, <2>2, <2>3, <2>4, <2>5 DEF TimetableTypeOK
<1>4. OnlyFixed /\ InNight(trial) /\ Follows(trial, early) /\ Ordered(trial) /\ Kept(trial)
  BY <1>2 DEF OnlyFixed, InNight, Follows, Ordered, Kept, TimetableInit
<1>5. LastTimes
  BY <1>2 DEF LastTimes, End, TimetableInit
<1> QED  BY <1>3, <1>4, <1>5 DEF TimetableInv

\* The loops go on: the types of their variables, and of the inputs.
LEMMA LoopTypes ==
  ASSUME TimetableTypeOK, UNCHANGED inputs, NextElement
  PROVE  /\ element_index' \in Nat \ {0} /\ ttpc' \in {"pool", "quick", "done"}
         /\ ttpc' = "pool" => ttpc = "pool" /\ element_index' = element_index + 1
BY DEF TimetableTypeOK, NextElement

\* A fixed observation of the first loop.
LEMMA FixedKeeps ==
  ASSUME TimetableInv, ttpc = "pool", NEW e \in Fixed, e = Element, InFirstHalf,
         NEW k \in FixedPlaces(e), NEW t \in Seq(Slots),
         Inserts(t, trial, k, Slot(e, start[e]))
  PROVE  /\ InNight(t) /\ Follows(t, early) /\ (Ordered(trial) => Ordered(t))
         /\ \A i \in DOMAIN t :
              /\ t[i].element \in Fixed /\ t[i].from = start[t[i].element]
              /\ \E m \in DOMAIN chromosome : m <= element_index /\ chromosome[m] = t[i].element
<1> DEFINE f == start[e]
<1>1. /\ k \in 1 .. Len(trial) + 1 /\ f \in Nat /\ e \in Elements /\ f + duration[e] <= t_quit
      /\ k <= Len(trial) => f + duration[e] <= trial[k].from
      /\ \A i \in 1 .. k - 1 : f >= trial[i].from
  BY DEF FixedPlaces, TimetableInv, TimetableTypeOK, Elements
<1>2. /\ Slot(e, f) \in Slots /\ Slot(e, f).element = e /\ Slot(e, f).from = f
      /\ TimetableTypeOK /\ InNight(trial) /\ trial \in Seq(Slots)
      /\ duration \in [Elements -> Nat \ {0}]
  BY <1>1 DEF Slot, Slots, TimetableInv, TimetableTypeOK
<1>3. /\ element_index \in DOMAIN chromosome /\ chromosome[element_index] = e
      /\ element_index \in Nat
  BY DEF InFirstHalf, Element, TimetableInv, TimetableTypeOK
<1>4. \A i \in DOMAIN trial : LET d == trial[i].element IN
        /\ d \in Fixed /\ trial[i].from = start[d]
        /\ \E m \in DOMAIN chromosome : m < element_index /\ chromosome[m] = d
  BY DEF TimetableInv, OnlyFixed
<1>5. f < End(t, k) => TwoFixed(t, k)
  <2> SUFFICES ASSUME f < End(t, k) PROVE TwoFixed(t, k)
    OBVIOUS
  <2>1. k # 1
    BY <1>1 DEF End
  <2>2. k - 1 \in DOMAIN trial /\ t[k - 1] = trial[k - 1] /\ t[k].element = e /\ k > 1
    BY <1>1, <1>2, <2>1 DEF Inserts
  <2>3. /\ trial[k - 1].element \in Fixed
        /\ \E m \in DOMAIN chromosome : m < element_index /\ chromosome[m] = trial[k - 1].element
    BY <1>4, <2>2
  <2> QED  BY <1>3, <2>2, <2>3 DEF TwoFixed, Precedes
<1>6. InNight(t) /\ Follows(t, early)
  <2>1. f \in Int /\ Follows(trial, early) /\ (f < End(t, k) => e \in early \/ TwoFixed(t, k))
    BY <1>1, <1>5 DEF TimetableInv
  <2> HIDE DEF f
  <2>2. Inserts(t, trial, k, Slot(e, f))
    BY DEF f
  <2> QED  BY <1>1, <1>2, <2>1, <2>2, SlotFits
<1>7. Ordered(trial) => Ordered(t)
  <2>1. f \in Int /\ Inserts(t, trial, k, Slot(e, f))
    BY <1>1
  <2> HIDE DEF f
  <2> QED  BY <1>1, <1>2, <2>1, OrderedAfter
<1>8. ComesFrom(t, trial, k)
  BY <1>1, <1>2, TheOthers
<1>9. ASSUME NEW i \in DOMAIN t
      PROVE  /\ t[i].element \in Fixed /\ t[i].from = start[t[i].element]
             /\ \E m \in DOMAIN chromosome : m <= element_index /\ chromosome[m] = t[i].element
  <2>1. CASE i = k
    BY <1>2, <1>3, <2>1 DEF Inserts
  <2>2. CASE i # k
    <3>1. PICK a \in DOMAIN trial : t[i] = trial[a]
      BY <1>8, <2>2 DEF ComesFrom
    <3>2. \A m \in DOMAIN chromosome : m < element_index => m <= element_index
      BY <1>3
    <3> QED  BY <1>4, <3>1, <3>2
  <2> QED  BY <2>1, <2>2
<1> QED  BY <1>6, <1>7, <1>9

\* With fixed ones only, nothing is repeated.
LEMMA NothingRepeated ==
  ASSUME NEW t, \A i \in DOMAIN t : t[i].element \in Fixed
  PROVE  Kept(t) /\ \A i \in DOMAIN t : t[i].element \notin Repeated
BY TimetableConstants DEF Kept

LEMMA PoolElementKeeps ==
  ASSUME TimetableInv, PoolElement
  PROVE  TimetableInv'
<1>1. /\ UNCHANGED inputs /\ NextElement /\ ttpc = "pool"
      /\ UNCHANGED <<tried, last_scheduled, scheduling_time, early>>
  BY DEF PoolElement
<1>2. TimetableTypeOK /\ OnlyFixed /\ scheduling_time = 0 /\ InNight(trial)
  BY <1>1 DEF TimetableInv, OnlyFixed
<1>3. /\ element_index' \in Nat \ {0} /\ ttpc' \in {"pool", "quick", "done"}
      /\ ttpc' = "pool" => element_index' = element_index + 1
  BY <1>1, <1>2, LoopTypes
<1>4. quick_pool' \in Seq(Repeated)
  BY <1>2 DEF PoolElement, TimetableTypeOK
<1> DEFINE FixedBefore(t) ==
             \A i \in DOMAIN t :
               /\ t[i].element \in Fixed /\ t[i].from = start[t[i].element]
               /\ \E m \in DOMAIN chromosome : m <= element_index /\ chromosome[m] = t[i].element
<1>5. /\ trial' \in Seq(Slots) /\ InNight(trial') /\ Follows(trial', early)
      /\ early = {} => Ordered(trial')
      /\ FixedBefore(trial')
  <2>1. CASE trial' = trial
    <3>1. FixedBefore(trial)
      BY <1>1, <1>2 DEF OnlyFixed, TimetableTypeOK
    <3> HIDE DEF FixedBefore
    <3> QED  BY <1>2, <2>1, <3>1 DEF TimetableInv, TimetableTypeOK
  <2>2. CASE trial' # trial
    <3>1. /\ Element \in Fixed /\ InFirstHalf
          /\ \E k \in FixedPlaces(Element) :
               trial' = Seqs!InsertAt(trial, k, Slot(Element, start[Element]))
      BY <2>2 DEF PoolElement
    <3>2. PICK k \in FixedPlaces(Element) :
            trial' = Seqs!InsertAt(trial, k, Slot(Element, start[Element]))
      BY <3>1
    <3>3. /\ k \in 1 .. Len(trial) + 1 /\ trial \in Seq(Slots)
          /\ Slot(Element, start[Element]) \in Slots
      BY <1>2, <3>1 DEF FixedPlaces, Slot, Slots, TimetableTypeOK, Elements
    <3>4. trial' \in Seq(Slots) /\ Inserts(trial', trial, k, Slot(Element, start[Element]))
      BY <3>2, <3>3, InsertedAt
    <3> QED  BY <1>1, <3>1, <3>4, FixedKeeps DEF TimetableInv
  <2> QED  BY <2>1, <2>2
<1>6. TimetableTypeOK'
  BY <1>1, <1>2, <1>3, <1>4, <1>5 DEF TimetableTypeOK, inputs
<1>7. OnlyFixed'
  <2> SUFFICES ASSUME ttpc' = "pool", NEW i \in DOMAIN trial'
               PROVE  LET e == trial'[i].element IN
                        /\ e \in Fixed /\ trial'[i].from = start[e]
                        /\ \E m \in DOMAIN chromosome : m < element_index' /\ chromosome[m] = e
    BY <1>1, <1>2 DEF OnlyFixed, inputs
  <2>1. PICK m \in DOMAIN chromosome : m <= element_index /\ chromosome[m] = trial'[i].element
    BY <1>5
  <2>2. m < element_index'
    BY <1>2, <1>3, <2>1 DEF TimetableTypeOK
  <2> QED  BY <1>5, <2>1, <2>2
<1>8. Kept(trial') /\ \A i \in DOMAIN trial' : trial'[i].element \notin Repeated
  BY <1>5, NothingRepeated
<1>9. LastTimes'
  <2>1. End(trial', Len(trial') + 1) >= 0
    <3>1. CASE Len(trial') = 0
      BY <3>1 DEF End
    <3>2. CASE Len(trial') # 0
      <4> DEFINE n == Len(trial')
      <4>1. n \in DOMAIN trial' /\ n \in 1 .. n /\ End(trial', n + 1) = trial'[n].to
        BY <1>5, <3>2 DEF End
      <4>2. trial'[n].from = start[trial'[n].element] /\ trial'[n].element \in Fixed
        BY <1>5, <4>1
      <4>3. trial'[n].from \in Nat
        BY <1>2, <4>2 DEF TimetableTypeOK
      <4>4. duration \in [Elements -> Nat \ {0}]
        BY <1>2 DEF TimetableTypeOK
      <4>5. trial'[n].to \in Int /\ trial'[n].from <= trial'[n].to
        BY <1>5, <4>1, <4>4, SlotTypes
      <4> QED  BY <4>1, <4>3, <4>5
    <3> QED  BY <3>1, <3>2
  <2>2. scheduling_time' <= End(trial, Len(trial) + 1)'
    BY <1>1, <1>2, <2>1, InputsStay
  <2> QED  BY <1>8, <2>2 DEF LastTimes
<1> QED  BY <1>1, <1>5, <1>6, <1>7, <1>8, <1>9, InputsStay DEF TimetableInv

LEMMA TryRepeatedKeeps ==
  ASSUME TimetableInv, TryRepeated
  PROVE  TimetableInv'
<1>1. /\ UNCHANGED inputs /\ ttpc = "quick" /\ UNCHANGED <<element_index, ttpc, quick_pool, early>>
      /\ tried' = tried + 1 /\ tried < Len(quick_pool)
  BY DEF TryRepeated
<1>2. TimetableTypeOK /\ InNight(trial) /\ OnlyFixed'
  BY <1>1 DEF TimetableInv, OnlyFixed
<1> DEFINE q == quick_pool[tried + 1]
<1>3. q \in Repeated /\ q \in Elements /\ tried' \in Nat
  BY <1>1, <1>2 DEF TimetableTypeOK, Elements
<1>4. CASE UNCHANGED <<trial, last_scheduled, scheduling_time>>
  <2>1. LastTimes' <=> LastTimes
    BY <1>4 DEF LastTimes, End
  <2>2. TimetableTypeOK'
    BY <1>1, <1>2, <1>3, <1>4 DEF TimetableTypeOK, inputs
  <2> QED  BY <1>1, <1>2, <1>4, <2>1, <2>2, InputsStay DEF TimetableInv
<1>5. ASSUME scheduling_time - last_scheduled[q] >= cadence[q],
             NEW k \in RepeatedPlaces(q),
             trial' = Seqs!InsertAt(trial, k, Slot(q, PriorEnd(k))),
             last_scheduled' = [last_scheduled EXCEPT ![q] = PriorEnd(k)],
             scheduling_time' = PriorEnd(k) + duration[q]
      PROVE  TimetableInv'
  <2> DEFINE f == PriorEnd(k)
  <2> HIDE DEF f
  <2>1. /\ trial \in Seq(Slots) /\ duration \in [Elements -> Nat \ {0}] /\ Len(trial) \in Nat
        /\ duration[q] \in Nat \ {0} /\ cadence[q] \in Nat \ {0} /\ last_scheduled[q] \in Int
        /\ scheduling_time \in Int
    BY <1>2, <1>3 DEF TimetableTypeOK
  <2>2. k \in 1 .. Len(trial) + 1
    BY <1>5, <2>1 DEF RepeatedPlaces, Gaps
  <2>3. f = End(trial, k) /\ f \in Int
    BY <1>2, <2>1, <2>2, EndType DEF f, PriorEnd, End
  <2> DEFINE InTime == Ordered(trial) => f >= last_scheduled[q] + cadence[q]
             Room == f + duration[q] <= t_quit
             RoomBefore == k <= Len(trial) => f + duration[q] <= trial[k].from
  <2>0. \A a, b, c \in Int :
          /\ a > b + c => a >= b + c
          /\ \A d \in Int : d - b >= c /\ d <= a => a >= b + c
    OBVIOUS
  <2>4. ASSUME k \in Gaps(q) PROVE Room /\ InTime /\ RoomBefore
    <3>1. f + duration[q] <= trial[k].from /\ f > last_scheduled[q] + cadence[q] /\ k \in 1 .. Len(trial)
      BY <2>1, <2>4 DEF Gaps, f
    <3>2. /\ trial[k].from \in Int /\ trial[k].to \in Int /\ trial[k].from <= trial[k].to
          /\ trial[k].to <= t_quit
      BY <1>2, <2>1, <3>1, SlotTypes DEF InNight
    <3>3. f + duration[q] <= t_quit
      BY <2>1, <2>3, <3>1, <3>2, TimetableConstants
    <3>4. f >= last_scheduled[q] + cadence[q]
      BY <2>0, <2>1, <2>3, <3>1
    <3>5. RoomBefore
      BY <3>1
    <3> HIDE DEF RoomBefore
    <3> QED  BY <3>3, <3>4, <3>5
  <2>5. ASSUME k \notin Gaps(q) PROVE Room /\ InTime /\ RoomBefore
    <3>1. k = Len(trial) + 1 /\ FitsAtEnd(q, 0)
      BY <1>5, <2>5 DEF RepeatedPlaces
    <3>2. f + duration[q] <= t_quit
      BY <2>1, <2>3, <3>1 DEF FitsAtEnd, f
    <3>3. ASSUME Ordered(trial) PROVE f >= last_scheduled[q] + cadence[q]
      <4>1. scheduling_time <= f
        BY <2>3, <3>1, <3>3 DEF TimetableInv, LastTimes
      <4> QED  BY <1>5, <2>0, <2>1, <2>3, <4>1
    <3>4. RoomBefore
      BY <2>1, <3>1
    <3> HIDE DEF RoomBefore
    <3> QED  BY <3>2, <3>3, <3>4
  <2>6. Room /\ InTime /\ RoomBefore
    BY <2>4, <2>5
  <2>7. Slot(q, f) \in Slots
    BY <1>3, <2>1, <2>3 DEF Slot, Slots
  <2>8. trial' \in Seq(Slots) /\ Inserts(trial', trial, k, Slot(q, f))
    <3>1. trial' = Seqs!InsertAt(trial, k, Slot(q, f))
      BY <1>5 DEF f
    <3> QED  BY <2>1, <2>2, <2>7, <3>1, InsertedAt
  <2>9. InNight(trial') /\ Follows(trial', early)
    <3>1. End(trial', k) = f
      BY <2>2, <2>3, <2>8 DEF End, Inserts
    <3>2. ~(f < End(trial', k))
      BY <2>3, <3>1
    <3>3. Follows(trial, early)
      BY DEF TimetableInv
    <3> QED  BY <1>2, <1>3, <2>2, <2>3, <2>6, <2>8, <3>2, <3>3, SlotFits
  <2>13. early = {} => Ordered(trial')
    <3> SUFFICES ASSUME early = {} PROVE Ordered(trial')
      OBVIOUS
    <3>1. Ordered(trial)
      BY DEF TimetableInv
    <3>2. \A i \in 1 .. k - 1 : trial[i].from <= f
      BY <1>2, <2>1, <2>2, <2>3, <3>1, BegunBefore
    <3> QED  BY <1>2, <1>3, <2>2, <2>3, <2>6, <2>8, <3>1, <3>2, OrderedAfter
  <2>10. last_scheduled' = [last_scheduled EXCEPT ![q] = f] /\ scheduling_time' = f + duration[q]
    BY <1>5 DEF f
  <2>11. TimetableTypeOK'
    <3>1. last_scheduled' \in [Repeated -> Int] /\ scheduling_time' \in Int
      BY <1>2, <1>3, <2>1, <2>3, <2>10 DEF TimetableTypeOK
    <3> QED  BY <1>1, <1>2, <1>3, <2>8, <3>1 DEF TimetableTypeOK, inputs
  <2>12. ASSUME Ordered(trial') PROVE Kept(trial') /\ LastTimes'
    <3>1. Ordered(trial)
      BY <2>1, <2>2, <2>8, <2>12, OrderedBefore
    <3>2. LastTimes /\ Kept(trial) /\ f >= last_scheduled[q] + cadence[q]
      BY <2>6, <3>1 DEF TimetableInv
    <3>3. /\ Kept(trial')
          /\ f + duration[q] <= End(trial', Len(trial') + 1)
          /\ \A i \in DOMAIN trial' : trial'[i].element \in Repeated =>
               trial'[i].from <= [last_scheduled EXCEPT ![q] = f][trial'[i].element]
      BY <1>2, <1>3, <2>2, <2>3, <2>6, <2>8, <2>9, <2>12, <3>2, RepeatedKeeps
    <3> QED  BY <1>1, <2>10, <3>3, InputsStay DEF LastTimes
  <2> QED  BY <1>1, <1>2, <2>9, <2>11, <2>12, <2>13, InputsStay DEF TimetableInv
<1> QED  BY <1>4, <1>5 DEF TryRepeated

LEMMA PlaceElementKeeps ==
  ASSUME TimetableInv, PlaceElement
  PROVE  TimetableInv'
<1>1. /\ UNCHANGED inputs /\ NextElement /\ ttpc = "quick" /\ tried' = 0
      /\ UNCHANGED <<quick_pool, last_scheduled>>
  BY DEF PlaceElement
<1>2. TimetableTypeOK /\ InNight(trial)
  BY DEF TimetableInv
<1>3. /\ element_index' \in Nat \ {0} /\ ttpc' \in {"pool", "quick", "done"}
      /\ OnlyFixed'
  BY <1>1, <1>2, LoopTypes DEF OnlyFixed
<1>4. CASE UNCHANGED <<trial, scheduling_time, early>>
  <2>1. LastTimes' <=> LastTimes
    BY <1>1, <1>4 DEF LastTimes, End
  <2>2. TimetableTypeOK'
    BY <1>1, <1>2, <1>3, <1>4 DEF TimetableTypeOK, inputs
  <2> QED  BY <1>1, <1>2, <1>3, <1>4, <2>1, <2>2, InputsStay DEF TimetableInv
<1>5. ASSUME NEW delay \in WaitingTimes, Element \in Plain, FitsAtEnd(Element, delay),
             trial' = Append(trial, Slot(Element, PriorEnd(Len(trial) + 1) + delay)),
             scheduling_time' = Slot(Element, PriorEnd(Len(trial) + 1) + delay).to,
             early' = IF delay < 0 THEN early \cup {Element} ELSE early
      PROVE  TimetableInv'
  <2> DEFINE e == Element
             k == Len(trial) + 1
             f == PriorEnd(Len(trial) + 1) + delay
  <2>1. /\ trial \in Seq(Slots) /\ duration \in [Elements -> Nat \ {0}] /\ Len(trial) \in Nat
        /\ e \in Plain /\ e \in Elements /\ duration[e] \in Nat \ {0} /\ e \notin Repeated
        /\ k \in 1 .. Len(trial) + 1 /\ delay \in Int
    BY <1>2, <1>5, TimetableConstants DEF TimetableTypeOK, Elements, WaitingTimes
  <2>2. PriorEnd(k) = End(trial, k) /\ PriorEnd(k) \in Int
    BY <1>2, <2>1, EndType DEF PriorEnd, End
  <2>3. /\ f \in Int /\ f + duration[e] <= t_quit
        /\ early \subseteq early' /\ (f < End(trial, k) => e \in early')
    <3>1. f \in Int /\ f + duration[e] <= t_quit
      BY <1>5, <2>1, <2>2 DEF FitsAtEnd
    <3>2. f < End(trial, k) => delay < 0
      BY <2>1, <2>2
    <3> HIDE DEF f, k
    <3> QED  BY <1>5, <3>1, <3>2
  <2> HIDE DEF f, e
  <2>4. /\ Slot(e, f) \in Slots /\ Slot(e, f).element = e /\ Slot(e, f).from = f
        /\ Slot(e, f).to = f + duration[e]
    BY <2>1, <2>3 DEF Slot, Slots
  <2>5. trial' \in Seq(Slots) /\ Inserts(trial', trial, k, Slot(e, f))
    <3>1. trial' = Append(trial, Slot(e, f))
      BY <1>5 DEF e, f
    <3> QED  BY <2>1, <2>4, <3>1, AppendedAt
  <2>6. InNight(trial') /\ Follows(trial', early')
    <3>1. End(trial', k) = End(trial, k)
      BY <2>1, <2>5 DEF End, Inserts
    <3>2. ~(k <= Len(trial)) /\ Follows(trial, early)
      BY <2>1 DEF TimetableInv
    <3> HIDE DEF k
    <3> QED  BY <1>2, <2>1, <2>3, <2>5, <3>1, <3>2, SlotFits
  <2>11. early' = {} => Ordered(trial')
    <3> SUFFICES ASSUME early' = {} PROVE Ordered(trial')
      OBVIOUS
    <3>1. Ordered(trial)
      BY <2>3 DEF TimetableInv
    <3>2. f >= End(trial, k) /\ End(trial, k) \in Int
      BY <2>2, <2>3
    <3>3. \A i \in 1 .. k - 1 : trial[i].from <= f
      <4>1. \A i \in 1 .. k - 1 : trial[i].from <= End(trial, k)
        BY <1>2, <2>1, <3>1, BegunBefore
      <4>2. \A i \in 1 .. k - 1 : trial[i].from \in Int
        BY <1>2, <2>1, SlotTypes
      <4> QED  BY <2>3, <3>2, <4>1, <4>2
    <3>4. ~(k <= Len(trial))
      BY <2>1
    <3> HIDE DEF k
    <3> QED  BY <1>2, <2>1, <2>3, <2>5, <3>1, <3>3, <3>4, OrderedAfter
  <2>7. scheduling_time' = f + duration[e]
    BY <1>5, <2>4 DEF e, f
  <2>8. TimetableTypeOK'
    BY <1>1, <1>2, <1>3, <2>1, <2>3, <2>5, <2>7 DEF TimetableTypeOK, inputs
  <2>9. ComesFrom(trial', trial, k)
    BY <2>1, <2>4, <2>5, TheOthers
  <2>10. ASSUME Ordered(trial') PROVE Kept(trial') /\ LastTimes'
    <3>1. Ordered(trial)
      BY <2>1, <2>5, <2>10, OrderedBefore
    <3>2. LastTimes /\ Kept(trial)
      BY <3>1 DEF TimetableInv
    <3>4. trial'[k].element = e
      BY <2>4, <2>5 DEF Inserts
    <3>5. Kept(trial')
      <4> SUFFICES ASSUME NEW i \in DOMAIN trial', NEW j \in DOMAIN trial', i < j,
                          trial'[i].element \in Repeated, trial'[j].element = trial'[i].element
                   PROVE  trial'[j].from - trial'[i].from >= cadence[trial'[i].element]
        BY DEF Kept
      <4>1. i # k /\ j # k
        BY <2>1, <3>4
      <4>2. PICK a, b \in DOMAIN trial : a < b /\ trial'[i] = trial[a] /\ trial'[j] = trial[b]
        BY <2>9, <4>1 DEF ComesFrom
      <4> QED  BY <3>2, <4>2 DEF Kept
    <3>6. \A i \in DOMAIN trial' : trial'[i].element \in Repeated =>
            trial'[i].from <= last_scheduled[trial'[i].element]
      BY <2>1, <2>9, <3>2, <3>4 DEF ComesFrom, LastTimes
    <3>7. scheduling_time' <= End(trial', Len(trial') + 1)
      BY <2>1, <2>4, <2>5, <2>7 DEF End, Inserts
    <3> QED  BY <1>1, <3>5, <3>6, <3>7, InputsStay DEF LastTimes
  <2> QED  BY <1>1, <1>3, <2>6, <2>8, <2>10, <2>11, InputsStay DEF TimetableInv
<1> QED  BY <1>4, <1>5 DEF PlaceElement

\* The invariant holds.
LEMMA TimetableInvariant == TimetableSpec => []TimetableInv
<1>1. TimetableInv /\ UNCHANGED timetableVars => TimetableInv'
  <2> SUFFICES ASSUME TimetableInv, UNCHANGED timetableVars PROVE TimetableInv'
    OBVIOUS
  <2>1. UNCHANGED inputs
    BY DEF timetableVars
  <2>2. /\ TimetableTypeOK' /\ OnlyFixed' /\ (LastTimes' <=> LastTimes)
        /\ trial' = trial /\ early' = early
    BY DEF timetableVars, inputs, TimetableInv, TimetableTypeOK, OnlyFixed, LastTimes, End
  <2> QED  BY <2>1, <2>2, InputsStay DEF TimetableInv
<1>2. TimetableInv /\ [TimetableNext]_timetableVars => TimetableInv'
  BY <1>1, PoolElementKeeps, TryRepeatedKeeps, PlaceElementKeeps DEF TimetableNext
<1> QED  BY <1>2, TimetableInitial, PTL DEF TimetableSpec

-----------------------------------------------------------------------------
(* The theorems.                                                           *)

\* What calculate_score() makes of a chromosome, for any number of observations,
\* durations, fixed times, cadences and whatever lies behind the table of waiting
\* times: no slot ends after the night, and none begins before the one it follows
\* has ended but for the two cases that NoOverlap names.
THEOREM TimetableHasRoom == TimetableSpec => []NoOverlap
<1>1. TimetableInv => NoOverlap
  <2> SUFFICES ASSUME TimetableInv, NEW k \in DOMAIN trial
               PROVE  /\ trial[k].to <= t_quit
                      /\ trial[k].from < PriorEnd(k) =>
                           \/ trial[k].element \in early
                           \/ TwoFixed(trial, k)
    BY DEF NoOverlap, TwoFixed
  <2> QED  BY DEF TimetableInv, InNight, Follows, PriorEnd, End
<1> QED  BY <1>1, TimetableInvariant, PTL

\* And between two slots of a repeated observation lies at least its cadence,
\* whether they went into gaps or to the end, in every timetable whose slots
\* begin in order; they do when no waiting time was negative.
THEOREM CadencesHold == TimetableSpec => [](CadenceKept /\ (early = {} => InOrderOfTime))
<1>1. TimetableInv => CadenceKept /\ (early = {} => InOrderOfTime)
  BY DEF TimetableInv, CadenceKept, InOrderOfTime, Ordered, Kept
<1> QED  BY <1>1, TimetableInvariant, PTL
=============================================================================
