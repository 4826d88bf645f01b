--------------------------- MODULE HardForkProofs ---------------------------
(***************************************************************************)
(* Proofs about HardFork.                                                  *)
(***************************************************************************)
EXTENDS HardFork, FiniteSetTheorems, SequenceTheorems, TLAPS

-----------------------------------------------------------------------------
(* Numbers.                                                                *)

(* A non-empty set of naturals has a least element: with it the facts      *)
(* below are proved by least counterexample.                               *)
LEMMA LeastNat ==
  ASSUME NEW T \in SUBSET Nat, T # {}
  PROVE  \E m \in T : \A k \in T : m <= k
<1> DEFINE Less == {ss \in Nat \X Nat : ss[1] < ss[2]}
<1>1. \E x \in T : \A y \in T : ~ (<<y, x>> \in OpToRel(<, Nat))
  BY NatLessThanWellFounded, WFMin
<1>2. Less = OpToRel(<, Nat)
  BY Zenon DEF OpToRel
<1> HIDE DEF Less
<1>3. PICK x \in T : \A y \in T : ~ (<<y, x>> \in Less)
  BY <1>1, <1>2, Zenon
<1>4. ASSUME NEW y \in T PROVE x <= y
  <2>1. SUFFICES ASSUME y < x PROVE FALSE
    OBVIOUS
  <2>2. <<y, x>> \in Less
    BY <2>1 DEF Less
  <2> QED
    BY <2>2, <1>3
<1> QED
  BY <1>4

(* Min and Max of a set of naturals, where they exist.                     *)
LEMMA MinIs ==
  ASSUME NEW S \in SUBSET Nat, S # {}
  PROVE  Min(S) \in S /\ \A y \in S : Min(S) <= y
BY Zenon, LeastNat DEF Min

(* So is the greatest of a bounded one.                                    *)
LEMMA MaxIs ==
  ASSUME NEW S \in SUBSET Nat, S # {}, NEW n \in Nat, \A s \in S : s <= n
  PROVE  Max(S) \in S /\ \A y \in S : Max(S) >= y
<1> DEFINE T == {k \in Nat : n - k \in S}
<1>1. ASSUME NEW y \in S PROVE n - y \in T
  OBVIOUS
<1>2. PICK m \in T : \A k \in T : m <= k
  BY <1>1, LeastNat
<1>3. \A y \in S : n - m >= y
  BY <1>1, <1>2
<1>4. n - m \in S
  BY <1>2
<1> QED
  BY <1>3, <1>4 DEF Max

(* The greater of two numbers, as Max of a pair.                           *)
LEMMA MaxOfTwo ==
  ASSUME NEW a \in Int, NEW b \in Int
  PROVE  /\ Max({a, b}) \in {a, b}
         /\ Max({a, b}) >= a
         /\ Max({a, b}) >= b
BY DEF Max

-----------------------------------------------------------------------------
(* Votes.                                                                  *)

(* The table of forks is ordered, so the last entry has the highest        *)
(* version.                                                                *)
LEMMA ForkVersions ==
  /\ Len(Forks) \in Nat \ {0}
  /\ DOMAIN Forks = 1..Len(Forks)
  /\ 1 \in DOMAIN Forks /\ Len(Forks) \in DOMAIN Forks
  /\ \A m \in DOMAIN Forks : /\ Forks[m].version \in Version
                             /\ Forks[m].version \in Nat \ {0}
                             /\ Forks[m].height \in Nat
  /\ \A m, n \in DOMAIN Forks : m < n => /\ Forks[m].version < Forks[n].version
                                         /\ Forks[m].height < Forks[n].height
<1>1. /\ Len(Forks) \in Nat \ {0}
      /\ DOMAIN Forks = 1..Len(Forks)
      /\ 1 \in DOMAIN Forks /\ Len(Forks) \in DOMAIN Forks
  BY ForkAssumption
<1>2. \A m \in DOMAIN Forks : Forks[m] \in [version : Nat \ {0}, height : Nat, threshold : 0..100]
  <2> DEFINE Entry == [version : Nat \ {0}, height : Nat, threshold : 0..100]
  <2>1. Forks \in Seq(Entry)
    BY ForkAssumption
  <2> HIDE DEF Entry
  <2>2. \A m \in DOMAIN Forks : Forks[m] \in Entry
    BY <2>1, <1>1
  <2> QED
    BY <2>2 DEF Entry
<1>3. \A m, n \in DOMAIN Forks : m < n => /\ Forks[m].version < Forks[n].version
                                          /\ Forks[m].height < Forks[n].height
  BY ForkAssumption
<1>4. \A m \in DOMAIN Forks : Forks[m].version <= Forks[Len(Forks)].version
  BY <1>1, <1>2, <1>3
<1> QED
  BY <1>1, <1>2, <1>3, <1>4 DEF Version

(* The accumulated votes are a number.                                     *)
LEMMA VotesCounted ==
  ASSUME NEW n \in DOMAIN Forks, NEW counts \in [Version -> Nat]
  PROVE  Accumulated(n, counts) \in Nat
<1> DEFINE S == n..Len(Forks)
           val(m) == counts[Forks[m].version]
           c(s) == CHOOSE x \in s : TRUE
           F(g) == [s \in SUBSET S |->
                      IF s = {} THEN 0 ELSE val(c(s)) + g[s \ {c(s)}]]
           iter == CHOOSE g : g = F(g)
           Agree(g, k) == \A s \in SUBSET S : Cardinality(s) <= k => g[s] = F(g)[s]
<1>1. IsFiniteSet(S) /\ Cardinality(S) \in Nat
  <2>1. n \in Int /\ Len(Forks) \in Int
    BY ForkAssumption
  <2> QED
    BY <2>1, FS_Interval, FS_CardinalityType
<1>2. ASSUME NEW m \in S PROVE val(m) \in Nat
  <2>1. m \in DOMAIN Forks
    BY ForkAssumption
  <2> QED
    BY <2>1, ForkVersions
<1>3. \A s \in SUBSET S : s # {} => c(s) \in s
  OBVIOUS
<1>4. \A s \in SUBSET S : /\ IsFiniteSet(s)
                          /\ Cardinality(s) \in Nat
                          /\ Cardinality(s) <= Cardinality(S)
                          /\ s # {} => Cardinality(s \ {c(s)}) = Cardinality(s) - 1
  BY <1>1, <1>3, FS_Subset, FS_RemoveElement, FS_CardinalityType
<1>5. Accumulated(n, counts) = iter[S]
  BY DEF Accumulated, MapThenSumSet, MapThenFoldSet
<1> HIDE DEF c, val, S
<1>6. ASSUME NEW g \in [SUBSET S -> Nat]
      PROVE  F(g) \in [SUBSET S -> Nat]
  BY <1>2, <1>3
<1>7. ASSUME NEW k \in Nat, NEW g \in [SUBSET S -> Nat], Agree(g, k)
      PROVE  Agree(F(g), k + 1)
  <2> SUFFICES ASSUME NEW s \in SUBSET S, Cardinality(s) <= k + 1
               PROVE  F(g)[s] = F(F(g))[s]
    BY Zenon
  <2>1. CASE s = {}
    BY <2>1
  <2>2. CASE s # {}
    <3>1. s \ {c(s)} \in SUBSET S /\ Cardinality(s \ {c(s)}) <= k
      BY <2>2, <1>4
    <3>2. g[s \ {c(s)}] = F(g)[s \ {c(s)}]
      BY <3>1, <1>7
    <3>3. F(g)[s] = val(c(s)) + g[s \ {c(s)}]
      BY <2>2
    <3>4. F(F(g))[s] = val(c(s)) + F(g)[s \ {c(s)}]
      BY <2>2
    <3> QED
      BY <3>2, <3>3, <3>4
  <2> QED
    BY <2>1, <2>2
<1>8. \A k \in Nat : \E g \in [SUBSET S -> Nat] : Agree(g, k)
  <2> DEFINE Bad == {k \in Nat : ~ \E g \in [SUBSET S -> Nat] : Agree(g, k)}
  <2>1. SUFFICES ASSUME Bad # {} PROVE FALSE
    BY Zenon
  <2>2. PICK k \in Bad : \A j \in Bad : k <= j
    BY <2>1, LeastNat
  <2>a. Bad \subseteq Nat
    OBVIOUS
  <2> HIDE DEF Bad
  <2>b. k \in Nat /\ \A j \in Nat : j < k => j \notin Bad
    BY <2>2, <2>a
  <2>3. CASE k = 0
    <3> DEFINE g == [s \in SUBSET S |-> 0]
    <3>1. \A s \in SUBSET S : Cardinality(s) <= 0 => s = {}
      <4> SUFFICES ASSUME NEW s \in SUBSET S, Cardinality(s) <= 0
                   PROVE  s = {}
        OBVIOUS
      <4>1. IsFiniteSet(s) /\ Cardinality(s) \in Nat
        BY <1>4
      <4>2. Cardinality(s) = 0
        BY <4>1
      <4> QED
        BY <4>1, <4>2, FS_EmptySet
    <3>2. g \in [SUBSET S -> Nat] /\ Agree(g, 0)
      BY <3>1
    <3> QED
      BY <2>3, <3>2 DEF Bad
  <2>4. CASE k # 0
    <3>1. k - 1 \in Nat /\ k - 1 \notin Bad
      BY <2>b, <2>4
    <3>2. PICK g \in [SUBSET S -> Nat] : Agree(g, k - 1)
      BY <3>1 DEF Bad
    <3>3. F(g) \in [SUBSET S -> Nat] /\ Agree(F(g), (k - 1) + 1)
      BY Zenon, <3>1, <3>2, <1>6, <1>7
    <3>4. (k - 1) + 1 = k
      BY <2>b
    <3>5. Agree(F(g), k)
      BY Zenon, <3>3, <3>4
    <3> QED
      BY Zenon, <3>3, <3>5, <2>2 DEF Bad
  <2> QED
    BY <2>3, <2>4
<1>9. PICK g \in [SUBSET S -> Nat] : g = F(g)
  <2>1. PICK g \in [SUBSET S -> Nat] : Agree(g, Cardinality(S))
    BY <1>8, <1>1
  <2>2. \A s \in SUBSET S : g[s] = F(g)[s]
    BY Zenon, <2>1, <1>4
  <2>3. g = F(g)
    BY <2>2
  <2> QED
    BY Zenon, <2>3
<1>10. iter = F(iter)
  BY <1>9
<1> HIDE DEF iter
<1>11. ASSUME NEW k \in Nat
       PROVE  \A s \in SUBSET S : Cardinality(s) <= k => iter[s] \in Nat
  <2> DEFINE Bad == {j \in Nat :
               ~ \A s \in SUBSET S : Cardinality(s) <= j => iter[s] \in Nat}
  <2>1. SUFFICES ASSUME Bad # {} PROVE FALSE
    OBVIOUS
  <2>2. PICK j \in Bad : \A i \in Bad : j <= i
    BY Zenon, <2>1, LeastNat
  <2>3. PICK s \in SUBSET S : Cardinality(s) <= j /\ iter[s] \notin Nat
    OBVIOUS
  <2>4. iter[s] = IF s = {} THEN 0 ELSE val(c(s)) + iter[s \ {c(s)}]
    BY <1>10
  <2>5. s # {} /\ c(s) \in s
    BY <2>3, <2>4, <1>3
  <2>6. Cardinality(s \ {c(s)}) <= j - 1 /\ j - 1 \in Nat
    <3>1. s \ {c(s)} \in SUBSET S
      OBVIOUS
    <3>2. Cardinality(s \ {c(s)}) \in Nat
      BY <3>1, <1>4
    <3>3. Cardinality(s \ {c(s)}) = Cardinality(s) - 1 /\ Cardinality(s) \in Nat
      BY <2>5, <1>4
    <3> QED
      BY <2>3, <3>2, <3>3
  <2>7. iter[s \ {c(s)}] \in Nat
    BY <2>2, <2>6
  <2> QED
    BY <2>3, <2>4, <2>5, <2>7, <1>2
<1> QED
  BY <1>1, <1>5, <1>11

(* The version a block's vote counts for.                                  *)
LEMMA EffectiveVersion ==
  ASSUME NEW vote \in Nat, vote >= 1
  PROVE  get_effective_version(vote) \in Version
BY ForkVersions DEF get_effective_version, Version

(* The fork that is voted in is one of the table.                          *)
LEMMA VotedType ==
  ASSUME NEW h, NEW counts, NEW current \in DOMAIN Forks
  PROVE  get_voted_fork_index(h, counts, current) \in DOMAIN Forks
<1> DEFINE voted == {n \in DOMAIN Forks :
                       /\ h >= Forks[n].height
                       /\ Accumulated(n, counts) >= Threshold(n)}
<1>1. get_voted_fork_index(h, counts, current) =
        IF voted = {} THEN current ELSE Max(voted)
  BY DEF get_voted_fork_index
<1>2. voted \subseteq DOMAIN Forks
  OBVIOUS
<1> HIDE DEF voted
<1>3. ASSUME voted # {} PROVE Max(voted) \in DOMAIN Forks
  <2>1. /\ voted \in SUBSET Nat
        /\ Len(Forks) \in Nat
        /\ \A n \in voted : n <= Len(Forks)
    BY <1>2, ForkVersions
  <2> QED
    BY <1>2, <1>3, <2>1, MaxIs
<1> QED
  BY <1>1, <1>3

-----------------------------------------------------------------------------
(* The window.                                                             *)

LEMMA CountType ==
  ASSUME NEW s \in Seq(Version)
  PROVE  Count(s) \in [Version -> Nat]
<1> SUFFICES ASSUME NEW v \in Version
             PROVE  Cardinality({i \in DOMAIN s : s[i] = v}) \in Nat
  BY DEF Count
<1>1. IsFiniteSet(1..Len(s))
  BY FS_Interval
<1>2. {i \in DOMAIN s : s[i] = v} \in SUBSET (1..Len(s))
  OBVIOUS
<1> QED
  BY <1>1, <1>2, FS_Subset, FS_CardinalityType

(* The counts of a concatenation are the sums of the counts.               *)
LEMMA CountConcat ==
  ASSUME NEW s \in Seq(Version), NEW t \in Seq(Version), NEW v \in Version
  PROVE  Count(s \o t)[v] = Count(s)[v] + Count(t)[v]
<1> DEFINE A == {i \in DOMAIN s : s[i] = v}
           B == {i \in DOMAIN t : t[i] = v}
           C == {i \in DOMAIN (s \o t) : (s \o t)[i] = v}
           D == {i \in (Len(s) + 1)..(Len(s) + Len(t)) : (s \o t)[i] = v}
           f == [i \in B |-> i + Len(s)]
<1>1. C = A \cup D /\ A \cap D = {}
  OBVIOUS
<1>2. f \in Bijection(B, D)
  <2>1. ASSUME NEW i \in B PROVE f[i] \in D
    OBVIOUS
  <2>2. ASSUME NEW j \in D PROVE \E i \in B : f[i] = j
    <3>1. j - Len(s) \in B
      OBVIOUS
    <3> QED
      BY <3>1
  <2>3. \A i, j \in B : f[i] = f[j] => i = j
    OBVIOUS
  <2> QED
    BY <2>1, <2>2, <2>3 DEF Bijection, Injection, Surjection, IsInjective
<1>3. IsFiniteSet(A) /\ IsFiniteSet(B)
  <2>1. IsFiniteSet(1..Len(s)) /\ IsFiniteSet(1..Len(t))
    BY FS_Interval
  <2>2. A \in SUBSET (1..Len(s)) /\ B \in SUBSET (1..Len(t))
    OBVIOUS
  <2> QED
    BY <2>1, <2>2, FS_Subset
<1> HIDE DEF f
<1>4. IsFiniteSet(D) /\ Cardinality(D) = Cardinality(B)
  BY <1>2, <1>3, FS_Bijection DEF ExistsBijection
<1>5. Cardinality(C) = Cardinality(A) + Cardinality(B)
  <2> HIDE DEF A, B, C, D
  <2>1. Cardinality(A) \in Nat /\ Cardinality(D) \in Nat
    BY <1>3, <1>4, FS_CardinalityType
  <2>2. Cardinality(A \cup D) =
          Cardinality(A) + Cardinality(D) - Cardinality(A \cap D)
    BY <1>3, <1>4, FS_Union
  <2>3. Cardinality(A \cap D) = 0
    BY <1>1, FS_EmptySet
  <2> QED
    BY <1>1, <1>4, <2>1, <2>2, <2>3
<1> QED
  BY <1>5 DEF Count

(* A window of one vote counts it once.                                    *)
LEMMA CountOne ==
  ASSUME NEW x \in Version, NEW v \in Version
  PROVE  Count(<<x>>)[v] = IF v = x THEN 1 ELSE 0
<1> DEFINE A == {i \in DOMAIN <<x>> : <<x>>[i] = v}
<1>1. A = IF v = x THEN {1} ELSE {}
  OBVIOUS
<1>2. Cardinality(A) = IF v = x THEN 1 ELSE 0
  BY <1>1, FS_Singleton, FS_EmptySet
<1> QED
  BY <1>2 DEF Count

(* A sequence without its last element.                                    *)
LEMMA FrontProperties ==
  ASSUME NEW S, NEW s \in Seq(S), s # <<>>
  PROVE  /\ Front(s) \in Seq(S)
         /\ Len(Front(s)) = Len(s) - 1
         /\ \A i \in 1..Len(Front(s)) : Front(s)[i] = s[i]
         /\ Last(s) \in S
<1> DEFINE n == Len(s) - 1
<1>1. Len(s) \in Nat /\ Len(s) >= 1 /\ \A i \in 1..Len(s) : s[i] \in S
  BY ElementOfSeq
<1>2. n \in Nat /\ 1 \in Int /\ n \in Int /\ \A i \in 1..n : s[i] \in S
  BY <1>1
<1> HIDE DEF n
<1>3. /\ SubSeq(s, 1, n) \in Seq(S)
      /\ Len(SubSeq(s, 1, n)) = IF 1 <= n THEN n - 1 + 1 ELSE 0
      /\ \A i \in 1..(n - 1 + 1) : SubSeq(s, 1, n)[i] = s[1 + i - 1]
  BY <1>2, SubSeqProperties
<1>4. /\ Len(SubSeq(s, 1, n)) = n
      /\ \A i \in 1..n : SubSeq(s, 1, n)[i] = s[i]
  BY <1>2, <1>3
<1> QED
  BY <1>1, <1>3, <1>4 DEF Front, Last, n

(* What on_block_popped and add do to the counts.                          *)
LEMMA CountPopped ==
  ASSUME NEW s \in Seq(Version), s # <<>>, NEW x \in Version
  PROVE  /\ <<x>> \o Front(s) \in Seq(Version)
         /\ Len(<<x>> \o Front(s)) = Len(s)
         /\ Last(s) \in Version
         /\ \A v \in Version : Count(<<x>> \o Front(s))[v] =
              Count(s)[v] - (IF v = Last(s) THEN 1 ELSE 0)
                          + (IF v = x THEN 1 ELSE 0)
<1>1. Front(s) \in Seq(Version) /\ Last(s) \in Version /\ Len(Front(s)) = Len(s) - 1
  BY FrontProperties
<1>2. s = Front(s) \o <<Last(s)>>
  BY DEF Front, Last
<1>3. <<x>> \in Seq(Version) /\ <<Last(s)>> \in Seq(Version)
  BY <1>1
<1>4. <<x>> \o Front(s) \in Seq(Version) /\ Len(<<x>> \o Front(s)) = Len(s)
  BY <1>1, <1>3
<1>5. ASSUME NEW v \in Version
      PROVE  Count(<<x>> \o Front(s))[v] =
              Count(s)[v] - (IF v = Last(s) THEN 1 ELSE 0)
                          + (IF v = x THEN 1 ELSE 0)
  <2> DEFINE f == Front(s)
             l == Last(s)
  <2> HIDE DEF f, l
  <2>1. Count(s)[v] = Count(f)[v] + Count(<<l>>)[v]
    <3>1. f \in Seq(Version) /\ <<l>> \in Seq(Version) /\ s = f \o <<l>>
      BY <1>1, <1>2, <1>3 DEF f, l
    <3> QED
      BY <3>1, CountConcat, Zenon
  <2>2. Count(<<x>> \o f)[v] = Count(<<x>>)[v] + Count(f)[v]
    BY <1>1, <1>3, CountConcat DEF f
  <2>3. Count(f)[v] \in Nat
    BY <1>1, CountType DEF f
  <2>4. /\ Count(<<l>>)[v] = IF v = l THEN 1 ELSE 0
        /\ Count(<<x>>)[v] = IF v = x THEN 1 ELSE 0
    BY <1>1, CountOne DEF l
  <2>5. Count(<<x>> \o f)[v] =
              Count(s)[v] - (IF v = l THEN 1 ELSE 0)
                          + (IF v = x THEN 1 ELSE 0)
    BY <2>1, <2>2, <2>3, <2>4
  <2> QED
    BY <2>5 DEF f, l
<1> QED
  BY <1>1, <1>4, <1>5

(* What add makes of the counts is the count of the window it leaves.      *)
LEMMA CountAdded ==
  ASSUME NEW s \in Seq(Version), NEW d \in 0..Len(s), NEW x \in Version
  PROVE  LET t == Append(SubSeq(s, d + 1, Len(s)), x) IN
         /\ t \in Seq(Version)
         /\ Len(t) = Len(s) - d + 1
         /\ \A v \in Version : Count(t)[v] =
              Count(s)[v] - Count(SubSeq(s, 1, d))[v]
                          + (IF v = x THEN 1 ELSE 0)
<1> DEFINE a == SubSeq(s, 1, d)
           b == SubSeq(s, d + 1, Len(s))
           t == Append(b, x)
<1>1. /\ a \in Seq(Version) /\ b \in Seq(Version)
      /\ Len(a) = d /\ Len(b) = Len(s) - d
  OBVIOUS
<1>2. s = a \o b
  <2>1. 1 \in 1..(Len(s) + 1) /\ d \in (1 - 1)..Len(s) /\ Len(s) \in d..Len(s)
    OBVIOUS
  <2>2. a \o b = SubSeq(s, 1, Len(s))
    BY <2>1, ConcatAdjacentSubSeq, Zenon
  <2> QED
    BY <2>2, SubSeqFull
<1> HIDE DEF a, b
<1>3. <<x>> \in Seq(Version) /\ t = b \o <<x>>
  BY <1>1
<1>4. t \in Seq(Version) /\ Len(t) = Len(s) - d + 1
  BY <1>1
<1>5. ASSUME NEW v \in Version
      PROVE  Count(t)[v] = Count(s)[v] - Count(a)[v] + (IF v = x THEN 1 ELSE 0)
  <2>1. Count(s)[v] = Count(a)[v] + Count(b)[v]
    BY <1>1, <1>2, CountConcat
  <2> HIDE DEF t
  <2>2. Count(t)[v] = Count(b)[v] + Count(<<x>>)[v]
    BY <1>1, <1>3, CountConcat, Zenon
  <2>3. Count(a)[v] \in Nat /\ Count(b)[v] \in Nat
    BY <1>1, CountType
  <2>4. Count(<<x>>)[v] = IF v = x THEN 1 ELSE 0
    BY CountOne
  <2> QED
    BY <2>1, <2>2, <2>3, <2>4
<1> QED
  BY <1>4, <1>5 DEF a, b

-----------------------------------------------------------------------------
(* The schedule.                                                           *)

Reached(h) == {n \in DOMAIN Forks : h >= Forks[n].height}

(* ScheduledIndex is the last fork of the table that height h has reached, *)
(* or the first.                                                           *)
LEMMA ScheduledIs ==
  ASSUME NEW h \in Nat
  PROVE  /\ ScheduledIndex(h) \in DOMAIN Forks
         /\ ScheduledIndex(h) \in Nat
         /\ ScheduledIndex(h) = 1 \/ ScheduledIndex(h) \in Reached(h)
         /\ ScheduledIndex(h) >= 1
         /\ \A n \in Reached(h) : n <= ScheduledIndex(h)
         /\ Reached(h) # {} => ScheduledIndex(h) \in Reached(h)
<1> DEFINE S == {1} \cup Reached(h)
<1>1. ScheduledIndex(h) = Max(S)
  BY DEF ScheduledIndex, Reached
<1>2. Reached(h) \subseteq DOMAIN Forks
  BY DEF Reached
<1>3. S \in SUBSET Nat /\ S # {} /\ \A n \in S : n <= Len(Forks)
  BY <1>2, ForkVersions
<1>4. Max(S) \in S /\ \A n \in S : Max(S) >= n
  BY <1>3, ForkVersions, MaxIs
<1>5. ASSUME Reached(h) # {} PROVE 1 \in Reached(h)
  <2>1. PICK n \in DOMAIN Forks : h >= Forks[n].height
    BY <1>5 DEF Reached
  <2>2. h >= Forks[1].height
    BY <2>1, ForkVersions
  <2> QED
    BY <2>2, ForkVersions DEF Reached
<1> HIDE DEF S
<1>6. Max(S) \in Nat
  BY Zenon, <1>3, <1>4
<1>7. Max(S) >= 1 /\ \A n \in Reached(h) : n <= Max(S)
  BY <1>2, <1>4, <1>6, ForkVersions DEF S
<1>8. Max(S) = 1 \/ Max(S) \in Reached(h)
  BY <1>4 DEF S
<1>9. Reached(h) # {} => Max(S) \in Reached(h)
  BY <1>5, <1>8
<1>10. Max(S) \in DOMAIN Forks
  BY <1>2, <1>8, ForkVersions
<1> QED
  BY <1>1, <1>6, <1>7, <1>8, <1>9, <1>10

(* A later height never has an earlier fork scheduled.                     *)
LEMMA ScheduledMonotonic ==
  ASSUME NEW h \in Nat, NEW k \in Nat, h <= k
  PROVE  ScheduledIndex(h) <= ScheduledIndex(k)
<1>1. CASE ScheduledIndex(h) = 1
  BY <1>1, ScheduledIs
<1>2. CASE ScheduledIndex(h) \in Reached(h)
  <2>1. ScheduledIndex(h) \in Reached(k)
    BY <1>2, ForkVersions DEF Reached
  <2> QED
    BY <2>1, ScheduledIs
<1> QED
  BY <1>1, <1>2, ScheduledIs

(* The genesis block has the version scheduled for it.                     *)
LEMMA ScheduledAtGenesis == ScheduledIndex(0) = 1
<1>1. CASE ScheduledIndex(0) \in Reached(0)
  <2>1. Forks[ScheduledIndex(0)].height = 0
    BY <1>1, ForkVersions DEF Reached
  <2>2. /\ ScheduledIndex(0) \in DOMAIN Forks
        /\ ScheduledIndex(0) >= 1
    BY ScheduledIs
  <2> QED
    BY <2>1, <2>2, ForkVersions
<1> QED
  BY <1>1, ScheduledIs

(* With no threshold to reach, the fork voted in is the scheduled one.     *)
LEMMA VotedIsScheduled ==
  ASSUME NoVoting, NEW h \in Nat, NEW counts \in [Version -> Nat], NEW current
  PROVE  get_voted_fork_index(h, counts, current) =
           IF Reached(h) = {} THEN current ELSE ScheduledIndex(h)
<1>1. ASSUME NEW n \in DOMAIN Forks PROVE Accumulated(n, counts) >= Threshold(n)
  <2>1. Threshold(n) = (window_size * 0 + 99) \div 100
    BY DEF Threshold, NoVoting
  <2>2. window_size * 0 = 0
    BY ForkAssumption
  <2>3. Threshold(n) = 0
    BY <2>1, <2>2
  <2> QED
    BY <2>3, VotesCounted
<1>2. {n \in DOMAIN Forks : /\ h >= Forks[n].height
                            /\ Accumulated(n, counts) >= Threshold(n)} = Reached(h)
  BY <1>1 DEF Reached
<1>3. get_voted_fork_index(h, counts, current) =
        IF Reached(h) = {} THEN current ELSE Max(Reached(h))
  BY <1>2, Zenon DEF get_voted_fork_index
<1>4. ASSUME Reached(h) # {} PROVE Max(Reached(h)) = ScheduledIndex(h)
  <2>1. /\ Reached(h) \in SUBSET Nat
        /\ \A n \in Reached(h) : n <= Len(Forks)
    BY ForkVersions DEF Reached
  <2>2. /\ Max(Reached(h)) \in Reached(h)
        /\ \A n \in Reached(h) : Max(Reached(h)) >= n
    BY <1>4, <2>1, MaxIs, ForkVersions
  <2>3. ScheduledIndex(h) \in Reached(h)
    BY <1>4, ScheduledIs
  <2>4. \A n \in Reached(h) : n <= ScheduledIndex(h)
    BY ScheduledIs
  <2> QED
    BY <2>1, <2>2, <2>3, <2>4
<1> QED
  BY <1>3, <1>4

(* Raised from any fork that is not past it, the current fork is the       *)
(* scheduled one.                                                          *)
LEMMA RaisedIsScheduled ==
  ASSUME NoVoting, NEW h \in Nat, NEW counts \in [Version -> Nat],
         NEW i \in DOMAIN Forks, i <= ScheduledIndex(h)
  PROVE  Raise(i, get_voted_fork_index(h, counts, i)) = ScheduledIndex(h)
<1>1. CASE Reached(h) = {}
  <2>1. ScheduledIndex(h) = 1
    BY <1>1, ScheduledIs
  <2>2. i = 1
    BY <2>1, ForkVersions
  <2>3. get_voted_fork_index(h, counts, i) = i
    BY <1>1, VotedIsScheduled
  <2> QED
    BY <2>1, <2>2, <2>3 DEF Raise
<1>2. CASE Reached(h) # {}
  <2>1. get_voted_fork_index(h, counts, i) = ScheduledIndex(h)
    BY <1>2, VotedIsScheduled
  <2>2. i \in Nat /\ ScheduledIndex(h) \in Nat
    BY ForkVersions, ScheduledIs
  <2> QED
    BY <2>1, <2>2 DEF Raise
<1> QED
  BY <1>1, <1>2

-----------------------------------------------------------------------------
(* The inductive invariant.                                                *)

ChainOK ==
  /\ chain \in Seq(ChainBlock) /\ Len(chain) >= 1
  /\ \A i \in DOMAIN chain : chain[i].vote >= 1
  /\ Len(chain) = 1 \/ Len(chain) <= MaxHeight
  /\ hf_versions \in Seq(Version) /\ Len(hf_versions) >= Len(chain)

WindowOK ==
  /\ versions \in Seq(Version) /\ Len(versions) \in 1..window_size
  /\ last_versions = Count(versions)
  /\ current_fork_index \in DOMAIN Forks

SwitchOK ==
  /\ switch \in {"none", "disconnect", "connect", "rollback", "restore"}
  /\ split \in 0..MaxHeight
  /\ redo \in 0..MaxHeight
  /\ redo < Len(chain)
  /\ redo # 0 => switch = "none"
  /\ switch # "none" => split \in 1..Len(chain)

(* Types and counts.  A rescan only runs when the switch is over, and it   *)
(* stays within the chain; a switch never goes below its split, so that    *)
(* there are blocks to count from there.                                   *)
WindowInv == ChainOK /\ WindowOK /\ SwitchOK

(* Without voting every block of the chain has the version scheduled for   *)
(* its height, so that a rescan refuses none of them.                      *)
ScheduleInv ==
  /\ CurrentIsScheduled
  /\ TableMatchesChain
  /\ NoVoting => \A i \in DOMAIN chain :
       /\ chain[i].version = Forks[ScheduledIndex(i - 1)].version
       /\ chain[i].vote >= chain[i].version

(* What WindowInv says of the state, for the steps that need only that.    *)
LEMMA WindowFacts ==
  ASSUME WindowInv
  PROVE  /\ chain \in Seq(ChainBlock) /\ Len(chain) \in Nat /\ Len(chain) >= 1
         /\ DOMAIN chain = 1..Len(chain)
         /\ \A i \in 1..Len(chain) : /\ chain[i] \in ChainBlock
                                     /\ chain[i].version \in Version
                                     /\ chain[i].vote \in Nat
                                     /\ chain[i].vote >= 1
         /\ hf_versions \in Seq(Version) /\ Len(hf_versions) \in Nat
         /\ Len(hf_versions) >= Len(chain)
         /\ \A i \in 1..Len(hf_versions) : hf_versions[i] \in Version
         /\ versions \in Seq(Version) /\ Len(versions) \in 1..window_size
         /\ last_versions = Count(versions)
         /\ current_fork_index \in DOMAIN Forks
         /\ window_size \in Nat \ {0}
         /\ get_current_version \in Version
<1>1. /\ chain \in Seq(ChainBlock) /\ Len(chain) \in Nat /\ Len(chain) >= 1
      /\ DOMAIN chain = 1..Len(chain)
      /\ hf_versions \in Seq(Version) /\ Len(hf_versions) \in Nat
      /\ Len(hf_versions) >= Len(chain)
      /\ versions \in Seq(Version) /\ Len(versions) \in 1..window_size
      /\ current_fork_index \in DOMAIN Forks
  BY DEF WindowInv, ChainOK, WindowOK
<1>2. \A i \in 1..Len(chain) : chain[i] \in ChainBlock
  BY <1>1, ElementOfSeq
<1>3. \A i \in 1..Len(chain) : /\ chain[i].version \in Version
                               /\ chain[i].vote \in Nat
                               /\ chain[i].vote >= 1
  BY <1>1, <1>2 DEF ChainBlock, WindowInv, ChainOK
<1>4. \A i \in 1..Len(hf_versions) : hf_versions[i] \in Version
  BY <1>1, ElementOfSeq
<1>5. get_current_version \in Version
  BY <1>1, ForkVersions DEF get_current_version
<1>6. last_versions = Count(versions)
  BY DEF WindowInv, WindowOK
<1>7. window_size \in Nat \ {0}
  BY ForkAssumption
<1> QED
  BY <1>1, <1>2, <1>3, <1>4, <1>5, <1>6, <1>7

(* The votes of the last blocks below height n, at most a window of them.  *)
LEMMA VotesBelow ==
  ASSUME WindowInv, NEW n \in 1..Len(chain)
  PROVE  LET from == IF n > window_size THEN n - window_size ELSE 0
             s    == EffectiveVotes(from, n - 1)
         IN  s \in Seq(Version) /\ Len(s) \in 1..window_size
<1> DEFINE from == IF n > window_size THEN n - window_size ELSE 0
           s    == EffectiveVotes(from, n - 1)
           len  == (n - 1) - from + 1
<1>1. n \in Nat /\ from \in Nat /\ len \in 1..window_size /\ from + len = n
  BY WindowFacts
<1> HIDE DEF from, len
<1>2. s = [i \in 1..len |-> get_effective_version(chain[from + i].vote)]
  BY DEF EffectiveVotes, len
<1>3. ASSUME NEW i \in 1..len
      PROVE  get_effective_version(chain[from + i].vote) \in Version
  <2>1. from + i \in 1..Len(chain)
    BY <1>1, WindowFacts
  <2> QED
    BY <2>1, WindowFacts, EffectiveVersion
<1>4. s \in [1..len -> Version]
  BY <1>2, <1>3
<1> HIDE DEF s
<1>5. s \in Seq(Version) /\ Len(s) = len
  BY <1>1, <1>4
<1> QED
  BY <1>1, <1>5 DEF from, s

(* add, on a block it takes.                                               *)
LEMMA AddTaken ==
  ASSUME WindowInv, NEW b \in ChainBlock, do_check(b),
         NEW h \in Nat, h <= Len(hf_versions), Add(b, h)
  PROVE  /\ versions' \in Seq(Version) /\ Len(versions') \in 1..window_size
         /\ last_versions' = Count(versions')
         /\ current_fork_index' \in DOMAIN Forks
         /\ current_fork_index' =
              Raise(current_fork_index,
                    get_voted_fork_index(h + 1, last_versions',
                                         current_fork_index))
         /\ hf_versions' \in Seq(Version)
         /\ Len(hf_versions') >= Len(hf_versions)
         /\ Len(hf_versions') >= h + 1
         /\ hf_versions'[h + 1] = get_current_version
         /\ \A i \in 1..Len(hf_versions) :
              i # h + 1 => hf_versions'[i] = hf_versions[i]
<1> DEFINE vote == get_effective_version(b.vote)
           drop == Dropped(versions)
           out  == Count(SubSeq(versions, 1, drop))
           len  == Max({Len(hf_versions), h + 1})
<1>1. b.vote \in Nat /\ b.vote >= 1 /\ vote \in Version
  <2>1. b.vote \in Nat
    BY DEF ChainBlock
  <2>2. b.vote >= 1
    BY <2>1, WindowFacts DEF do_check, Version
  <2> QED
    BY <2>1, <2>2, EffectiveVersion
<1>2. drop \in 0..Len(versions) /\ Len(versions) - drop + 1 \in 1..window_size
  <2>1. Len(versions) - window_size + 1 \in Int /\ Len(versions) \in 1..window_size
    BY WindowFacts
  <2> DEFINE k == Len(versions) - window_size + 1
  <2>2. 0 \in Int /\ k \in Int
    BY <2>1
  <2> HIDE DEF k
  <2>3. Max({0, k}) \in {0, k} /\ Max({0, k}) >= 0 /\ Max({0, k}) >= k
    BY <2>2, MaxOfTwo
  <2>4. drop = Max({0, k})
    BY DEF Dropped, k
  <2> QED
    BY <2>1, <2>3, <2>4, WindowFacts DEF k
<1>3. /\ versions' = Append(SubSeq(versions, drop + 1, Len(versions)), vote)
      /\ last_versions' = [v \in Version |-> last_versions[v] - out[v]
                                               + IF v = vote THEN 1 ELSE 0]
      /\ current_fork_index' =
              Raise(current_fork_index,
                    get_voted_fork_index(h + 1, last_versions',
                                         current_fork_index))
      /\ hf_versions' = [n \in 1..len |->
                IF n = h + 1
                THEN WrittenVersion(current_fork_index, current_fork_index')
                ELSE hf_versions[n]]
  BY DEF Add
<1> HIDE DEF vote, drop
<1>4. /\ versions' \in Seq(Version)
      /\ Len(versions') = Len(versions) - drop + 1
      /\ \A v \in Version : Count(versions')[v] =
           Count(versions)[v] - out[v] + (IF v = vote THEN 1 ELSE 0)
  <2> DEFINE t == Append(SubSeq(versions, drop + 1, Len(versions)), vote)
  <2>1. /\ t \in Seq(Version)
        /\ Len(t) = Len(versions) - drop + 1
        /\ \A v \in Version : Count(t)[v] =
             Count(versions)[v] - out[v] + (IF v = vote THEN 1 ELSE 0)
    BY <1>1, <1>2, WindowFacts, CountAdded
  <2> HIDE DEF t, out
  <2>2. versions' = t
    BY <1>3 DEF t
  <2> QED
    BY <2>1, <2>2
<1>5. last_versions' = Count(versions')
  <2>1. \A v \in Version : last_versions'[v] = Count(versions')[v]
    BY <1>3, <1>4, WindowFacts
  <2>2. Count(versions') \in [Version -> Nat]
    BY <1>4, CountType
  <2>3. last_versions' = [v \in Version |-> last_versions'[v]]
    BY <1>3
  <2> QED
    BY <2>1, <2>2, <2>3
<1>6. current_fork_index' \in DOMAIN Forks
  BY <1>3, WindowFacts, VotedType DEF Raise
<1>7. len \in Nat /\ len >= Len(hf_versions) /\ len >= h + 1
      /\ len \in {Len(hf_versions), h + 1}
  <2> DEFINE k == Len(hf_versions)
             l == h + 1
  <2>1. k \in Nat /\ l \in Nat
    BY WindowFacts
  <2> HIDE DEF k, l
  <2>2. Max({k, l}) \in {k, l} /\ Max({k, l}) >= k /\ Max({k, l}) >= l
    BY <2>1, MaxOfTwo
  <2> QED
    BY <2>1, <2>2 DEF k, l
<1> HIDE DEF len
<1>8. hf_versions' = [n \in 1..len |-> IF n = h + 1 THEN get_current_version
                                                     ELSE hf_versions[n]]
  BY <1>3 DEF WrittenVersion, get_current_version
<1>9. hf_versions' \in [1..len -> Version]
  <2>1. ASSUME NEW n \in 1..len, n # h + 1 PROVE n \in 1..Len(hf_versions)
    BY <1>7, <2>1, WindowFacts
  <2> QED
    BY <1>8, <2>1, WindowFacts
<1>10. hf_versions' \in Seq(Version) /\ Len(hf_versions') = len
  BY <1>7, <1>9
<1>11. hf_versions'[h + 1] = get_current_version
  BY <1>7, <1>8
<1>12. \A i \in 1..Len(hf_versions) :
         i # h + 1 => hf_versions'[i] = hf_versions[i]
  BY <1>7, <1>8, WindowFacts
<1> QED
  BY <1>2, <1>3, <1>4, <1>5, <1>6, <1>7, <1>10, <1>11, <1>12

(* reorganize_from_chain_height.                                           *)
LEMMA Reorganized ==
  ASSUME WindowInv, NEW n \in 1..Len(chain), reorganize_from_chain_height(n)
  PROVE  /\ versions' \in Seq(Version) /\ Len(versions') \in 1..window_size
         /\ last_versions' = Count(versions')
         /\ current_fork_index' \in DOMAIN Forks
         /\ redo' = IF n < Len(chain) THEN n ELSE 0
<1> DEFINE from == IF n > window_size THEN n - window_size ELSE 0
           start == IF n = 1 THEN original_version ELSE hf_versions[n]
           below == {1} \cup {m \in 1..current_fork_index :
                                Forks[m].version <= start}
           low   == Max(below)
<1>1. /\ versions' = EffectiveVotes(from, n - 1)
      /\ last_versions' = Count(versions')
      /\ current_fork_index' =
           Raise(low, get_voted_fork_index(n, last_versions', low))
      /\ redo' = IF n < Len(chain) THEN n ELSE 0
  BY DEF reorganize_from_chain_height
<1>2. versions' \in Seq(Version) /\ Len(versions') \in 1..window_size
  BY <1>1, VotesBelow
<1>3. below \in SUBSET Nat /\ below # {} /\ current_fork_index \in Nat
      /\ \A m \in below : m <= current_fork_index
  BY WindowFacts, ForkVersions
<1>4. low \in below
  BY <1>3, MaxIs
<1>5. low \in DOMAIN Forks
  BY <1>4, WindowFacts, ForkVersions
<1> HIDE DEF low
<1>6. current_fork_index' \in DOMAIN Forks
  BY <1>1, <1>5, VotedType DEF Raise
<1> QED
  BY <1>1, <1>2, <1>6

(* on_block_popped.                                                        *)
LEMMA Popped ==
  ASSUME WindowInv, on_block_popped
  PROVE  /\ versions' \in Seq(Version) /\ Len(versions') \in 1..window_size
         /\ last_versions' = Count(versions')
         /\ current_fork_index' = ScheduledIndex(Len(chain) - 1)
         /\ current_fork_index' \in DOMAIN Forks
<1> DEFINE v   == hf_versions[Len(chain)]
           out == Last(versions)
<1>1. Len(chain) - 1 + 1 = Len(chain) /\ v \in Version /\ versions # <<>>
      /\ Len(chain) - 1 \in Nat
  BY WindowFacts
<1>2. /\ versions' = <<v>> \o Front(versions)
      /\ last_versions' = [last_versions EXCEPT ![out] = @ - 1, ![v] = @ + 1]
      /\ current_fork_index' = ScheduledIndex(Len(chain) - 1)
  BY <1>1 DEF on_block_popped, ScheduledIndex
<1>3. /\ versions' \in Seq(Version)
      /\ Len(versions') = Len(versions)
      /\ out \in Version
      /\ \A x \in Version : Count(versions')[x] =
           Count(versions)[x] - (IF x = out THEN 1 ELSE 0)
                              + (IF x = v THEN 1 ELSE 0)
  BY <1>1, <1>2, WindowFacts, CountPopped
<1>4. last_versions' = Count(versions')
  <2> HIDE DEF v, out
  <2>1. Count(versions) \in [Version -> Nat] /\ Count(versions') \in [Version -> Nat]
    BY <1>3, WindowFacts, CountType
  <2>2. last_versions \in [Version -> Nat] /\ last_versions = Count(versions)
    BY <2>1, WindowFacts
  <2>3. \A x \in Version : last_versions'[x] =
           last_versions[x] - (IF x = out THEN 1 ELSE 0)
                            + (IF x = v THEN 1 ELSE 0)
    BY <1>1, <1>2, <1>3, <2>2
  <2>4. last_versions' = [x \in Version |-> last_versions'[x]]
    BY <1>2, <2>2
  <2> QED
    BY <1>3, <2>1, <2>2, <2>3, <2>4
<1>5. current_fork_index' \in DOMAIN Forks
  BY <1>1, <1>2, ScheduledIs
<1> QED
  BY <1>2, <1>3, <1>4, <1>5, WindowFacts

-----------------------------------------------------------------------------
(* Every step keeps the types and the counts.                              *)

LEMMA Bounds == MaxHeight \in Nat /\ window_size \in Nat \ {0}
BY ForkAssumption

(* The invariant has the types and the counts of the window.              *)
LEMMA WindowInvImplies == WindowInv => TypeOK /\ CountsMatchWindow
BY CountType DEF WindowInv, ChainOK, WindowOK, SwitchOK, TypeOK, CountsMatchWindow

(* A chain of the genesis block alone has its window.                      *)
LEMMA WindowInit == Init => WindowInv
<1> SUFFICES ASSUME Init PROVE WindowInv
  OBVIOUS
<1>1. Genesis \in ChainBlock /\ Genesis.version \in Version /\ Genesis.vote >= 1
  BY ForkVersions DEF Genesis, ChainBlock
<1>2. chain = <<Genesis>> /\ chain \in Seq(ChainBlock) /\ Len(chain) = 1
  BY <1>1 DEF Init
<1>3. hf_versions \in Seq(Version) /\ Len(hf_versions) = 1
  BY <1>1 DEF Init
<1>4. WindowOK
  <2>1. versions \in Seq(Version) /\ Len(versions) = 1
    BY <1>1 DEF Init
  <2>2. last_versions = Count(versions)
    BY DEF Init
  <2>3. current_fork_index \in DOMAIN Forks
    BY ForkVersions, VotedType DEF Init, Raise
  <2> QED
    BY <2>1, <2>2, <2>3, ForkAssumption DEF WindowOK
<1>5. \A i \in DOMAIN chain : chain[i].vote >= 1
  BY <1>1, <1>2
<1>6. switch = "none" /\ split = 0 /\ redo = 0 /\ MaxHeight \in Nat
  BY ForkAssumption DEF Init
<1>7. ChainOK
  BY <1>2, <1>3, <1>5 DEF ChainOK
<1>8. SwitchOK
  BY <1>2, <1>6 DEF SwitchOK
<1> QED
  BY <1>4, <1>7, <1>8 DEF WindowInv

(* add: the window stays full of votes, and the counts stay its own.       *)
LEMMA AddBlockWindow ==
  ASSUME WindowInv, NEW vote \in Votes,
         AddBlock([version |-> get_current_version, vote |-> vote])
  PROVE  WindowInv'
<1> DEFINE b == [version |-> get_current_version, vote |-> vote]
<1>1. /\ chain' = Append(chain, b) /\ Len(chain) < MaxHeight
      /\ do_check(b) /\ Add(b, Len(chain)) /\ redo = 0
      /\ switch' = switch /\ split' = split /\ redo' = redo
  BY DEF AddBlock, Quiet
<1>2. b \in ChainBlock /\ b.vote >= 1
  BY WindowFacts, ForkAssumption DEF ChainBlock
<1> HIDE DEF b
<1>3. chain' \in Seq(ChainBlock) /\ Len(chain') = Len(chain) + 1
  BY <1>1, <1>2, WindowFacts
<1>4. \A i \in DOMAIN chain' : chain'[i].vote >= 1
  BY <1>1, <1>2, WindowFacts
<1>5. /\ WindowOK'
      /\ hf_versions' \in Seq(Version)
      /\ Len(hf_versions') >= Len(chain')
  BY <1>1, <1>2, <1>3, WindowFacts, AddTaken DEF WindowOK
<1>6. ChainOK'
  <2>1. Len(chain) \in Nat /\ MaxHeight \in Nat
    BY WindowFacts, Bounds
  <2>2. Len(chain') >= 1 /\ Len(chain') <= MaxHeight
    BY <1>1, <1>3, <2>1
  <2> QED
    BY <1>3, <1>4, <1>5, <2>2 DEF ChainOK
<1>7. SwitchOK'
  BY <1>1, <1>3, WindowFacts DEF SwitchOK, WindowInv
<1> QED
  BY <1>5, <1>6, <1>7 DEF WindowInv

(* on_block_popped: one vote leaves the back, one version enters the front. *)
LEMMA PopBlockWindow ==
  ASSUME WindowInv, PopBlock
  PROVE  WindowInv'
<1>1. /\ chain' = Front(chain) /\ on_block_popped /\ redo = 0
      /\ hf_versions' = hf_versions /\ switch' = switch /\ split' = split
      /\ redo' = redo
      /\ Len(chain) > 1
      /\ switch # "none" => split < Len(chain)
  BY WindowFacts DEF PopBlock, Quiet, WindowInv, SwitchOK
<1>2. /\ chain' \in Seq(ChainBlock) /\ Len(chain') = Len(chain) - 1
      /\ \A i \in 1..Len(chain') : chain'[i] = chain[i]
  <2>1. chain \in Seq(ChainBlock) /\ chain # <<>>
    BY <1>1, WindowFacts
  <2> QED
    BY <1>1, <2>1, FrontProperties
<1>3. \A i \in DOMAIN chain' : chain'[i].vote >= 1
  <2>1. DOMAIN chain' = 1..Len(chain')
    BY <1>2
  <2>2. Len(chain) \in Nat /\ \A i \in 1..Len(chain) : chain[i].vote >= 1
    BY WindowFacts
  <2> QED
    BY <1>2, <2>1, <2>2
<1>4. WindowOK'
  BY <1>1, Popped DEF WindowOK
<1>5. ChainOK'
  <2>1. /\ Len(chain) \in Nat /\ MaxHeight \in Nat
        /\ Len(chain) <= MaxHeight
        /\ hf_versions \in Seq(Version) /\ Len(hf_versions) >= Len(chain)
        /\ Len(hf_versions) \in Nat
    BY <1>1, WindowFacts, Bounds DEF WindowInv, ChainOK
  <2>2. Len(chain') >= 1 /\ Len(chain') <= MaxHeight /\ Len(hf_versions) >= Len(chain')
    BY <1>1, <1>2, <2>1
  <2> QED
    BY <1>1, <1>2, <1>3, <2>1, <2>2 DEF ChainOK
<1>6. SwitchOK'
  BY <1>1, <1>2, WindowFacts DEF SwitchOK, WindowInv
<1> QED
  BY <1>4, <1>5, <1>6 DEF WindowInv

(* The loop of reorganize_from_block_height adds as add does.              *)
LEMMA AddAgainWindow ==
  ASSUME WindowInv, AddAgain
  PROVE  WindowInv'
<1>1. /\ redo # 0 /\ redo \in Nat /\ redo + 1 \in 1..Len(chain) /\ switch = "none"
      /\ Add(chain[redo + 1], redo)
      /\ redo' = IF redo + 1 < Len(chain) THEN redo + 1 ELSE 0
      /\ chain' = chain /\ switch' = switch /\ split' = split
  BY WindowFacts DEF AddAgain, WindowInv, SwitchOK
<1>2. chain[redo + 1] \in ChainBlock
  BY <1>1, WindowFacts
<1>3. /\ WindowOK'
      /\ hf_versions' \in Seq(Version)
      /\ Len(hf_versions') >= Len(chain')
  <2>1. CASE do_check(chain[redo + 1])
    BY <1>1, <1>2, <2>1, WindowFacts, AddTaken DEF WindowOK
  <2>2. CASE ~ do_check(chain[redo + 1])
    BY <1>1, <2>2, WindowFacts DEF Add, WindowOK
  <2> QED
    BY <2>1, <2>2
<1>4. ChainOK'
  BY <1>1, <1>3 DEF ChainOK, WindowInv
<1>5. SwitchOK'
  <2>1. /\ Len(chain) \in Nat /\ Len(chain) >= 1 /\ MaxHeight \in Nat
        /\ Len(chain) = 1 \/ Len(chain) <= MaxHeight
        /\ split \in 0..MaxHeight
    BY WindowFacts, Bounds DEF WindowInv, ChainOK, SwitchOK
  <2>2. redo' \in 0..MaxHeight /\ redo' < Len(chain')
    BY <1>1, <2>1
  <2> QED
    BY <1>1, <2>1, <2>2 DEF SwitchOK
<1> QED
  BY <1>3, <1>4, <1>5 DEF WindowInv

(* A rescan at the end of a switch or of its rollback.                     *)
LEMMA RescanWindow ==
  ASSUME WindowInv, RolledBack \/ EndSwitch
  PROVE  WindowInv'
<1>1. /\ split \in 1..Len(chain) /\ reorganize_from_chain_height(split)
      /\ chain' = chain /\ hf_versions' = hf_versions
      /\ split \in 0..MaxHeight /\ split' \in 0..MaxHeight
      /\ \/ switch' = "none"
         \/ switch' = "restore" /\ split' = split /\ Len(chain) = split
  BY ForkAssumption DEF WindowInv, SwitchOK, RolledBack, EndSwitch, db
<1>2. WindowOK' /\ redo' = IF split < Len(chain) THEN split ELSE 0
  BY <1>1, Reorganized DEF WindowOK
<1>3. ChainOK'
  BY <1>1 DEF ChainOK, WindowInv
<1>4. redo' \in 0..MaxHeight /\ redo' < Len(chain)
  <2>1. Len(chain) \in Nat /\ Len(chain) >= 1 /\ MaxHeight \in Nat
    BY WindowFacts, Bounds
  <2> QED
    BY <1>1, <1>2, <2>1
<1>5. SwitchOK'
  <2>1. switch' # "none" => redo' = 0
    BY <1>1, <1>2
  <2> QED
    BY <1>1, <1>4, <2>1 DEF SwitchOK
<1> QED
  BY <1>2, <1>3, <1>5 DEF WindowInv

(* init reads the window from the database.                                *)
LEMMA RestartWindow ==
  ASSUME WindowInv, Restart
  PROVE  WindowInv'
<1>1. InitVersions \in Seq(Version) /\ Len(InitVersions) \in 1..window_size
  <2>1. Len(chain) \in 1..Len(chain)
    BY WindowFacts
  <2> QED
    BY <2>1, VotesBelow DEF InitVersions, InitFrom
<1>2. InitIndex \in DOMAIN Forks
  <2> DEFINE found == {n \in DOMAIN Forks : Forks[n].version = hf_versions[Len(chain)]}
             first == Min(found \cup {Len(Forks)})
  <2>1. found \cup {Len(Forks)} \in SUBSET DOMAIN Forks
    BY ForkVersions
  <2>2. first \in DOMAIN Forks
    <3>1. found \cup {Len(Forks)} \in SUBSET Nat
      BY <2>1, ForkVersions
    <3> QED
      BY <2>1, <3>1, MinIs
  <2> HIDE DEF first
  <2> QED
    BY <2>2, VotedType DEF InitIndex, Raise, first
<1>3. WindowOK'
  BY <1>1, <1>2 DEF Restart, WindowOK
<1> QED
  BY <1>3 DEF WindowInv, ChainOK, SwitchOK, Restart, db

(* Every step keeps the window.                                            *)
LEMMA WindowStep == WindowInv /\ [Next]_vars => WindowInv'
<1> SUFFICES ASSUME WindowInv, [Next]_vars PROVE WindowInv'
  OBVIOUS
<1> USE DEF WindowInv, ChainOK, WindowOK, SwitchOK
<1>1. ASSUME NEW n \in 1..MaxHeight, BeginSwitch(n) PROVE WindowInv'
  BY <1>1 DEF BeginSwitch, db, Quiet
<1>2. CASE Disconnected \/ BeginRollback
  BY <1>2 DEF Disconnected, BeginRollback, db
<1>3. CASE RestoreFails
  BY <1>3, ForkAssumption DEF RestoreFails, db
<1>4. CASE UNCHANGED vars
  BY <1>4 DEF vars
<1> HIDE DEF WindowInv, ChainOK, WindowOK, SwitchOK
<1> QED
  BY <1>1, <1>2, <1>3, <1>4, AddBlockWindow, PopBlockWindow, AddAgainWindow,
     RescanWindow, RestartWindow DEF Next

-----------------------------------------------------------------------------
(* Every step keeps to the schedule, when no fork asks for votes.          *)

(* What ScheduleInv says then.                                             *)
LEMMA ScheduleFacts ==
  ASSUME NoVoting, WindowInv, ScheduleInv
  PROVE  /\ redo = 0 => current_fork_index = ScheduledIndex(Len(chain))
         /\ redo # 0 => current_fork_index = ScheduledIndex(redo)
         /\ \A i \in 1..Len(chain) :
              /\ chain[i].version = Forks[ScheduledIndex(i - 1)].version
              /\ chain[i].vote >= chain[i].version
              /\ hf_versions[i] = chain[i].version
BY WindowFacts DEF ScheduleInv, CurrentIsScheduled, TableMatchesChain

(* The genesis block starts the schedule.                                  *)
LEMMA ScheduleInit == NoVoting /\ Init => ScheduleInv
<1> SUFFICES ASSUME NoVoting, Init PROVE ScheduleInv
  OBVIOUS
<1>1. chain = <<Genesis>> /\ hf_versions = <<Genesis.version>> /\ redo = 0
  BY DEF Init
<1>2. Genesis.version = Forks[1].version /\ Genesis.vote = Forks[1].version
      /\ Genesis.version \in Nat
  BY ForkVersions DEF Genesis
<1>3. current_fork_index = ScheduledIndex(1)
  <2>1. <<Genesis.version>> \in Seq(Version)
    BY <1>2, ForkVersions
  <2>2. Count(<<Genesis.version>>) \in [Version -> Nat]
    BY <2>1, CountType
  <2>3. 1 \in DOMAIN Forks /\ 1 <= ScheduledIndex(1)
    BY ForkVersions, ScheduledIs
  <2> QED
    BY <2>2, <2>3, RaisedIsScheduled DEF Init
<1>4. Len(chain) = 1 /\ DOMAIN chain = {1} /\ chain[1] = Genesis
      /\ hf_versions[1] = Genesis.version
  BY <1>1
<1>5. Forks[ScheduledIndex(1 - 1)].version = Forks[1].version
  BY ScheduledAtGenesis
<1> QED
  BY <1>1, <1>2, <1>3, <1>4, <1>5 DEF ScheduleInv, CurrentIsScheduled, TableMatchesChain

(* The votes counted after a block of a height the current fork is the     *)
(* scheduled one for.                                                      *)
LEMMA AddScheduled ==
  ASSUME NoVoting, WindowInv, NEW b \in ChainBlock, do_check(b),
         NEW h \in Nat, h <= Len(hf_versions), Add(b, h),
         current_fork_index = ScheduledIndex(h)
  PROVE  current_fork_index' = ScheduledIndex(h + 1)
<1>1. last_versions' \in [Version -> Nat]
  BY AddTaken, CountType
<1>2. h + 1 \in Nat /\ current_fork_index \in DOMAIN Forks
      /\ current_fork_index <= ScheduledIndex(h + 1)
  BY WindowFacts, ScheduledMonotonic
<1> QED
  BY <1>1, <1>2, AddTaken, RaisedIsScheduled

(* A block added at a height has the version scheduled there.              *)
LEMMA AddBlockScheduled ==
  ASSUME NoVoting, WindowInv, ScheduleInv, NEW vote \in Votes,
         AddBlock([version |-> get_current_version, vote |-> vote])
  PROVE  ScheduleInv'
<1> DEFINE b == [version |-> get_current_version, vote |-> vote]
           n == Len(chain)
<1>1. /\ chain' = Append(chain, b)
      /\ do_check(b) /\ Add(b, n) /\ redo = 0 /\ redo' = 0
  BY DEF AddBlock, Quiet
<1>2. b \in ChainBlock /\ b.version = get_current_version /\ b.vote >= b.version
  BY <1>1, WindowFacts, ForkAssumption DEF ChainBlock, do_check
<1>3. n \in Nat /\ n <= Len(hf_versions) /\ n >= 1
  BY WindowFacts
<1>4. current_fork_index = ScheduledIndex(n)
  BY <1>1, ScheduleFacts
<1> HIDE DEF b
<1>5. /\ Len(chain') = n + 1 /\ DOMAIN chain' = 1..(n + 1) /\ chain'[n + 1] = b
      /\ \A i \in 1..n : chain'[i] = chain[i]
  BY <1>1, <1>2, WindowFacts
<1> HIDE DEF n
<1>6. current_fork_index' = ScheduledIndex(n + 1)
  BY <1>1, <1>2, <1>3, <1>4, AddScheduled
<1>7. /\ hf_versions'[n + 1] = get_current_version
      /\ \A i \in 1..n : hf_versions'[i] = hf_versions[i]
  <2>1. /\ hf_versions'[n + 1] = get_current_version
        /\ \A i \in 1..Len(hf_versions) :
             i # n + 1 => hf_versions'[i] = hf_versions[i]
    BY <1>1, <1>2, <1>3, AddTaken
  <2>2. \A i \in 1..n : i \in 1..Len(hf_versions) /\ i # n + 1
    <3>1. Len(hf_versions) \in Nat
      BY WindowFacts
    <3> QED
      BY <1>3, <3>1
  <2> QED
    BY <2>1, <2>2
<1>8. ASSUME NEW i \in 1..(n + 1)
      PROVE  /\ chain'[i].version = Forks[ScheduledIndex(i - 1)].version
             /\ chain'[i].vote >= chain'[i].version
             /\ hf_versions'[i] = chain'[i].version
  <2>1. CASE i \in 1..n
    BY <1>5, <1>7, <2>1, ScheduleFacts DEF n
  <2>2. CASE i = n + 1
    <3>1. i - 1 = n
      BY <1>3, <2>2
    <3> QED
      BY <1>2, <1>4, <1>5, <1>7, <2>2, <3>1 DEF get_current_version
  <2> QED
    BY <1>3, <2>1, <2>2
<1> QED
  BY <1>1, <1>5, <1>6, <1>8 DEF ScheduleInv, CurrentIsScheduled, TableMatchesChain

(* A pop goes back to the version scheduled for the height it leaves free. *)
LEMMA PopBlockScheduled ==
  ASSUME NoVoting, WindowInv, ScheduleInv, PopBlock
  PROVE  ScheduleInv'
<1>1. /\ chain' = Front(chain) /\ on_block_popped /\ redo = 0
      /\ hf_versions' = hf_versions /\ redo' = 0
      /\ Len(chain) > 1
  BY WindowFacts DEF PopBlock, Quiet, WindowInv, SwitchOK
<1>2. /\ Len(chain') = Len(chain) - 1
      /\ DOMAIN chain' = 1..Len(chain')
      /\ \A i \in 1..Len(chain') : chain'[i] = chain[i]
  <2>1. chain \in Seq(ChainBlock) /\ chain # <<>>
    BY <1>1, WindowFacts
  <2>2. /\ chain' \in Seq(ChainBlock) /\ Len(chain') = Len(chain) - 1
        /\ \A i \in 1..Len(chain') : chain'[i] = chain[i]
    BY <1>1, <2>1, FrontProperties
  <2> QED
    BY <2>2
<1>3. current_fork_index' = ScheduledIndex(Len(chain'))
  BY <1>1, <1>2, Popped
<1>4. Len(chain) \in Nat /\ \A i \in 1..Len(chain') : i \in 1..Len(chain)
  BY <1>2, WindowFacts
<1>5. \A i \in 1..Len(chain') :
        /\ chain'[i].version = Forks[ScheduledIndex(i - 1)].version
        /\ chain'[i].vote >= chain'[i].version
        /\ hf_versions'[i] = chain'[i].version
  BY <1>1, <1>2, <1>4, ScheduleFacts
<1> QED
  BY <1>1, <1>2, <1>3, <1>5 DEF ScheduleInv, CurrentIsScheduled, TableMatchesChain

(* A block that is added again passes its check and is written as before.  *)
LEMMA AddAgainScheduled ==
  ASSUME NoVoting, WindowInv, ScheduleInv, AddAgain
  PROVE  ScheduleInv'
<1> DEFINE b == chain[redo + 1]
<1>1. /\ redo # 0 /\ redo \in Nat /\ redo + 1 \in 1..Len(chain)
      /\ Add(b, redo)
      /\ redo' = IF redo + 1 < Len(chain) THEN redo + 1 ELSE 0
      /\ chain' = chain
  BY WindowFacts DEF AddAgain, WindowInv, SwitchOK
<1>2. b \in ChainBlock /\ redo <= Len(hf_versions) /\ (redo + 1) - 1 = redo
  BY <1>1, WindowFacts
<1>3. current_fork_index = ScheduledIndex(redo)
  BY <1>1, ScheduleFacts
<1>4. b.version = Forks[ScheduledIndex(redo)].version /\ b.vote >= b.version
      /\ hf_versions[redo + 1] = b.version
  BY <1>1, <1>2, ScheduleFacts
<1>5. do_check(b) /\ b.version = get_current_version
  BY <1>3, <1>4 DEF do_check, get_current_version
<1> HIDE DEF b
<1>6. current_fork_index' = ScheduledIndex(redo + 1)
  BY <1>1, <1>2, <1>3, <1>5, AddScheduled
<1>7. \A i \in 1..Len(chain) : hf_versions'[i] = hf_versions[i]
  BY <1>1, <1>2, <1>4, <1>5, AddTaken, WindowFacts
<1>8. \A i \in 1..Len(chain') :
        /\ chain'[i].version = Forks[ScheduledIndex(i - 1)].version
        /\ chain'[i].vote >= chain'[i].version
        /\ hf_versions'[i] = chain'[i].version
  BY <1>1, <1>7, ScheduleFacts
<1>9. current_fork_index' = ScheduledIndex(IF redo' = 0 THEN Len(chain') ELSE redo')
  <2>1. Len(chain) \in Nat
    BY WindowFacts
  <2>2. (IF redo' = 0 THEN Len(chain') ELSE redo') = redo + 1
    BY <1>1, <2>1
  <2> QED
    BY <1>6, <2>2
<1>10. DOMAIN chain' = 1..Len(chain')
  BY <1>1, WindowFacts
<1> QED
  BY <1>8, <1>9, <1>10 DEF ScheduleInv, CurrentIsScheduled, TableMatchesChain

(* A fork whose version is not past that of another does not come after it. *)
LEMMA VersionOrdersForks ==
  ASSUME NEW m \in DOMAIN Forks, NEW n \in DOMAIN Forks,
         Forks[m].version <= Forks[n].version
  PROVE  m <= n
<1>1. m \in Nat /\ n \in Nat /\ Forks[m].version \in Nat /\ Forks[n].version \in Nat
  BY ForkVersions
<1>2. n < m => Forks[n].version < Forks[m].version
  BY ForkVersions
<1> QED
  BY <1>1, <1>2

(* A rescan starts from a fork that is not past the scheduled one.         *)
LEMMA RescanScheduled ==
  ASSUME NoVoting, WindowInv, ScheduleInv, RolledBack \/ EndSwitch
  PROVE  ScheduleInv'
<1> DEFINE start == IF split = 1 THEN original_version ELSE hf_versions[split]
           below == {1} \cup {m \in 1..current_fork_index :
                                Forks[m].version <= start}
           low   == Max(below)
<1>1. /\ split \in 1..Len(chain) /\ reorganize_from_chain_height(split)
      /\ chain' = chain /\ hf_versions' = hf_versions
  BY ForkAssumption DEF WindowInv, SwitchOK, RolledBack, EndSwitch, db
<1>2. /\ current_fork_index' =
           Raise(low, get_voted_fork_index(split, last_versions', low))
      /\ redo' = IF split < Len(chain) THEN split ELSE 0
  BY <1>1 DEF reorganize_from_chain_height
<1>3. low \in below /\ low \in DOMAIN Forks
  <2>1. below \in SUBSET Nat /\ below # {} /\ current_fork_index \in Nat
        /\ \A m \in below : m <= current_fork_index
    BY WindowFacts, ForkVersions
  <2>2. low \in below
    BY <2>1, MaxIs
  <2> QED
    BY <2>2, WindowFacts, ForkVersions
<1>4. split \in Nat /\ split >= 1 /\ Len(chain) \in Nat /\ split - 1 \in Nat
      /\ split <= Len(chain)
  BY <1>1, WindowFacts
<1>5. low = 1 \/ Forks[low].version <= start
  BY <1>3
<1> HIDE DEF low, below
<1>6. low <= ScheduledIndex(split)
  <2>1. CASE low = 1
    BY <1>4, <2>1, ScheduledIs
  <2>2. CASE split = 1 /\ Forks[low].version <= start
    <3>1. /\ original_version <= Forks[1].version
          /\ original_version \in Nat /\ Forks[1].version \in Nat
          /\ Forks[low].version \in Nat
      BY <1>3, ForkAssumption, ForkVersions
    <3>2. Forks[low].version <= Forks[1].version
      BY <2>2, <3>1
    <3>3. low <= 1 /\ low \in Nat
      BY <1>3, <3>2, VersionOrdersForks, ForkVersions
    <3>4. ScheduledIndex(split) >= 1 /\ ScheduledIndex(split) \in Nat
      BY <1>4, ScheduledIs
    <3> QED
      BY <3>3, <3>4
  <2>3. CASE split # 1 /\ Forks[low].version <= start
    <3>1. start = Forks[ScheduledIndex(split - 1)].version
      BY <1>1, <2>3, ScheduleFacts
    <3>2. ScheduledIndex(split - 1) \in DOMAIN Forks
      BY <1>4, ScheduledIs
    <3>3. low <= ScheduledIndex(split - 1)
      BY <1>3, <2>3, <3>1, <3>2, VersionOrdersForks
    <3>4. ScheduledIndex(split - 1) <= ScheduledIndex(split)
      BY <1>4, ScheduledMonotonic
    <3>5. low \in Nat /\ ScheduledIndex(split - 1) \in Nat
          /\ ScheduledIndex(split) \in Nat
      <4>1. low \in Nat
        BY <1>3, ForkVersions
      <4>2. ScheduledIndex(split - 1) \in Nat /\ ScheduledIndex(split) \in Nat
        BY <1>4, ScheduledIs
      <4> QED
        BY <4>1, <4>2
    <3> QED
      BY <3>3, <3>4, <3>5
  <2> QED
    BY <1>5, <2>1, <2>2, <2>3
<1>7. last_versions' \in [Version -> Nat]
  BY <1>1, Reorganized, CountType
<1>8. current_fork_index' = ScheduledIndex(split)
  BY <1>2, <1>3, <1>4, <1>6, <1>7, RaisedIsScheduled
<1>9. (IF redo' = 0 THEN Len(chain') ELSE redo') = split
  BY <1>1, <1>2, <1>4
<1>10. CurrentIsScheduled'
  BY <1>8, <1>9 DEF CurrentIsScheduled
<1> QED
  BY <1>1, <1>10 DEF ScheduleInv, TableMatchesChain

(* What init reads from the table is the version scheduled for the top     *)
(* block, from which the votes lead to the one scheduled for the next.     *)
LEMMA InitIndexScheduled ==
  ASSUME NoVoting, WindowInv, ScheduleInv
  PROVE  InitIndex = ScheduledIndex(Len(chain))
<1> DEFINE n     == Len(chain)
           found == {m \in DOMAIN Forks : Forks[m].version = hf_versions[n]}
           first == Min(found \cup {Len(Forks)})
           sched == ScheduledIndex(n - 1)
<1>1. InitIndex = Raise(first, get_voted_fork_index(n, Count(InitVersions), first))
  BY DEF InitIndex
<1>2. n \in Nat /\ n >= 1 /\ n - 1 \in Nat /\ n \in 1..Len(chain)
  BY WindowFacts
<1>3. sched \in DOMAIN Forks /\ hf_versions[n] = Forks[sched].version
  BY <1>2, ScheduledIs, ScheduleFacts
<1>4. sched \in found
  BY <1>3
<1>5. first \in found \cup {Len(Forks)} /\ first <= sched
  <2>1. found \cup {Len(Forks)} \in SUBSET Nat
    BY ForkVersions
  <2> QED
    BY <1>4, <2>1, MinIs
<1>6. first \in DOMAIN Forks
  BY <1>5, ForkVersions
<1> HIDE DEF first, found, sched
<1>7. first <= ScheduledIndex(n)
  <2>1. sched <= ScheduledIndex(n)
    BY <1>2, ScheduledMonotonic DEF sched
  <2>2. first \in Nat /\ sched \in Nat /\ ScheduledIndex(n) \in Nat
    <3>1. first \in Nat /\ sched \in Nat
      BY <1>3, <1>6, ForkVersions
    <3>2. ScheduledIndex(n) \in Nat
      BY <1>2, ScheduledIs
    <3> QED
      BY <3>1, <3>2
  <2> QED
    BY <1>5, <2>1, <2>2
<1>8. Count(InitVersions) \in [Version -> Nat]
  <2>1. InitVersions \in Seq(Version)
    BY <1>2, VotesBelow DEF InitVersions, InitFrom
  <2> QED
    BY <2>1, CountType
<1> HIDE DEF n
<1>9. InitIndex = ScheduledIndex(n)
  BY <1>1, <1>2, <1>6, <1>7, <1>8, RaisedIsScheduled
<1> QED
  BY <1>9 DEF n

(* A restart finds the scheduled version.                                  *)
LEMMA RestartScheduled ==
  ASSUME NoVoting, WindowInv, ScheduleInv, Restart
  PROVE  ScheduleInv'
<1>1. /\ chain' = chain /\ hf_versions' = hf_versions /\ redo = 0 /\ redo' = 0
      /\ current_fork_index' = InitIndex
  BY DEF Restart, db, Quiet
<1>2. current_fork_index' = ScheduledIndex(Len(chain))
  BY <1>1, InitIndexScheduled
<1> QED
  BY <1>1, <1>2 DEF ScheduleInv, CurrentIsScheduled, TableMatchesChain

(* Every step keeps to the schedule.                                       *)
LEMMA ScheduleStep ==
  WindowInv /\ ScheduleInv /\ [Next]_vars => ScheduleInv'
<1> SUFFICES ASSUME WindowInv, ScheduleInv, [Next]_vars PROVE ScheduleInv'
  OBVIOUS
<1>1. CASE ~ NoVoting
  BY <1>1 DEF ScheduleInv, CurrentIsScheduled, TableMatchesChain, NoVoting
<1>2. CASE NoVoting
  <2> USE DEF ScheduleInv, CurrentIsScheduled, TableMatchesChain
  <2>1. ASSUME NEW n \in 1..MaxHeight, BeginSwitch(n) PROVE ScheduleInv'
    BY <2>1 DEF BeginSwitch, db
  <2>2. CASE Disconnected \/ BeginRollback
    BY <2>2 DEF Disconnected, BeginRollback, db
  <2>3. CASE RestoreFails
    BY <2>3 DEF RestoreFails, db
  <2>4. CASE UNCHANGED vars
    BY <2>4 DEF vars
  <2> HIDE DEF ScheduleInv, CurrentIsScheduled, TableMatchesChain
  <2> QED
    BY <1>2, <2>1, <2>2, <2>3, <2>4, AddBlockScheduled, PopBlockScheduled,
       AddAgainScheduled, RescanScheduled, RestartScheduled DEF Next
<1> QED
  BY <1>1, <1>2

(* The block of height i - 1 has the version scheduled for it, and that is *)
(* the one the votes give for the height whatever they are.                *)
LEMMA AltCheck ==
  ASSUME WindowInv, ScheduleInv, Forks[1].height <= 1
  PROVE  AltCheckAgrees
<1> SUFFICES ASSUME NoVoting, NEW i \in 2..Len(chain)
             PROVE  do_check_for_height(chain[i], i - 1)
  BY DEF AltCheckAgrees
<1>1. i \in 1..Len(chain) /\ i - 1 \in Nat /\ i - 1 >= 1
  BY WindowFacts
<1>2. 1 \in Reached(i - 1)
  BY <1>1, ForkVersions DEF Reached
<1>3. last_versions \in [Version -> Nat] /\ current_fork_index \in DOMAIN Forks
  BY WindowFacts, CountType
<1>4. get_voted_fork_index(i - 1, last_versions, current_fork_index)
        = ScheduledIndex(i - 1)
  BY <1>1, <1>2, <1>3, VotedIsScheduled
<1> QED
  BY <1>1, <1>4, ScheduleFacts DEF do_check_for_height

-----------------------------------------------------------------------------
(* Both invariants hold of every behaviour.                                *)
LEMMA InvHolds == Spec => [](WindowInv /\ ScheduleInv)
<1>1. Init => WindowInv /\ ScheduleInv
  <2>1. Init /\ ~ NoVoting => ScheduleInv
    BY DEF ScheduleInv, CurrentIsScheduled, TableMatchesChain
  <2> QED
    BY <2>1, WindowInit, ScheduleInit
<1> QED
  BY <1>1, WindowStep, ScheduleStep, PTL DEF Spec

(* Every variable keeps its type, for every table of forks, window size    *)
(* and bound: no count of last_versions goes negative, and the window that *)
(* add trims and on_block_popped shifts has between one and window_size    *)
(* votes.                                                                  *)
THEOREM TypeCorrect == Spec => []TypeOK
BY InvHolds, WindowInvImplies, PTL

(* last_versions, which add, on_block_popped and the rescans update each   *)
(* in their own way, always counts the window it is read as a summary of.  *)
THEOREM CountsAreWindow == Spec => []CountsMatchWindow
BY InvHolds, WindowInvImplies, PTL

(* With no thresholds current_fork_index is the fork scheduled for the     *)
(* next height in every state, through pops, switches, rollbacks, rescans  *)
(* and restarts, although add can only raise it.                           *)
THEOREM VersionIsScheduled == Spec => []CurrentIsScheduled
<1>1. ScheduleInv => CurrentIsScheduled
  BY DEF ScheduleInv
<1> QED
  BY <1>1, InvHolds, PTL

(* With no thresholds the table of versions, which a pop leaves alone, has *)
(* the version of every block that is on the chain.                        *)
THEOREM TableIsChain == Spec => []TableMatchesChain
<1>1. ScheduleInv => TableMatchesChain
  BY DEF ScheduleInv
<1> QED
  BY <1>1, InvHolds, PTL

(* With no thresholds init finds the version that was in force before the  *)
(* daemon stopped.                                                         *)
THEOREM RestartIsNeutral == Spec => []RestartKeepsVersion
<1>1. WindowInv /\ ScheduleInv => RestartKeepsVersion
  BY InitIndexScheduled, ScheduleFacts DEF RestartKeepsVersion, Quiet
<1> QED
  BY <1>1, InvHolds, PTL

(* With no thresholds, and a first fork that is scheduled at height 0 or 1 *)
(* as in all tables of hardforks.cpp, check_for_height takes every block   *)
(* the main chain took.                                                    *)
THEOREM AltChecksAgree ==
  ASSUME Forks[1].height <= 1
  PROVE  Spec => []AltCheckAgrees
<1>1. WindowInv /\ ScheduleInv => AltCheckAgrees
  BY AltCheck
<1> QED
  BY <1>1, InvHolds, PTL
=============================================================================
