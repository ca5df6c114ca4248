------------------------ MODULE JobScheduler_proofs ------------------------
(***************************************************************************)
(* Proofs about the job scheduler for all jobs, limits, priorities and     *)
(* periods, with or without leader election.                               *)
(*                                                                         *)
(* TypeOK, CountersMatch, NoStrandedItem and ScheduledWithinLimits are     *)
(* inductive together.  The lemmas follow the code: what beginning and     *)
(* ending executions does to the slots and the counters, then what the     *)
(* finally block (Settle) does, then one step per action.  That a drain    *)
(* goes by priority follows from the same invariant, action by action; and *)
(* so does that no job is lost, with two facts about leadership.           *)
(***************************************************************************)
EXTENDS JobScheduler, FiniteSetTheorems, SequenceTheorems, WellFoundedInduction, TLAPS

Slots == [Execs -> Execution \cup {Idle}]

\* The two halves of the invariant, for given counters and slots.
Counts(cur, cnc, ex) ==
    /\ cur = Cardinality(Live(ex))
    /\ \A j \in Jobs : cnc[j] = Cardinality(LiveOf(ex, j))

Limits(ex) ==
    /\ Cardinality(Scheduled(ex)) <= MaxConcurrentJobs
    /\ \A j \in Jobs :
         Cardinality(Scheduled(ex) \cap LiveOf(ex, j)) <= MaxConcurrent[j]

-----------------------------------------------------------------------------
\* A finite nonempty set of numbers has a greatest member.
LEMMA Greatest ==
  ASSUME NEW n \in Nat, NEW I \in SUBSET (1..n), I # {}
  PROVE  \E i \in I : \A k \in I : k <= i
<1> DEFINE From(m) == {i \in I : i >= m}
           T       == {From(m) : m \in I}
<1>1. T \subseteq FiniteSubsetsOf(1..n) /\ T # {}
  <2>1. IsFiniteSet(1..n)
    BY FS_Interval
  <2>2. \A m \in I : From(m) \in SUBSET (1..n)
    OBVIOUS
  <2>3. \A m \in I : From(m) \in FiniteSubsetsOf(1..n)
    BY <2>1, <2>2, FS_Subset DEF FiniteSubsetsOf
  <2> QED BY <2>3
<1>2. PICK x \in T : \A y \in T : ~ (<<y, x>> \in StrictSubsetOrdering(1..n))
  <2> HIDE DEF T
  <2> QED BY <1>1, FS_StrictSubsetOrderingWellFounded, WFMin
<1>3. PICK i \in I : x = From(i)
  OBVIOUS
<1>4. ASSUME NEW k \in I, ~(k <= i) PROVE FALSE
  <2>1. From(k) \subseteq From(i) /\ From(k) # From(i)
    <3>1. i \in From(i) /\ i \notin From(k)
      BY <1>4
    <3>2. ASSUME NEW m \in From(k) PROVE m \in From(i)
      <4>1. m \in Int /\ k \in Int /\ i \in Int
        OBVIOUS
      <4> QED BY <1>4, <4>1
    <3> QED BY <3>1, <3>2
  <2>2. From(k) \in SUBSET (1..n) /\ From(i) \in SUBSET (1..n)
    OBVIOUS
  <2>3. <<From(k), x>> \in StrictSubsetOrdering(1..n)
    BY <1>3, <2>1, <2>2 DEF StrictSubsetOrdering
  <2> QED BY <1>2, <2>3
<1> QED BY <1>4

-----------------------------------------------------------------------------
\* Slots of Execs hold finitely many executions.
LEMMA SlotsFinite ==
  ASSUME NEW ex \in Slots
  PROVE  /\ Live(ex) \subseteq Execs
         /\ IsFiniteSet(Live(ex)) /\ Cardinality(Live(ex)) \in Nat
         /\ \A j \in Jobs : /\ LiveOf(ex, j) \subseteq Live(ex)
                            /\ IsFiniteSet(LiveOf(ex, j))
                            /\ Cardinality(LiveOf(ex, j)) \in Nat
                            /\ Cardinality(LiveOf(ex, j)) <= Cardinality(Live(ex))
<1>1. Live(ex) \subseteq Execs /\ IsFiniteSet(Live(ex)) /\ Cardinality(Live(ex)) \in Nat
  BY SchedulerAssumption, FS_Subset, FS_CardinalityType DEF Live
<1>2. ASSUME NEW j \in Jobs PROVE LiveOf(ex, j) \subseteq Live(ex)
  BY SchedulerAssumption DEF LiveOf, Live, Idle
<1>3. ASSUME NEW j \in Jobs
      PROVE  /\ IsFiniteSet(LiveOf(ex, j))
             /\ Cardinality(LiveOf(ex, j)) \in Nat
             /\ Cardinality(LiveOf(ex, j)) <= Cardinality(Live(ex))
  BY <1>1, <1>2, FS_Subset, FS_CardinalityType
<1> QED BY <1>1, <1>2, <1>3

\* The scheduled executions are among the live ones.
LEMMA ScheduledFinite ==
  ASSUME NEW ex \in Slots
  PROVE  /\ Scheduled(ex) \subseteq Live(ex)
         /\ IsFiniteSet(Scheduled(ex)) /\ Cardinality(Scheduled(ex)) \in Nat
         /\ Cardinality(Scheduled(ex)) <= Cardinality(Live(ex))
         /\ \A j \in Jobs :
              /\ IsFiniteSet(Scheduled(ex) \cap LiveOf(ex, j))
              /\ Cardinality(Scheduled(ex) \cap LiveOf(ex, j)) \in Nat
              /\ Cardinality(Scheduled(ex) \cap LiveOf(ex, j))
                   <= Cardinality(LiveOf(ex, j))
<1>1. Scheduled(ex) \subseteq Live(ex)
  BY DEF Scheduled
<1>2. IsFiniteSet(Scheduled(ex)) /\ Cardinality(Scheduled(ex)) \in Nat
      /\ Cardinality(Scheduled(ex)) <= Cardinality(Live(ex))
  BY <1>1, SlotsFinite, FS_Subset, FS_CardinalityType
<1>3. ASSUME NEW j \in Jobs
      PROVE  /\ IsFiniteSet(Scheduled(ex) \cap LiveOf(ex, j))
             /\ Cardinality(Scheduled(ex) \cap LiveOf(ex, j)) \in Nat
             /\ Cardinality(Scheduled(ex) \cap LiveOf(ex, j))
                  <= Cardinality(LiveOf(ex, j))
  <2>1. Scheduled(ex) \cap LiveOf(ex, j) \in SUBSET LiveOf(ex, j)
    OBVIOUS
  <2>2. IsFiniteSet(LiveOf(ex, j))
    BY SlotsFinite
  <2> QED BY <2>1, <2>2, FS_Subset, FS_CardinalityType
<1> QED BY <1>1, <1>2, <1>3

\* Sets that share nothing add up.
LEMMA DisjointUnion ==
  ASSUME NEW S, NEW T, IsFiniteSet(S), IsFiniteSet(T), S \cap T = {}
  PROVE  Cardinality(S \cup T) = Cardinality(S) + Cardinality(T)
<1>1. Cardinality(S \cup T) = Cardinality(S) + Cardinality(T) - Cardinality({})
  BY FS_Union
<1> QED BY <1>1, FS_EmptySet, FS_CardinalityType

-----------------------------------------------------------------------------
\* Executions that begin in free slots: the live ones and those of each job
\* grow by exactly the new ones.
LEMMA BeginCounts ==
  ASSUME NEW ex \in Slots, NEW S \in SUBSET Free(ex), NEW new \in [S -> Jobs],
         NEW by \in {"timer", "trigger"}
  PROVE  /\ Begin(ex, new, by) \in Slots
         /\ IsFiniteSet(S) /\ Cardinality(S) \in Nat
         /\ Live(Begin(ex, new, by)) = Live(ex) \cup S
         /\ Cardinality(Live(Begin(ex, new, by)))
              = Cardinality(Live(ex)) + Cardinality(S)
         /\ \A j \in Jobs :
              /\ Cardinality(SlotsOf(new, j)) \in Nat
              /\ LiveOf(Begin(ex, new, by), j)
                   = LiveOf(ex, j) \cup SlotsOf(new, j)
              /\ Cardinality(LiveOf(Begin(ex, new, by), j))
                   = Cardinality(LiveOf(ex, j))
                       + Cardinality(SlotsOf(new, j))
<1> DEFINE after == Begin(ex, new, by)
<1>1. S \subseteq Execs /\ DOMAIN new = S
  BY DEF Free
<1>2. \A e \in Execs : ex[e] \in Execution \cup {Idle}
  BY DEF Slots
<1>3. \A e \in S : after[e] = [job |-> new[e], stage |-> "starting", by |-> by]
                   /\ after[e] \in Execution /\ after[e] # Idle
                   /\ after[e].job = new[e]
  BY <1>1, SchedulerAssumption DEF Begin, Execution, Idle
<1>4. \A e \in Execs \ S : after[e] = ex[e]
  BY <1>1 DEF Begin
<1>5. after \in Slots
  <2>1. \A e \in Execs : after[e] \in Execution \cup {Idle}
    BY <1>2, <1>3, <1>4
  <2>2. after = [e \in Execs |-> after[e]]
    BY DEF Begin
  <2> QED BY <2>1, <2>2 DEF Slots
<1>6. IsFiniteSet(S) /\ Cardinality(S) \in Nat
  BY <1>1, SchedulerAssumption, FS_Subset, FS_CardinalityType
<1>7. Live(after) = Live(ex) \cup S /\ Live(ex) \cap S = {}
  <2> HIDE DEF after
  <2> QED BY <1>1, <1>3, <1>4 DEF Live, Free
<1>8. Cardinality(Live(after)) = Cardinality(Live(ex)) + Cardinality(S)
  BY <1>6, <1>7, SlotsFinite, DisjointUnion
<1>9. ASSUME NEW j \in Jobs
      PROVE  /\ Cardinality(SlotsOf(new, j)) \in Nat
             /\ LiveOf(after, j) = LiveOf(ex, j) \cup SlotsOf(new, j)
             /\ Cardinality(LiveOf(after, j)) = Cardinality(LiveOf(ex, j)) + Cardinality(SlotsOf(new, j))
  <2>1. IsFiniteSet(SlotsOf(new, j)) /\ Cardinality(SlotsOf(new, j)) \in Nat
    <3>1. SlotsOf(new, j) \in SUBSET S
      BY <1>1 DEF SlotsOf
    <3> QED BY <3>1, <1>6, FS_Subset, FS_CardinalityType
  <2>2. LiveOf(after, j) = LiveOf(ex, j) \cup SlotsOf(new, j) /\ LiveOf(ex, j) \cap SlotsOf(new, j) = {}
    <3>1. LiveOf(ex, j) \subseteq Live(ex)
      BY SlotsFinite
    <3>2. LiveOf(ex, j) \cap S = {}
      BY <3>1, <1>7
    <3> HIDE DEF after
    <3> QED BY <1>1, <1>3, <1>4, <3>2 DEF LiveOf, SlotsOf
  <2> QED BY <2>1, <2>2, SlotsFinite, DisjointUnion
<1> QED BY <1>5, <1>6, <1>7, <1>8, <1>9

\* Start keeps the counters equal to the executions in flight.
LEMMA StartCounts ==
  ASSUME NEW ex \in Slots, NEW cur, NEW cnc, Counts(cur, cnc, ex),
         NEW S \in SUBSET Free(ex), NEW new \in [S -> Jobs],
         Start(cur, cnc, ex, new)
  PROVE  /\ exec' \in Slots /\ Counts(current', conc', exec')
         /\ current' \in Int /\ conc' \in [Jobs -> Int]
<1>1. DOMAIN new = S
  OBVIOUS
<1>2. /\ exec' = Begin(ex, new, "timer")
      /\ current' = cur + Cardinality(S)
      /\ conc' = [j \in Jobs |-> cnc[j] + Cardinality(SlotsOf(new, j))]
  BY <1>1 DEF Start
<1>3. exec' \in Slots
  BY <1>2, BeginCounts
<1>4. Counts(current', conc', exec')
  BY <1>2, BeginCounts DEF Counts
<1>5. current' \in Int /\ \A j \in Jobs : conc'[j] \in Int
  BY <1>3, <1>4, SlotsFinite DEF Counts
<1> QED BY <1>2, <1>3, <1>4, <1>5

\* An execution that ends gives its slot and its counts back.
LEMMA EndCounts ==
  ASSUME NEW ex \in Slots, NEW e \in Live(ex)
  PROVE  /\ ex[e].job \in Jobs
         /\ [ex EXCEPT ![e] = Idle] \in Slots
         /\ Live([ex EXCEPT ![e] = Idle]) = Live(ex) \ {e}
         /\ Cardinality(Live([ex EXCEPT ![e] = Idle])) = Cardinality(Live(ex)) - 1
         /\ \A j \in Jobs :
              /\ LiveOf([ex EXCEPT ![e] = Idle], j) = LiveOf(ex, j) \ {e}
              /\ Cardinality(LiveOf([ex EXCEPT ![e] = Idle], j))
                   = IF j = ex[e].job THEN Cardinality(LiveOf(ex, j)) - 1
                                      ELSE Cardinality(LiveOf(ex, j))
<1> DEFINE after == [ex EXCEPT ![e] = Idle]
<1>1. e \in Execs /\ ex[e] # Idle /\ ex[e] \in Execution
  BY DEF Live, Slots
<1>2. ex[e].job \in Jobs
  BY <1>1 DEF Execution
<1>3. after \in Slots
  BY <1>1 DEF Slots
<1>4. Live(after) = Live(ex) \ {e}
  BY <1>1 DEF Live, Slots
<1>5. Cardinality(Live(after)) = Cardinality(Live(ex)) - 1
  BY <1>4, SlotsFinite, FS_RemoveElement
<1>6. ASSUME NEW j \in Jobs
      PROVE  /\ LiveOf(after, j) = LiveOf(ex, j) \ {e}
             /\ Cardinality(LiveOf(after, j))
                  = IF j = ex[e].job THEN Cardinality(LiveOf(ex, j)) - 1
                                     ELSE Cardinality(LiveOf(ex, j))
  <2>1. LiveOf(after, j) = LiveOf(ex, j) \ {e}
    <3>1. Idle.job # j
      BY SchedulerAssumption DEF Idle
    <3> QED BY <1>1, <3>1 DEF LiveOf, Slots
  <2>2. e \in LiveOf(ex, j) <=> j = ex[e].job
    BY <1>1 DEF LiveOf
  <2> QED BY <2>1, <2>2, SlotsFinite, FS_RemoveElement
<1> QED BY <1>2, <1>3, <1>4, <1>5, <1>6

\* Ending one never breaks the limits.
LEMMA EndLimits ==
  ASSUME NEW ex \in Slots, NEW e \in Live(ex), Limits(ex)
  PROVE  Limits([ex EXCEPT ![e] = Idle])
<1> DEFINE after == [ex EXCEPT ![e] = Idle]
<1>1. after \in Slots
  BY EndCounts
<1>2. Scheduled(after) \subseteq Scheduled(ex)
  <2>1. Live(after) = Live(ex) \ {e}
    BY EndCounts
  <2>2. \A f \in Execs \ {e} : after[f] = ex[f]
    BY DEF Slots
  <2> HIDE DEF after
  <2> QED BY <2>1, <2>2 DEF Scheduled, Live
<1>3. Cardinality(Scheduled(after)) <= Cardinality(Scheduled(ex))
  BY <1>2, ScheduledFinite, FS_Subset
<1>4. ASSUME NEW j \in Jobs
      PROVE  Cardinality(Scheduled(after) \cap LiveOf(after, j))
               <= Cardinality(Scheduled(ex) \cap LiveOf(ex, j))
  <2>1. LiveOf(after, j) \subseteq LiveOf(ex, j)
    BY EndCounts
  <2>2. Scheduled(after) \cap LiveOf(after, j) \in SUBSET (Scheduled(ex) \cap LiveOf(ex, j))
    BY <1>2, <2>1
  <2>3. IsFiniteSet(Scheduled(ex) \cap LiveOf(ex, j))
    BY ScheduledFinite
  <2> HIDE DEF after
  <2> QED BY <2>2, <2>3, FS_Subset
<1> HIDE DEF after
<1>5. /\ Cardinality(Scheduled(after)) \in Nat /\ Cardinality(Scheduled(ex)) \in Nat
      /\ \A j \in Jobs :
           /\ Cardinality(Scheduled(after) \cap LiveOf(after, j)) \in Nat
           /\ Cardinality(Scheduled(ex) \cap LiveOf(ex, j)) \in Nat
  BY <1>1, ScheduledFinite
<1>6. MaxConcurrentJobs \in Nat /\ \A j \in Jobs : MaxConcurrent[j] \in Nat
  BY SchedulerAssumption
<1>7. Limits(after)
  <2>1. Cardinality(Scheduled(after)) <= MaxConcurrentJobs
    BY <1>3, <1>5, <1>6 DEF Limits
  <2>2. ASSUME NEW j \in Jobs
        PROVE  Cardinality(Scheduled(after) \cap LiveOf(after, j)) <= MaxConcurrent[j]
    <3>1. Cardinality(Scheduled(ex) \cap LiveOf(ex, j)) <= MaxConcurrent[j]
      BY DEF Limits
    <3>2. /\ Cardinality(Scheduled(after) \cap LiveOf(after, j)) \in Nat
          /\ Cardinality(Scheduled(ex) \cap LiveOf(ex, j)) \in Nat
          /\ MaxConcurrent[j] \in Nat
      BY <1>5, <1>6
    <3>3. Cardinality(Scheduled(after) \cap LiveOf(after, j))
            <= Cardinality(Scheduled(ex) \cap LiveOf(ex, j))
      BY <1>4
    <3> QED BY <3>1, <3>2, <3>3
  <2> QED BY <2>1, <2>2 DEF Limits
<1> QED BY <1>7 DEF after

\* The scheduler's own executions keep to the limits when room is left for the
\* new ones: in all for some, and per job for those of the job.
LEMMA BeginLimits ==
  ASSUME NEW ex \in Slots, NEW S \in SUBSET Free(ex), NEW new \in [S -> Jobs],
         Limits(ex),
         S # {} => Cardinality(Live(ex)) + Cardinality(S) <= MaxConcurrentJobs,
         \A j \in Jobs :
           SlotsOf(new, j) # {} =>
             Cardinality(LiveOf(ex, j)) + Cardinality(SlotsOf(new, j))
               <= MaxConcurrent[j]
  PROVE  Limits(Begin(ex, new, "timer"))
<1> DEFINE after == Begin(ex, new, "timer")
<1>1. /\ after \in Slots
      /\ Cardinality(Live(after)) = Cardinality(Live(ex)) + Cardinality(S)
      /\ Live(after) = Live(ex) \cup S
  BY BeginCounts
<1>2. \A j \in Jobs :
        /\ LiveOf(after, j) = LiveOf(ex, j) \cup SlotsOf(new, j)
        /\ Cardinality(LiveOf(after, j)) = Cardinality(LiveOf(ex, j)) + Cardinality(SlotsOf(new, j))
  BY BeginCounts
<1>3. \A e \in Execs \ S : after[e] = ex[e]
  BY DEF Begin
<1>4. Cardinality(Scheduled(after)) <= MaxConcurrentJobs
  <2>1. CASE S = {}
    <3>1. Scheduled(after) = Scheduled(ex)
      <4> HIDE DEF after
      <4> QED BY <1>1, <1>3, <2>1 DEF Scheduled, Live
    <3> QED BY <3>1 DEF Limits
  <2>2. CASE S # {}
    <3>1. Cardinality(Scheduled(after)) <= Cardinality(Live(after))
      BY <1>1, ScheduledFinite
    <3>2. Cardinality(Scheduled(after)) \in Nat /\ Cardinality(Live(after)) \in Nat
      BY <1>1, ScheduledFinite, SlotsFinite
    <3>3. Cardinality(Live(after)) <= MaxConcurrentJobs
      BY <1>1, <2>2
    <3> HIDE DEF after
    <3> QED BY <3>1, <3>2, <3>3, SchedulerAssumption
  <2> QED BY <2>1, <2>2
<1>5. ASSUME NEW j \in Jobs
      PROVE  Cardinality(Scheduled(after) \cap LiveOf(after, j)) <= MaxConcurrent[j]
  <2>1. CASE SlotsOf(new, j) = {}
    <3>1. LiveOf(after, j) = LiveOf(ex, j) /\ LiveOf(ex, j) \subseteq Live(ex)
      BY <1>2, <2>1, SlotsFinite
    <3>2. \A e \in Live(ex) : e \in Execs \ S
      BY DEF Free, Live
    <3>3. Scheduled(after) \cap LiveOf(after, j) = Scheduled(ex) \cap LiveOf(ex, j)
      <4> HIDE DEF after
      <4> QED BY <1>1, <1>3, <3>1, <3>2 DEF Scheduled
    <3> QED BY <3>3 DEF Limits
  <2>2. CASE SlotsOf(new, j) # {}
    <3>1. Cardinality(Scheduled(after) \cap LiveOf(after, j)) <= Cardinality(LiveOf(after, j))
      BY <1>1, ScheduledFinite
    <3>2. /\ Cardinality(Scheduled(after) \cap LiveOf(after, j)) \in Nat
          /\ Cardinality(LiveOf(after, j)) \in Nat
      BY <1>1, ScheduledFinite, SlotsFinite
    <3>3. Cardinality(LiveOf(after, j)) <= MaxConcurrent[j]
      BY <1>2, <2>2
    <3>4. MaxConcurrent[j] \in Nat
      BY SchedulerAssumption
    <3> HIDE DEF after
    <3> QED BY <3>1, <3>2, <3>3, <3>4
  <2> QED BY <2>1, <2>2
<1> QED BY <1>4, <1>5 DEF Limits

-----------------------------------------------------------------------------
\* What a drain that takes n items of s starts.
LEMMA StartsNat ==
  ASSUME NEW s, NEW n \in Nat
  PROVE  /\ IsFiniteSet({i \in 1..n : s[i] \in states})
         /\ StartsIn(s, n) \in Nat
         /\ \A k \in Jobs : IsFiniteSet({i \in 1..n : s[i] = k /\ k \in states})
                            /\ StartsOf(s, n, k) \in Nat
<1>1. IsFiniteSet(1..n)
  BY FS_Interval
<1>2. {i \in 1..n : s[i] \in states} \in SUBSET (1..n)
  OBVIOUS
<1>3. \A k \in Jobs : {i \in 1..n : s[i] = k /\ k \in states} \in SUBSET (1..n)
  OBVIOUS
<1>4. IsFiniteSet({i \in 1..n : s[i] \in states}) /\ StartsIn(s, n) \in Nat
  BY <1>1, <1>2, FS_Subset, FS_CardinalityType DEF StartsIn
<1>5. ASSUME NEW k \in Jobs
      PROVE  IsFiniteSet({i \in 1..n : s[i] = k /\ k \in states})
             /\ StartsOf(s, n, k) \in Nat
  BY <1>1, <1>3, FS_Subset, FS_CardinalityType DEF StartsOf
<1> QED BY <1>4, <1>5

\* When the drain starts something, the global limit has room for all of it:
\* look at the last item it started.
LEMMA DrainHasRoom ==
  ASSUME NEW s, NEW n \in Nat, NEW cur \in Int, NEW cnc,
         \A i \in 1..n : Taken(s, i, cur, cnc),
         StartsIn(s, n) # 0
  PROVE  cur + StartsIn(s, n) <= MaxConcurrentJobs
<1> DEFINE I(m) == {i \in 1..m : s[i] \in states}
<1>1. IsFiniteSet(I(n)) /\ I(n) \in SUBSET (1..n)
  BY StartsNat
<1>2. I(n) # {}
  BY FS_EmptySet DEF StartsIn
<1>3. PICK l \in I(n) : \A k \in I(n) : k <= l
  <2> HIDE DEF I
  <2> QED BY <1>1, <1>2, Greatest
<1>4. l \in 1..n /\ l \in Int /\ l - 1 \in Nat
  OBVIOUS
<1>5. I(n) = I(l - 1) \cup {l} /\ l \notin I(l - 1)
  <2>1. ASSUME NEW k \in I(n) PROVE k \in I(l - 1) \cup {l}
    <3>1. k \in Int /\ k <= l /\ 1 <= k /\ s[k] \in states
      BY <1>3
    <3> QED BY <1>4, <3>1
  <2>2. ASSUME NEW k \in I(l - 1) PROVE k \in I(n)
    <3>1. k \in Int /\ 1 <= k /\ k <= l - 1 /\ s[k] \in states
      BY <1>4
    <3> QED BY <1>4, <3>1
  <2>3. l \notin I(l - 1)
    BY <1>4
  <2> QED BY <2>1, <2>2, <2>3
<1>6. StartsIn(s, n) = StartsIn(s, l - 1) + 1 /\ StartsIn(s, l - 1) \in Nat
  <2>1. IsFiniteSet(I(l - 1)) /\ Cardinality(I(l - 1)) \in Nat
    BY <1>4, StartsNat DEF StartsIn
  <2>2. Cardinality(I(l - 1) \cup {l}) = Cardinality(I(l - 1)) + 1
    <3> HIDE DEF I
    <3> QED BY <1>5, <2>1, FS_AddElement
  <2> QED BY <1>5, <2>1, <2>2 DEF StartsIn
<1>7. cur + StartsIn(s, l - 1) < MaxConcurrentJobs
  BY <1>4 DEF Taken, Room
<1> QED BY <1>6, <1>7, SchedulerAssumption

\* The same for the limit of each job it starts.
LEMMA DrainHasRoomFor ==
  ASSUME NEW s, NEW n \in Nat, NEW cur \in Int, NEW cnc \in [Jobs -> Int],
         \A i \in 1..n : Taken(s, i, cur, cnc),
         NEW j \in Jobs, StartsOf(s, n, j) # 0
  PROVE  cnc[j] + StartsOf(s, n, j) <= MaxConcurrent[j]
<1> DEFINE I(m) == {i \in 1..m : s[i] = j /\ j \in states}
<1>1. IsFiniteSet(I(n)) /\ I(n) \in SUBSET (1..n)
  BY StartsNat
<1>2. I(n) # {}
  BY FS_EmptySet DEF StartsOf
<1>3. PICK l \in I(n) : \A k \in I(n) : k <= l
  <2> HIDE DEF I
  <2> QED BY <1>1, <1>2, Greatest
<1>4. l \in 1..n /\ l \in Int /\ l - 1 \in Nat /\ s[l] = j /\ j \in states
  OBVIOUS
<1>5. I(n) = I(l - 1) \cup {l} /\ l \notin I(l - 1)
  <2>1. ASSUME NEW k \in I(n) PROVE k \in I(l - 1) \cup {l}
    <3>1. k \in Int /\ k <= l /\ 1 <= k /\ s[k] = j
      BY <1>3
    <3> QED BY <1>4, <3>1
  <2>2. ASSUME NEW k \in I(l - 1) PROVE k \in I(n)
    <3>1. k \in Int /\ 1 <= k /\ k <= l - 1 /\ s[k] = j
      BY <1>4
    <3> QED BY <1>4, <3>1
  <2>3. l \notin I(l - 1)
    BY <1>4
  <2> QED BY <1>4, <2>1, <2>2, <2>3
<1>6. StartsOf(s, n, j) = StartsOf(s, l - 1, j) + 1 /\ StartsOf(s, l - 1, j) \in Nat
  <2>1. IsFiniteSet(I(l - 1)) /\ Cardinality(I(l - 1)) \in Nat
    BY <1>4, StartsNat DEF StartsOf
  <2>2. Cardinality(I(l - 1) \cup {l}) = Cardinality(I(l - 1)) + 1
    <3> HIDE DEF I
    <3> QED BY <1>5, <2>1, FS_AddElement
  <2> QED BY <1>5, <2>1, <2>2 DEF StartsOf
<1>7. cnc[j] + StartsOf(s, l - 1, j) < MaxConcurrent[j]
  BY <1>4 DEF Taken, Room
<1> QED BY <1>6, <1>7, SchedulerAssumption

-----------------------------------------------------------------------------
\* The inductive invariant, in three parts.
Timed(tm, en) ==
    /\ tm \in [Jobs -> Nat \cup {Off}]
    /\ en \in [Jobs -> BOOLEAN]

TimersOK == nextRun \in [Jobs -> Nat] /\ Timed(timer, enabled)

RunsOK ==
    /\ pending \in Seq(Jobs)
    /\ current \in Int /\ conc \in [Jobs -> Int]
    /\ exec \in Slots
    /\ Counts(current, conc, exec)
    /\ Limits(exec)
    /\ NoStrandedItem

StatusOK ==
    /\ jobs \subseteq created /\ created \subseteq Jobs /\ states \subseteq Jobs
    /\ started \in BOOLEAN
    /\ phase \in {"up", "draining", "closing", "down"}
    /\ leader \in BOOLEAN /\ stepping \in BOOLEAN

IInv == TimersOK /\ RunsOK /\ StatusOK

\* A job of which something runs makes the number of live executions positive.
LEMMA JobRunning ==
  ASSUME NEW ex \in Slots, NEW cur, NEW cnc, Counts(cur, cnc, ex),
         NEW j \in Jobs, cnc[j] > 0
  PROVE  cur > 0
BY SlotsFinite DEF Counts

LEMMA RearmTyped ==
  ASSUME nextRun \in [Jobs -> Nat], NEW tm, NEW en, Timed(tm, en), NEW F,
         Rearm(F, tm, en)
  PROVE  TimersOK'
<1>1. \A j \in Jobs : Period[j] \in Nat /\ Delay(Period[j]) \in Nat
  BY SchedulerAssumption DEF Delay
<1>2. nextRun' \in [Jobs -> Nat]
  BY <1>1 DEF Rearm
<1>3. timer' \in [Jobs -> Nat \cup {Off}]
  BY <1>1 DEF Rearm, Timed
<1>4. enabled' \in [Jobs -> BOOLEAN]
  BY DEF Rearm, Timed
<1> QED BY <1>2, <1>3, <1>4 DEF TimersOK, Timed

\* The finally block: whatever it drains fits the limits, and it leaves nothing
\* in the queue with nobody to come back for it.
LEMMA SettleOK ==
  ASSUME pending \in Seq(Jobs), nextRun \in [Jobs -> Nat], NEW j \in Jobs,
         NEW tm, NEW en, Timed(tm, en),
         NEW ex \in Slots, NEW cur \in Int, NEW cnc \in [Jobs -> Int],
         Counts(cur, cnc, ex), Limits(ex),
         Settle(j, tm, en, cur, cnc, ex)
  PROVE  TimersOK' /\ RunsOK'
<1>1. PICK s \in [1..Len(pending) -> Jobs], n \in 0..Len(pending) :
        /\ Takes(s, n, cur, cnc)
        /\ pending' = SubSeq(s, n + 1, Len(s))
        /\ Rearm({j} \cup ({s[i] : i \in 1..n} \ states), tm, en)
        /\ \E S \in SUBSET Free(ex) : \E new \in [S -> Jobs] :
             /\ \A k \in Jobs : Cardinality(SlotsOf(new, k)) = StartsOf(s, n, k)
             /\ Cardinality(S) = StartsIn(s, n)
             /\ Start(cur, cnc, ex, new)
  BY DEF Settle
<1>a. PICK S \in SUBSET Free(ex) : \E new \in [S -> Jobs] :
        /\ \A k \in Jobs : Cardinality(SlotsOf(new, k)) = StartsOf(s, n, k)
        /\ Cardinality(S) = StartsIn(s, n)
        /\ Start(cur, cnc, ex, new)
  BY <1>1
<1>2. PICK new \in [S -> Jobs] :
        /\ \A k \in Jobs : Cardinality(SlotsOf(new, k)) = StartsOf(s, n, k)
        /\ Cardinality(S) = StartsIn(s, n)
        /\ Start(cur, cnc, ex, new)
  BY <1>a
<1>3. Len(pending) \in Nat /\ n \in Nat
  BY LenProperties
<1>4. s \in Seq(Jobs) /\ Len(s) = Len(pending)
  <2>1. s \in Seq(Jobs)
    <3>1. [1..Len(pending) -> Jobs] \in {[1..m -> Jobs] : m \in Nat}
      BY <1>3
    <3>2. s \in UNION {[1..m -> Jobs] : m \in Nat}
      BY <3>1
    <3> QED BY <3>2, SeqDef
  <2>2. Len(s) \in Nat /\ 1..Len(s) = 1..Len(pending)
    BY <2>1, LenProperties
  <2> QED BY <1>3, <2>1, <2>2
<1>5. TimersOK'
  BY <1>1, RearmTyped
<1>6. pending' \in Seq(Jobs) /\ (pending' # << >> => n < Len(s))
  <2>1. \A i \in (n + 1)..Len(s) : s[i] \in Jobs
    BY <1>3, <1>4
  <2>2. pending' \in Seq(Jobs)
    BY <1>1, <1>3, <1>4, <2>1, SubSeqProperties
  <2>3. ~(n < Len(s)) => pending' = << >>
    BY <1>1, <1>3, <1>4, SubSeqEmpty
  <2> QED BY <2>2, <2>3
<1>7. /\ exec' \in Slots /\ Counts(current', conc', exec')
      /\ current' \in Int /\ conc' \in [Jobs -> Int]
  BY <1>2, StartCounts
<1>8. DOMAIN new = S /\ exec' = Begin(ex, new, "timer")
      /\ current' = cur + StartsIn(s, n)
      /\ \A k \in Jobs : conc'[k] = cnc[k] + StartsOf(s, n, k)
  BY <1>2 DEF Start
<1>9. \A i \in 1..n : Taken(s, i, cur, cnc)
  BY <1>1 DEF Takes
<1>10. Limits(exec')
  <2>1. ASSUME S # {}
        PROVE  Cardinality(Live(ex)) + Cardinality(S) <= MaxConcurrentJobs
    <3>1. StartsIn(s, n) # 0
      BY <1>2, <2>1, BeginCounts, FS_EmptySet
    <3>2. cur + StartsIn(s, n) <= MaxConcurrentJobs
      BY <1>3, <1>9, <3>1, DrainHasRoom
    <3> QED BY <1>2, <3>2 DEF Counts
  <2>2. ASSUME NEW k \in Jobs, SlotsOf(new, k) # {}
        PROVE  Cardinality(LiveOf(ex, k)) + Cardinality(SlotsOf(new, k))
                 <= MaxConcurrent[k]
    <3>1. StartsOf(s, n, k) # 0
      <4>1. IsFiniteSet(S) /\ SlotsOf(new, k) \in SUBSET S
        BY <1>8, BeginCounts DEF SlotsOf
      <4> QED BY <1>2, <2>2, <4>1, FS_Subset, FS_EmptySet
    <3>2. cnc[k] + StartsOf(s, n, k) <= MaxConcurrent[k]
      BY <1>3, <1>9, <3>1, DrainHasRoomFor
    <3> QED BY <1>2, <3>2 DEF Counts
  <2> QED BY <1>8, <2>1, <2>2, BeginLimits
<1>11. NoStrandedItem'
  <2> SUFFICES ASSUME pending' # << >> PROVE current' > 0
    BY DEF NoStrandedItem
  <2> DEFINE k == s[n + 1]
  <2>1. n < Len(s) /\ ~Taken(s, n + 1, cur, cnc)
    BY <1>1, <1>6 DEF Takes
  <2>a. k \in Jobs
    <3>1. n + 1 \in 1..Len(pending)
      BY <1>3, <1>4, <2>1
    <3> QED BY <3>1
  <2>2. (n + 1) - 1 = n
    BY <1>3
  <2>3. ~Room(k, current', conc'[k])
    BY <1>8, <2>1, <2>2, <2>a DEF Taken
  <2> HIDE DEF k
  <2>4. CASE ~(current' < MaxConcurrentJobs)
    BY <1>7, <2>4, SchedulerAssumption
  <2>5. CASE ~(conc'[k] < MaxConcurrent[k])
    <3>1. conc'[k] \in Int /\ MaxConcurrent[k] \in Nat \ {0}
      BY <1>7, <2>a, SchedulerAssumption
    <3>2. conc'[k] > 0
      BY <2>5, <3>1
    <3> QED BY <1>7, <2>a, <3>2, JobRunning
  <2> QED BY <2>3, <2>4, <2>5 DEF Room
<1> QED BY <1>5, <1>6, <1>7, <1>10, <1>11 DEF RunsOK

-----------------------------------------------------------------------------
\* One step per piece of the scheduler.

\* An execution begins in a free slot: within the limits when it is the
\* scheduler's own and was given room.
LEMMA ExecuteJobOK ==
  ASSUME TimersOK, RunsOK, NEW j \in Jobs, NEW tm, NEW en, Timed(tm, en),
         NEW by \in {"timer", "trigger"},
         by = "timer" => Room(j, current, conc[j]),
         ExecuteJob(j, tm, en, by)
  PROVE  TimersOK' /\ RunsOK'
<1>1. CASE j \notin states
  BY <1>1, SettleOK DEF ExecuteJob, TimersOK, RunsOK
<1>2. CASE j \in states
  <2>1. PICK e \in Free(exec) :
          exec' = [exec EXCEPT ![e] = [job |-> j, stage |-> "starting", by |-> by]]
    BY <1>2 DEF ExecuteJob
  <2>2. /\ current' = current + 1
        /\ conc' = [conc EXCEPT ![j] = @ + 1]
        /\ pending' = pending
        /\ TimersOK'
    BY <1>2 DEF ExecuteJob, TimersOK, Timed
  <2> DEFINE new == [f \in {e} |-> j]
  <2>3. {e} \in SUBSET Free(exec) /\ new \in [{e} -> Jobs]
    OBVIOUS
  <2>4. exec' = Begin(exec, new, by)
    <3>1. e \in Execs
      BY DEF Free
    <3> QED BY <2>1, <3>1 DEF Begin, RunsOK, Slots
  <2>5. /\ SlotsOf(new, j) = {e}
        /\ \A k \in Jobs \ {j} : SlotsOf(new, k) = {}
    BY DEF SlotsOf
  <2> HIDE DEF new
  <2>6. /\ exec' \in Slots
        /\ Cardinality(Live(exec')) = Cardinality(Live(exec)) + Cardinality({e})
        /\ \A k \in Jobs : Cardinality(LiveOf(exec', k))
                            = Cardinality(LiveOf(exec, k)) + Cardinality(SlotsOf(new, k))
    <3>1. /\ Begin(exec, new, by) \in Slots
          /\ Cardinality(Live(Begin(exec, new, by)))
               = Cardinality(Live(exec)) + Cardinality({e})
          /\ \A k \in Jobs : Cardinality(LiveOf(Begin(exec, new, by), k))
               = Cardinality(LiveOf(exec, k)) + Cardinality(SlotsOf(new, k))
      <4>1. exec \in Slots
        BY DEF RunsOK
      <4> QED BY <2>3, <4>1, BeginCounts
    <3> QED BY <2>4, <3>1
  <2>7. Counts(current', conc', exec')
    <3>1. current' = Cardinality(Live(exec'))
      BY <2>2, <2>6, FS_Singleton DEF Counts, RunsOK
    <3>2. ASSUME NEW k \in Jobs PROVE conc'[k] = Cardinality(LiveOf(exec', k))
      <4>1. Cardinality(SlotsOf(new, k)) = IF k = j THEN 1 ELSE 0
        BY <2>5, FS_Singleton, FS_EmptySet
      <4>2. Cardinality(LiveOf(exec, k)) = conc[k] /\ conc[k] \in Int
        BY DEF RunsOK, Counts
      <4> QED BY <2>2, <2>6, <4>1, <4>2 DEF RunsOK
    <3> QED BY <3>1, <3>2 DEF Counts
  <2>8. Limits(exec')
    <3>1. CASE by = "timer"
      <4>1. current < MaxConcurrentJobs /\ conc[j] < MaxConcurrent[j]
        BY <3>1 DEF Room
      <4>2. Cardinality(Live(exec)) + Cardinality({e}) <= MaxConcurrentJobs
        <5>1. Cardinality({e}) = 1 /\ current \in Int
              /\ current = Cardinality(Live(exec)) /\ MaxConcurrentJobs \in Nat
          BY FS_Singleton, SchedulerAssumption DEF RunsOK, Counts
        <5> QED BY <4>1, <5>1
      <4>3. ASSUME NEW k \in Jobs, SlotsOf(new, k) # {}
            PROVE  Cardinality(LiveOf(exec, k)) + Cardinality(SlotsOf(new, k))
                     <= MaxConcurrent[k]
        <5>1. k = j /\ Cardinality(SlotsOf(new, k)) = 1
          BY <2>5, <4>3, FS_Singleton
        <5>2. conc[j] \in Int /\ MaxConcurrent[j] \in Nat
              /\ conc[j] = Cardinality(LiveOf(exec, j))
          BY SchedulerAssumption DEF RunsOK, Counts
        <5> QED BY <4>1, <5>1, <5>2
      <4> QED BY <2>3, <2>4, <3>1, <4>2, <4>3, BeginLimits DEF RunsOK
    <3>2. CASE by = "trigger"
      <4>1. Scheduled(exec') = Scheduled(exec)
        BY <2>1, <3>2 DEF Scheduled, Live, Free, RunsOK, Slots, Idle
      <4>2. ASSUME NEW k \in Jobs
            PROVE  Scheduled(exec') \cap LiveOf(exec', k) = Scheduled(exec) \cap LiveOf(exec, k)
        <5>1. e \notin Scheduled(exec)
          BY DEF Scheduled, Free
        <5> QED BY <2>1, <4>1, <5>1 DEF LiveOf, RunsOK, Slots
      <4> QED BY <4>1, <4>2 DEF Limits, RunsOK
    <3> QED BY <3>1, <3>2
  <2>9. NoStrandedItem'
    BY <2>2 DEF NoStrandedItem, RunsOK
  <2>10. current' \in Int /\ conc' \in [Jobs -> Int] /\ pending' \in Seq(Jobs)
    BY <2>2 DEF RunsOK
  <2> QED BY <2>2, <2>6, <2>7, <2>8, <2>9, <2>10 DEF RunsOK
<1> QED BY <1>1, <1>2

\* An item is queued only behind an execution in flight.
LEMMA QueueJobExecutionOK ==
  ASSUME TimersOK, RunsOK, NEW j \in Jobs, NEW tm, NEW en, Timed(tm, en),
         QueueJobExecution(j, tm, en)
  PROVE  TimersOK' /\ RunsOK'
<1>1. CASE Room(j, current, conc[j])
  BY <1>1, ExecuteJobOK DEF QueueJobExecution
<1>2. CASE ~Room(j, current, conc[j])
  <2>1. /\ pending' = Append(pending, j)
        /\ timer' = tm /\ enabled' = en
        /\ UNCHANGED <<current, conc, exec, nextRun>>
    BY <1>2 DEF QueueJobExecution
  <2>2. pending' \in Seq(Jobs)
    BY <2>1, AppendProperties DEF RunsOK
  <2>3. current > 0
    <3>1. CASE ~(current < MaxConcurrentJobs)
      BY <3>1, SchedulerAssumption DEF RunsOK
    <3>2. CASE ~(conc[j] < MaxConcurrent[j])
      <4>1. conc[j] > 0
        BY <3>2, SchedulerAssumption DEF RunsOK
      <4> QED BY <4>1, JobRunning DEF RunsOK
    <3> QED BY <1>2, <3>1, <3>2 DEF Room
  <2>4. TimersOK'
    BY <2>1 DEF TimersOK, Timed
  <2>5. Counts(current', conc', exec') /\ Limits(exec')
    BY <2>1 DEF RunsOK
  <2> QED BY <2>1, <2>2, <2>3, <2>4, <2>5 DEF RunsOK, NoStrandedItem
<1> QED BY <1>1, <1>2

LEMMA ScheduleJobOK ==
  ASSUME TimersOK, RunsOK, NEW j \in Jobs, NEW en \in [Jobs -> BOOLEAN],
         ScheduleJob(j, en)
  PROVE  TimersOK' /\ RunsOK'
<1>1. CASE nextRun[j] = 0
  <2>1. Timed([timer EXCEPT ![j] = Off], en)
    BY DEF Timed, TimersOK, Off
  <2> QED BY <1>1, <2>1, QueueJobExecutionOK DEF ScheduleJob
<1>2. CASE nextRun[j] # 0
  <2>1. /\ timer' = [timer EXCEPT ![j] = Delay(nextRun[j])]
        /\ enabled' = en
        /\ UNCHANGED <<nextRun, runVars>>
    BY <1>2 DEF ScheduleJob
  <2>2. Delay(nextRun[j]) \in Nat
    BY SchedulerAssumption DEF TimersOK, Delay
  <2>3. TimersOK'
    BY <2>1, <2>2 DEF TimersOK, Timed
  <2>4. RunsOK'
    BY <2>1 DEF RunsOK, NoStrandedItem, runVars
  <2> QED BY <2>3, <2>4
<1> QED BY <1>1, <1>2

\* Each overdue job starts at most once, and only with room; what has to wait
\* waits behind an execution in flight.
LEMMA ScheduleAllJobsOK ==
  ASSUME TimersOK, RunsOK, jobs \subseteq Jobs, ScheduleAllJobs
  PROVE  TimersOK' /\ RunsOK'
<1> DEFINE due  == {j \in jobs : enabled[j] /\ nextRun[j] = 0}
           able == {j \in due : conc[j] < MaxConcurrent[j]}
<1>1. TimersOK'
  <2>1. \A j \in Jobs : Delay(nextRun[j]) \in Nat
    BY SchedulerAssumption DEF TimersOK, Delay
  <2> QED BY <2>1 DEF ScheduleAllJobs, TimersOK, Timed
<1>2. PICK S \in SUBSET Free(exec) : \E new \in [S -> able] :
        LET begun == {new[e] : e \in S}
        IN  /\ \A e, f \in S : new[e] = new[f] => e = f
            /\ begun # able => current + Cardinality(S) >= MaxConcurrentJobs
            /\ S # {} => current + Cardinality(S) <= MaxConcurrentJobs
            /\ Start(current, conc, exec, new)
            /\ \E q \in [1..Cardinality(due \ begun) -> due \ begun] :
                 /\ {q[i] : i \in DOMAIN q} = due \ begun
                 /\ pending' = pending \o q
  BY DEF ScheduleAllJobs
<1>3. PICK new \in [S -> able] :
        LET begun == {new[e] : e \in S}
        IN  /\ \A e, f \in S : new[e] = new[f] => e = f
            /\ begun # able => current + Cardinality(S) >= MaxConcurrentJobs
            /\ S # {} => current + Cardinality(S) <= MaxConcurrentJobs
            /\ Start(current, conc, exec, new)
            /\ \E q \in [1..Cardinality(due \ begun) -> due \ begun] :
                 /\ {q[i] : i \in DOMAIN q} = due \ begun
                 /\ pending' = pending \o q
  BY <1>2
<1> DEFINE begun == {new[e] : e \in S}
<1>4. PICK q \in [1..Cardinality(due \ begun) -> due \ begun] :
        /\ {q[i] : i \in DOMAIN q} = due \ begun
        /\ pending' = pending \o q
  BY <1>3
<1>5. able \subseteq Jobs /\ due \subseteq Jobs /\ new \in [S -> Jobs] /\ DOMAIN new = S
  OBVIOUS
<1>6. /\ exec' \in Slots /\ Counts(current', conc', exec')
      /\ current' \in Int /\ conc' \in [Jobs -> Int]
      /\ current' = current + Cardinality(S)
      /\ exec' = Begin(exec, new, "timer")
  <2>1. Start(current, conc, exec, new)
    BY <1>3
  <2> HIDE DEF able, due
  <2>2. /\ exec' \in Slots /\ Counts(current', conc', exec')
        /\ current' \in Int /\ conc' \in [Jobs -> Int]
    BY <1>5, <2>1, StartCounts DEF RunsOK
  <2> QED BY <1>5, <2>1, <2>2 DEF Start
<1>7. Limits(exec')
  <2>1. S # {} => Cardinality(Live(exec)) + Cardinality(S) <= MaxConcurrentJobs
    BY <1>3 DEF RunsOK, Counts
  <2>2. ASSUME NEW j \in Jobs, SlotsOf(new, j) # {}
        PROVE  Cardinality(LiveOf(exec, j)) + Cardinality(SlotsOf(new, j))
                 <= MaxConcurrent[j]
    <3>1. PICK e \in S : new[e] = j
      BY <1>5, <2>2 DEF SlotsOf
    <3>2. SlotsOf(new, j) = {e}
      BY <1>3, <1>5, <3>1 DEF SlotsOf
    <3>3. conc[j] < MaxConcurrent[j]
      BY <3>1
    <3>4. conc[j] = Cardinality(LiveOf(exec, j)) /\ conc[j] \in Int
      BY DEF RunsOK, Counts
    <3>5. Cardinality(SlotsOf(new, j)) = 1 /\ MaxConcurrent[j] \in Nat
      BY <3>2, FS_Singleton, SchedulerAssumption
    <3> HIDE DEF able, due
    <3> QED BY <3>3, <3>4, <3>5
  <2> HIDE DEF able, due
  <2> QED BY <1>5, <1>6, <2>1, <2>2, BeginLimits DEF RunsOK
<1>8. IsFiniteSet(S) /\ Cardinality(S) \in Nat
  BY <1>5, BeginCounts DEF RunsOK
<1>9. q \in Seq(Jobs) /\ (due \ begun = {} => q = << >>)
  <2> DEFINE m == Cardinality(due \ begun)
  <2>1. due \ begun \in SUBSET Jobs
    BY <1>5
  <2>2. m \in Nat /\ (due \ begun = {} => m = 0)
    BY <2>1, SchedulerAssumption, FS_Subset, FS_CardinalityType, FS_EmptySet
  <2>3. q \in [1..m -> Jobs]
    BY <2>1
  <2> HIDE DEF m
  <2>4. q \in Seq(Jobs)
    <3>1. [1..m -> Jobs] \in {[1..k -> Jobs] : k \in Nat}
      BY <2>2
    <3>2. q \in UNION {[1..k -> Jobs] : k \in Nat}
      BY <2>3, <3>1
    <3> QED BY <3>2, SeqDef
  <2>5. Len(q) \in Nat /\ 1..Len(q) = 1..m
    BY <2>3, <2>4, LenProperties
  <2>6. due \ begun = {} => Len(q) = 0
    BY <2>2, <2>5
  <2> QED BY <2>4, <2>6, EmptySeq
<1>10. pending' \in Seq(Jobs)
  BY <1>4, <1>9, ConcatProperties DEF RunsOK
<1>11. NoStrandedItem'
  <2> SUFFICES ASSUME pending' # << >> PROVE current' > 0
    BY DEF NoStrandedItem
  <2>1. CASE pending # << >>
    BY <1>6, <1>8, <2>1 DEF RunsOK, NoStrandedItem
  <2>2. CASE pending = << >>
    <3>1. due \ begun # {}
      BY <1>4, <1>9, <2>2, ConcatEmptySeq
    <3>2. PICK j \in due : j \notin begun
      BY <3>1
    <3>3. CASE j \in able
      <4>1. begun # able
        BY <3>2, <3>3
      <4>2. current + Cardinality(S) >= MaxConcurrentJobs
        BY <1>3, <4>1
      <4> QED BY <1>6, <1>8, <4>2, SchedulerAssumption DEF RunsOK
    <3>4. CASE j \notin able
      <4>1. j \in Jobs /\ conc[j] > 0
        <5>1. ~(conc[j] < MaxConcurrent[j]) /\ j \in Jobs
          BY <1>5, <3>2, <3>4
        <5> QED BY <5>1, SchedulerAssumption DEF RunsOK
      <4>2. current > 0
        BY <4>1, JobRunning DEF RunsOK
      <4> QED BY <1>6, <1>8, <4>2 DEF RunsOK
    <3> QED BY <3>3, <3>4
  <2> QED BY <2>1, <2>2
<1> QED BY <1>1, <1>6, <1>7, <1>10, <1>11 DEF RunsOK

\* An execution ends: its counts are given back before the drain looks at them.
LEMMA FinallyOK ==
  ASSUME TimersOK, RunsOK, NEW e \in Execs, exec[e] # Idle, Finally(e)
  PROVE  TimersOK' /\ RunsOK'
<1> DEFINE j   == exec[e].job
           ex  == [exec EXCEPT ![e] = Idle]
           cnc == [conc EXCEPT ![j] = @ - 1]
<1>1. e \in Live(exec)
  BY DEF Live
<1>2. /\ j \in Jobs /\ ex \in Slots
      /\ Cardinality(Live(ex)) = Cardinality(Live(exec)) - 1
      /\ \A k \in Jobs : Cardinality(LiveOf(ex, k))
                           = IF k = j THEN Cardinality(LiveOf(exec, k)) - 1
                                      ELSE Cardinality(LiveOf(exec, k))
  BY <1>1, EndCounts DEF RunsOK
<1>3. Limits(ex)
  BY <1>1, EndLimits DEF RunsOK
<1>4. Settle(j, timer, enabled, current - 1, cnc, ex)
  BY DEF Finally
<1> HIDE DEF ex, j
<1>5. current - 1 \in Int /\ cnc \in [Jobs -> Int]
  BY <1>2 DEF RunsOK
<1>6. Counts(current - 1, cnc, ex)
  <2>1. current - 1 = Cardinality(Live(ex))
    BY <1>2 DEF RunsOK, Counts
  <2>2. ASSUME NEW k \in Jobs PROVE cnc[k] = Cardinality(LiveOf(ex, k))
    <3>1. conc[k] = Cardinality(LiveOf(exec, k))
      BY DEF RunsOK, Counts
    <3>2. cnc[k] = IF k = j THEN conc[k] - 1 ELSE conc[k]
      BY <1>2 DEF RunsOK
    <3> HIDE DEF cnc
    <3> QED BY <1>2, <3>1, <3>2
  <2> QED BY <2>1, <2>2 DEF Counts
<1> HIDE DEF cnc
<1> QED BY <1>2, <1>3, <1>4, <1>5, <1>6, SettleOK DEF TimersOK, RunsOK

-----------------------------------------------------------------------------
\* Actions that touch neither queue, counters nor slots keep RunsOK.
LEMMA RunsUntouched ==
  ASSUME RunsOK, UNCHANGED <<pending, current, conc, exec>>
  PROVE  RunsOK'
BY DEF RunsOK, NoStrandedItem

\* An execution moves from stage to stage in its slot: nothing is counted.
LEMMA StageOK ==
  ASSUME RunsOK, NEW e \in Execs, exec[e] # Idle,
         NEW to \in {"executing", "ending"},
         exec' = [exec EXCEPT ![e].stage = to],
         UNCHANGED <<pending, current, conc>>
  PROVE  RunsOK'
<1>1. exec \in Slots /\ exec[e] \in Execution
  BY DEF RunsOK, Slots
<1>2. /\ exec'[e] \in Execution /\ exec'[e] # Idle
      /\ exec'[e].job = exec[e].job /\ exec'[e].by = exec[e].by
      /\ \A f \in Execs \ {e} : exec'[f] = exec[f]
  BY <1>1, SchedulerAssumption DEF Slots, Execution, Idle
<1>3. exec' \in Slots
  BY <1>1, <1>2 DEF Slots
<1>4. /\ Live(exec') = Live(exec)
      /\ \A j \in Jobs : LiveOf(exec', j) = LiveOf(exec, j)
  BY <1>2 DEF Live, LiveOf
<1>5. Scheduled(exec') = Scheduled(exec)
  BY <1>2, <1>4 DEF Scheduled, Live
<1>6. Counts(current', conc', exec') /\ Limits(exec')
  BY <1>4, <1>5 DEF RunsOK, Counts, Limits
<1> QED BY <1>3, <1>6 DEF RunsOK, NoStrandedItem

\* The initial state.
LEMMA InitOK == Init => IInv
<1> SUFFICES ASSUME Init PROVE IInv
  OBVIOUS
<1>1. TimersOK
  BY SchedulerAssumption DEF Init, TimersOK, Timed, Off
<1>2. exec \in Slots /\ Live(exec) = {} /\ Scheduled(exec) = {}
  BY DEF Init, Slots, Live, Scheduled
<1>3. \A j \in Jobs : LiveOf(exec, j) = {}
  BY SchedulerAssumption DEF Init, LiveOf, Idle
<1>4. Counts(current, conc, exec)
  BY <1>2, <1>3, FS_EmptySet DEF Init, Counts
<1>5. Limits(exec)
  <2>1. \A j \in Jobs : Scheduled(exec) \cap LiveOf(exec, j) = {}
    BY <1>2
  <2> QED BY <1>2, <2>1, FS_EmptySet, SchedulerAssumption DEF Limits
<1>6. RunsOK
  <2>1. pending \in Seq(Jobs) /\ current \in Int /\ conc \in [Jobs -> Int]
    BY EmptySeq DEF Init
  <2>2. NoStrandedItem
    BY DEF Init, NoStrandedItem
  <2> QED BY <1>2, <1>4, <1>5, <2>1, <2>2 DEF RunsOK
<1>7. StatusOK
  BY SchedulerAssumption DEF Init, StatusOK
<1> QED BY <1>1, <1>6, <1>7 DEF IInv

LEMMA NextOK == IInv /\ [Next]_vars => IInv'
<1> SUFFICES ASSUME IInv, [Next]_vars PROVE IInv'
  OBVIOUS
<1> USE DEF IInv
<1>1. CASE StartScheduler
  <2>1. StatusOK'
    BY <1>1 DEF StartScheduler, StatusOK, jobVars
  <2>2. CASE UseElection
    BY <1>1, <2>1, <2>2, RunsUntouched
       DEF StartScheduler, TimersOK, Timed, runVars
  <2>3. CASE ~UseElection
    <3>1. ScheduleAllJobs /\ jobs \subseteq Jobs
      BY <1>1, <2>3 DEF StartScheduler, StatusOK
    <3> QED BY <2>1, <3>1, ScheduleAllJobsOK
  <2> QED BY <2>2, <2>3
<1>2. ASSUME NEW j \in Jobs, NEW on \in BOOLEAN, RegisterJob(j, on) PROVE IInv'
  <2>1. Delay(Period[j]) \in Nat /\ Period[j] \in Nat
    BY SchedulerAssumption DEF Delay
  <2>2. TimersOK'
    BY <1>2, <2>1 DEF RegisterJob, TimersOK, Timed
  <2>3. StatusOK'
    BY <1>2 DEF RegisterJob, StatusOK, statusVars
  <2> QED BY <1>2, <2>2, <2>3, RunsUntouched DEF RegisterJob, runVars
<1>3. ASSUME NEW j \in Jobs, NEW on \in BOOLEAN, SetJobEnabled(j, on) PROVE IInv'
  <2>1. StatusOK'
    BY <1>3 DEF SetJobEnabled, StatusOK, jobVars, statusVars
  <2> DEFINE en == [enabled EXCEPT ![j] = on]
  <2>2. en \in [Jobs -> BOOLEAN]
    BY DEF TimersOK, Timed
  <2>3. CASE on /\ started /\ leader
    <3>1. ScheduleJob(j, en)
      BY <1>3, <2>3 DEF SetJobEnabled
    <3> HIDE DEF en
    <3> QED BY <2>1, <2>2, <3>1, ScheduleJobOK
  <2>4. CASE ~(on /\ started /\ leader)
    <3>1. /\ timer' = IF on THEN timer ELSE [timer EXCEPT ![j] = Off]
          /\ enabled' = en
          /\ UNCHANGED <<nextRun, runVars>>
      BY <1>3, <2>4 DEF SetJobEnabled
    <3>2. TimersOK'
      BY <2>2, <3>1 DEF TimersOK, Timed
    <3> QED BY <2>1, <3>1, <3>2, RunsUntouched DEF runVars
  <2> QED BY <2>3, <2>4
<1>4. ASSUME NEW j \in Jobs, UnregisterJob(j) PROVE IInv'
  BY <1>4, RunsUntouched
     DEF UnregisterJob, TimersOK, Timed, StatusOK, runVars, statusVars
<1>5. ASSUME NEW j \in Jobs, TriggerJob(j) PROVE IInv'
  <2>1. StatusOK'
    BY <1>5 DEF TriggerJob, StatusOK, jobVars, statusVars
  <2>2. ExecuteJob(j, timer, enabled, "trigger")
    BY <1>5 DEF TriggerJob
  <2> QED BY <2>1, <2>2, ExecuteJobOK DEF TimersOK
<1>6. ASSUME NEW j \in Jobs, TimerFires(j) PROVE IInv'
  <2>1. StatusOK'
    BY <1>6 DEF TimerFires, StatusOK, jobVars, statusVars
  <2> QED BY <1>6, <2>1, ScheduleJobOK DEF TimerFires, TimersOK, Timed
<1>7. CASE Tick
  <2>1. TimersOK'
    <3>1. nextRun' \in [Jobs -> Nat]
      BY <1>7 DEF Tick, TimersOK
    <3>2. timer' \in [Jobs -> Nat \cup {Off}]
      BY <1>7 DEF Tick, TimersOK, Timed, Off
    <3> QED BY <1>7, <3>1, <3>2 DEF Tick, TimersOK, Timed
  <2> QED BY <1>7, <2>1, RunsUntouched
          DEF Tick, StatusOK, jobVars, runVars, statusVars
<1>8. ASSUME NEW e \in Execs, Execute(e) \/ EndExecution(e) PROVE IInv'
  <2>1. exec[e] # Idle
    BY <1>8 DEF Execute, EndExecution, Idle
  <2>2. PICK to \in {"executing", "ending"} : exec' = [exec EXCEPT ![e].stage = to]
    BY <1>8 DEF Execute, EndExecution
  <2>3. UNCHANGED <<jobVars, enabled, nextRun, timer, pending, current, conc, statusVars>>
    BY <1>8 DEF Execute, EndExecution
  <2>4. RunsOK'
    BY <2>1, <2>2, <2>3, StageOK
  <2> QED BY <2>3, <2>4 DEF TimersOK, Timed, StatusOK, jobVars, statusVars
<1>9. ASSUME NEW e \in Execs, Finish(e) \/ Abandon(e) PROVE IInv'
  <2>1. exec[e] # Idle /\ Finally(e)
    BY <1>9 DEF Finish, Abandon, Idle
  <2>2. UNCHANGED <<jobVars, statusVars>>
    BY <1>9 DEF Finish, Abandon
  <2> QED BY <2>1, <2>2, FinallyOK DEF StatusOK, jobVars, statusVars
<1>10. CASE Elected
  <2>1. StatusOK'
    BY <1>10 DEF Elected, StatusOK, jobVars
  <2> QED BY <1>10, <2>1, ScheduleAllJobsOK DEF Elected, StatusOK
<1>11. CASE StepDownBegins
  BY <1>11, RunsUntouched
     DEF StepDownBegins, TimersOK, Timed, StatusOK, jobVars, runVars
<1>12. CASE SteppedDown
  BY <1>12, RunsUntouched
     DEF SteppedDown, TimersOK, Timed, StatusOK, jobVars, runVars
<1>13. CASE BeginShutdown \/ EndShutdown
  <2>1. pending' = << >> /\ UNCHANGED <<current, conc, exec>>
    BY <1>13 DEF BeginShutdown, EndShutdown
  <2>2. RunsOK'
    BY <2>1, EmptySeq DEF RunsOK, NoStrandedItem
  <2>3. TimersOK'
    BY <1>13 DEF BeginShutdown, EndShutdown, TimersOK, Timed
  <2>4. StatusOK'
    BY <1>13 DEF BeginShutdown, EndShutdown, StatusOK, jobVars
  <2> QED BY <2>2, <2>3, <2>4
<1>14. CASE EndDrain
  BY <1>14, RunsUntouched
     DEF EndDrain, TimersOK, Timed, StatusOK, jobVars, runVars
<1>15. CASE CloseStateManager
  BY <1>15, RunsUntouched
     DEF CloseStateManager, TimersOK, Timed, StatusOK, runVars, statusVars
<1>16. CASE UNCHANGED vars
  BY <1>16, RunsUntouched
     DEF vars, TimersOK, Timed, StatusOK, jobVars, runVars, statusVars
<1> QED
  BY <1>1, <1>2, <1>3, <1>4, <1>5, <1>6, <1>7, <1>8, <1>9, <1>10, <1>11, <1>12,
     <1>13, <1>14, <1>15, <1>16 DEF Next, Step

LEMMA Invariance == Spec => []IInv
BY InitOK, NextOK, PTL DEF Spec

-----------------------------------------------------------------------------
\* Every variable keeps its type.
THEOREM TypeCorrect == Spec => []TypeOK
<1>1. IInv => TypeOK
  BY DEF IInv, TimersOK, Timed, RunsOK, StatusOK, Slots, TypeOK
<1> QED BY <1>1, Invariance, PTL

\* The counters of executeJob and its finally block equal the executions in
\* flight, whatever fails, is removed or is triggered in between.
THEOREM CountersNeverLeak == Spec => []CountersMatch
<1>1. IInv => CountersMatch
  BY DEF IInv, RunsOK, Counts, CountersMatch
<1> QED BY <1>1, Invariance, PTL

\* What waits in the pending queue always has an execution in flight whose
\* finally block will drain it.
THEOREM QueueIsNeverStranded == Spec => []NoStrandedItem
<1>1. IInv => NoStrandedItem
  BY DEF IInv, RunsOK
<1> QED BY <1>1, Invariance, PTL

\* The scheduler's own executions keep to the global limit and to each job's.
THEOREM LimitsHold == Spec => []ScheduledWithinLimits
<1>1. IInv => ScheduledWithinLimits
  BY DEF IInv, RunsOK, Limits, ScheduledWithinLimits
<1> QED BY <1>1, Invariance, PTL

-----------------------------------------------------------------------------
\* What DrainByPriority says of a step that shortens the queue.
StaysBehind ==
    \A e \in Scheduled(exec') \ Scheduled(exec), i \in DOMAIN pending' :
      Priority[pending'[i]] <= Priority[exec'[e].job]

\* The sorted queue s and what a drain of n items leaves of it.
LEMMA DrainedSequence ==
  ASSUME pending \in Seq(Jobs), NEW s \in [1..Len(pending) -> Jobs],
         NEW n \in 0..Len(pending)
  PROVE  /\ Len(s) = Len(pending) /\ DOMAIN s = 1..Len(s)
         /\ \A i \in DOMAIN SubSeq(s, n + 1, Len(s)) :
              /\ i >= 1 /\ i \in Int /\ n + i \in 1..Len(s)
              /\ SubSeq(s, n + 1, Len(s))[i] = s[n + i]
         /\ \A m \in (n + 1)..Len(s) : m - n \in DOMAIN SubSeq(s, n + 1, Len(s))
<1> DEFINE rest == SubSeq(s, n + 1, Len(s))
<1>1. Len(pending) \in Nat /\ n \in Nat
  BY LenProperties
<1>2. s \in Seq(Jobs) /\ Len(s) = Len(pending) /\ DOMAIN s = 1..Len(s)
  <2>1. [1..Len(pending) -> Jobs] \in {[1..m -> Jobs] : m \in Nat}
    BY <1>1
  <2>2. s \in UNION {[1..m -> Jobs] : m \in Nat}
    BY <2>1
  <2>3. s \in Seq(Jobs)
    BY <2>2, SeqDef
  <2>4. Len(s) \in Nat /\ 1..Len(s) = 1..Len(pending)
    BY <2>3, LenProperties
  <2> QED BY <1>1, <2>3, <2>4
<1>3. \A m \in (n + 1)..Len(s) : s[m] \in Jobs
  BY <1>1, <1>2
<1>4. /\ Len(rest) = IF n + 1 <= Len(s) THEN Len(s) - (n + 1) + 1 ELSE 0
      /\ \A m \in 1..Len(rest) : rest[m] = s[(n + 1) + m - 1]
      /\ rest \in Seq(Jobs)
  BY <1>1, <1>2, <1>3, SubSeqProperties
<1> HIDE DEF rest
<1>5. Len(rest) = Len(s) - n /\ Len(rest) \in Nat /\ DOMAIN rest = 1..Len(rest)
  <2>1. Len(rest) = Len(s) - n
    <3>1. n \in Int /\ n <= Len(s) /\ Len(s) \in Int
      BY <1>1, <1>2
    <3>2. CASE n + 1 <= Len(s)
      BY <1>4, <3>1, <3>2
    <3>3. CASE ~(n + 1 <= Len(s))
      BY <1>4, <3>1, <3>3
    <3> QED BY <3>2, <3>3
  <2>2. Len(rest) \in Nat /\ DOMAIN rest = 1..Len(rest)
    BY <1>4, LenProperties
  <2> QED BY <2>1, <2>2
<1>6. ASSUME NEW i \in DOMAIN rest
      PROVE  i >= 1 /\ i \in Int /\ n + i \in 1..Len(s) /\ rest[i] = s[n + i]
  <2>1. i \in 1..Len(rest) /\ i \in Int /\ i >= 1 /\ i <= Len(s) - n
    BY <1>5
  <2>2. n + i \in 1..Len(s) /\ (n + 1) + i - 1 = n + i
    BY <1>1, <1>2, <2>1
  <2> QED BY <1>4, <2>1, <2>2
<1>7. ASSUME NEW m \in (n + 1)..Len(s) PROVE m - n \in DOMAIN rest
  BY <1>1, <1>2, <1>5
<1> QED BY <1>2, <1>6, <1>7 DEF rest

\* A drain starts a prefix of the sorted queue and leaves the rest: whatever
\* begins in a slot is the job of an item of the prefix.
LEMMA SettleByPriority ==
  ASSUME IInv, NEW j \in Jobs, NEW tm, NEW en, NEW cur, NEW cnc, NEW ex \in Slots,
         \A e \in Live(ex) : ex[e] = exec[e],
         Settle(j, tm, en, cur, cnc, ex)
  PROVE  StaysBehind
<1>1. PICK s \in [1..Len(pending) -> Jobs], n \in 0..Len(pending) :
        /\ IsSortOf(s, pending)
        /\ pending' = SubSeq(s, n + 1, Len(s))
        /\ \E S \in SUBSET Free(ex) : \E new \in [S -> Jobs] :
             /\ \A k \in Jobs : Cardinality(SlotsOf(new, k)) = StartsOf(s, n, k)
             /\ Start(cur, cnc, ex, new)
  BY DEF Settle
<1>2. PICK S \in SUBSET Free(ex) : \E new \in [S -> Jobs] :
        /\ \A k \in Jobs : Cardinality(SlotsOf(new, k)) = StartsOf(s, n, k)
        /\ Start(cur, cnc, ex, new)
  BY <1>1
<1>3. PICK new \in [S -> Jobs] :
        /\ \A k \in Jobs : Cardinality(SlotsOf(new, k)) = StartsOf(s, n, k)
        /\ Start(cur, cnc, ex, new)
  BY <1>2
<1>4. DOMAIN new = S /\ S \subseteq Execs /\ exec' = Begin(ex, new, "timer")
  BY <1>3 DEF Start, Free
<1>5. pending \in Seq(Jobs) /\ Len(pending) \in Nat /\ n \in Nat
  BY LenProperties DEF IInv, RunsOK
<1>6. /\ Len(s) = Len(pending) /\ DOMAIN s = 1..Len(s)
      /\ \A i \in DOMAIN pending' :
           i >= 1 /\ i \in Int /\ n + i \in 1..Len(s) /\ pending'[i] = s[n + i]
  BY <1>1, <1>5, DrainedSequence
<1>8. ASSUME NEW e \in Scheduled(exec') \ Scheduled(exec)
      PROVE  e \in S
  <2> SUFFICES ASSUME e \notin S PROVE FALSE
    OBVIOUS
  <2>1. e \in Execs /\ exec'[e] # Idle /\ exec'[e].by = "timer" /\ exec'[e] = ex[e]
    BY <1>4 DEF Begin, Scheduled, Live
  <2>2. exec[e] = ex[e]
    BY <2>1 DEF Live
  <2> QED BY <2>1, <2>2 DEF Scheduled, Live
<1>9. ASSUME NEW e \in S PROVE exec'[e].job \in Jobs /\ \E m \in 1..n : s[m] = exec'[e].job
  <2>1. exec'[e].job = new[e] /\ new[e] \in Jobs
    BY <1>4 DEF Begin
  <2>2. IsFiniteSet(S)
    BY BeginCounts
  <2>3. SlotsOf(new, new[e]) \in SUBSET S /\ e \in SlotsOf(new, new[e])
    BY <1>4 DEF SlotsOf
  <2>4. StartsOf(s, n, new[e]) # 0
    <3>1. IsFiniteSet(SlotsOf(new, new[e]))
      BY <2>2, <2>3, FS_Subset
    <3>2. Cardinality(SlotsOf(new, new[e])) # 0
      BY <2>3, <3>1, FS_EmptySet
    <3> QED BY <1>3, <2>1, <3>2
  <2>5. {m \in 1..n : s[m] = new[e] /\ new[e] \in states} # {}
    BY <2>4, FS_EmptySet DEF StartsOf
  <2> QED BY <2>1, <2>5
<1>10. ASSUME NEW e \in Scheduled(exec') \ Scheduled(exec), NEW i \in DOMAIN pending'
       PROVE  Priority[pending'[i]] <= Priority[exec'[e].job]
  <2>1. PICK m \in 1..n : s[m] = exec'[e].job
    BY <1>8, <1>9
  <2>2. m < n + i /\ m \in DOMAIN s /\ n + i \in DOMAIN s
    BY <1>5, <1>6
  <2>3. DOMAIN s = DOMAIN pending
    BY <1>5, <1>6, LenProperties
  <2>4. Priority[s[m]] \in Nat /\ Priority[s[n + i]] \in Nat
    BY <2>2, <1>6, SchedulerAssumption
  <2>5. Priority[s[m]] >= Priority[s[n + i]]
    <3>1. \A a, b \in DOMAIN pending : a < b =>
            Priority[s[a]] > Priority[s[b]] \/ Priority[s[a]] = Priority[s[b]]
      BY <1>1 DEF IsSortOf
    <3>2. Priority[s[m]] > Priority[s[n + i]] \/ Priority[s[m]] = Priority[s[n + i]]
      BY <2>2, <2>3, <3>1
    <3> QED BY <2>4, <3>2
  <2> QED BY <1>6, <2>1, <2>5
<1> QED BY <1>10 DEF StaysBehind

\* The loop over the overdue jobs and a job without room only add to the queue.
LEMMA ScheduleByPriority ==
  ASSUME IInv, NEW j \in Jobs, NEW en, ScheduleJob(j, en), Len(pending') < Len(pending)
  PROVE  StaysBehind
<1>1. pending \in Seq(Jobs) /\ exec \in Slots
  BY DEF IInv, RunsOK
<1>2. pending' # pending /\ pending' # Append(pending, j)
  BY <1>1, LenProperties, AppendProperties
<1>3. QueueJobExecution(j, [timer EXCEPT ![j] = Off], en)
  BY <1>2 DEF ScheduleJob, runVars
<1>4. Settle(j, [timer EXCEPT ![j] = Off], en, current, conc, exec)
  BY <1>2, <1>3 DEF QueueJobExecution, ExecuteJob
<1> QED BY <1>1, <1>4, SettleByPriority

LEMMA AllJobsLengthen ==
  ASSUME IInv, ScheduleAllJobs, jobs \subseteq Jobs
  PROVE  ~(Len(pending') < Len(pending))
<1> DEFINE due == {j \in jobs : enabled[j] /\ nextRun[j] = 0}
           able == {j \in due : conc[j] < MaxConcurrent[j]}
<1>1. \E S \in SUBSET Free(exec) : \E new \in [S -> able] :
        \E q \in [1..Cardinality(due \ {new[e] : e \in S}) -> due \ {new[e] : e \in S}] :
          pending' = pending \o q
  BY DEF ScheduleAllJobs
<1> HIDE DEF due, able
<1>2. PICK S \in SUBSET Free(exec), new \in UNION {[T -> able] : T \in SUBSET Free(exec)} :
        \E q \in [1..Cardinality(due \ {new[e] : e \in S}) -> due \ {new[e] : e \in S}] :
          pending' = pending \o q
  BY <1>1
<1> DEFINE left == due \ {new[e] : e \in S}
<1>3. PICK q \in [1..Cardinality(left) -> left] : pending' = pending \o q
  BY <1>2
<1>4. left \subseteq Jobs /\ IsFiniteSet(left) /\ Cardinality(left) \in Nat
  BY SchedulerAssumption, FS_Subset, FS_CardinalityType DEF due
<1> HIDE DEF left
<1>5. q \in Seq(Jobs)
  <2>1. q \in [1..Cardinality(left) -> Jobs]
    BY <1>4
  <2>2. [1..Cardinality(left) -> Jobs] \in {[1..m -> Jobs] : m \in Nat}
    BY <1>4
  <2> QED BY <2>1, <2>2, SeqDef
<1>6. pending \in Seq(Jobs)
  BY DEF IInv, RunsOK
<1>7. Len(pending') = Len(pending) + Len(q) /\ Len(q) \in Nat /\ Len(pending) \in Nat
  BY <1>3, <1>5, <1>6, ConcatProperties, LenProperties
<1> QED BY <1>7

LEMMA FinallyByPriority ==
  ASSUME IInv, NEW e \in Live(exec), Finally(e)
  PROVE  StaysBehind
<1> DEFINE j  == exec[e].job
           ex == [exec EXCEPT ![e] = Idle]
<1>1. exec \in Slots
  BY DEF IInv, RunsOK
<1>2. j \in Jobs /\ ex \in Slots
  BY <1>1, EndCounts
<1>3. \A f \in Live(ex) : ex[f] = exec[f]
  BY <1>1 DEF Live, Slots
<1>4. Settle(j, timer, enabled, current - 1, [conc EXCEPT ![j] = @ - 1], ex)
  BY DEF Finally
<1> HIDE DEF j, ex
<1> QED BY <1>2, <1>3, <1>4, SettleByPriority

LEMMA NextByPriority ==
  IInv /\ [Next]_vars => (Len(pending') < Len(pending) => StaysBehind)
<1> SUFFICES ASSUME IInv, [Next]_vars, Len(pending') < Len(pending) PROVE StaysBehind
  OBVIOUS
<1>1. pending \in Seq(Jobs) /\ exec \in Slots /\ jobs \subseteq Jobs
  BY DEF IInv, RunsOK, StatusOK
<1>2. pending' # pending
  BY <1>1, LenProperties
<1>3. CASE StartScheduler \/ Elected
  BY <1>1, <1>2, <1>3, AllJobsLengthen DEF StartScheduler, Elected, runVars
<1>4. ASSUME NEW j \in Jobs, NEW on \in BOOLEAN, SetJobEnabled(j, on)
      PROVE  StaysBehind
  BY <1>2, <1>4, ScheduleByPriority DEF SetJobEnabled, runVars
<1>5. ASSUME NEW j \in Jobs, TimerFires(j)
      PROVE  StaysBehind
  BY <1>5, ScheduleByPriority DEF TimerFires
<1>6. ASSUME NEW j \in Jobs, TriggerJob(j)
      PROVE  StaysBehind
  <2>1. Settle(j, timer, enabled, current, conc, exec)
    BY <1>2, <1>6 DEF TriggerJob, ExecuteJob
  <2> QED BY <1>1, <2>1, SettleByPriority
<1>7. ASSUME NEW e \in Execs, Finish(e) \/ Abandon(e)
      PROVE  StaysBehind
  <2>1. exec[e] # Idle
    BY <1>7 DEF Finish, Abandon, Idle
  <2>2. e \in Live(exec) /\ Finally(e)
    BY <1>7, <2>1 DEF Live, Finish, Abandon
  <2> QED BY <2>2, FinallyByPriority
<1>8. CASE BeginShutdown \/ EndShutdown
  BY <1>8, EmptySeq DEF BeginShutdown, EndShutdown, StaysBehind
<1>9. CASE \/ \E j \in Jobs, on \in BOOLEAN : RegisterJob(j, on)
           \/ \E j \in Jobs : UnregisterJob(j)
           \/ \E e \in Execs : Execute(e) \/ EndExecution(e)
           \/ Tick \/ StepDownBegins \/ SteppedDown \/ EndDrain \/ CloseStateManager
           \/ UNCHANGED vars
  BY <1>2, <1>9 DEF RegisterJob, UnregisterJob, Execute, EndExecution, Tick,
     StepDownBegins, SteppedDown, EndDrain, CloseStateManager, vars, runVars
<1> QED
  BY <1>3, <1>4, <1>5, <1>6, <1>7, <1>8, <1>9 DEF Next, Step

\* A drain starts the most urgent items: what stays behind in the queue never
\* ranks above what processPendingQueue took from it.
THEOREM MostUrgentFirst == Spec => DrainByPriority
<1>1. IInv /\ [Next]_vars =>
        [Len(pending') < Len(pending) =>
           \A e \in Scheduled(exec') \ Scheduled(exec), i \in DOMAIN pending' :
             Priority[pending'[i]] <= Priority[exec'[e].job]]_vars
  BY NextByPriority DEF StaysBehind
<1> QED BY <1>1, Invariance, PTL DEF Spec, DrainByPriority

-----------------------------------------------------------------------------
\* What NoLostJob asks of an enabled job: it has something to come back for it.
Held(j) ==
    \/ timer[j] # Off
    \/ \E i \in DOMAIN pending : pending[i] = j
    \/ conc[j] > 0

\* A step down that has begun was a leader's no longer.
SteppingFollows == phase = "up" /\ stepping => ~leader

\* Only a started scheduler is elected.
ElectedIsStarted == phase = "up" /\ UseElection /\ leader => started

LInv == NoLostJob /\ SteppingFollows /\ ElectedIsStarted

LEMMA ConcNat ==
  ASSUME RunsOK PROVE \A j \in Jobs : conc[j] \in Nat
BY SlotsFinite DEF RunsOK, Counts

LEMMA DelayIsSet ==
  ASSUME NEW n \in Nat PROVE Delay(n) # Off
BY SchedulerAssumption DEF Delay, Off

\* The finally block loses nobody: whoever it takes from the queue runs, or is
\* scheduled anew because its state is gone; whoever it does not take stays.
LEMMA SettleHolds ==
  ASSUME pending \in Seq(Jobs), leader, NEW j \in Jobs, NEW tm, NEW en,
         NEW cur, NEW cnc, \A k \in Jobs : cnc[k] \in Nat, NEW ex \in Slots,
         Settle(j, tm, en, cur, cnc, ex),
         NEW k \in Jobs, enabled'[k],
         \/ k = j
         \/ tm[k] # Off
         \/ \E i \in DOMAIN pending : pending[i] = k
         \/ cnc[k] > 0
  PROVE  Held(k)'
<1>1. PICK s \in [1..Len(pending) -> Jobs], n \in 0..Len(pending) :
        /\ IsSortOf(s, pending)
        /\ pending' = SubSeq(s, n + 1, Len(s))
        /\ Rearm({j} \cup ({s[i] : i \in 1..n} \ states), tm, en)
        /\ \E S \in SUBSET Free(ex) : \E new \in [S -> Jobs] :
             /\ \A l \in Jobs : Cardinality(SlotsOf(new, l)) = StartsOf(s, n, l)
             /\ Start(cur, cnc, ex, new)
  BY DEF Settle
<1> DEFINE F == {j} \cup ({s[i] : i \in 1..n} \ states)
<1>2. conc'[k] = cnc[k] + StartsOf(s, n, k)
  BY <1>1 DEF Start
<1>3. n \in Nat /\ StartsOf(s, n, k) \in Nat /\ cnc[k] \in Nat
      /\ IsFiniteSet({i \in 1..n : s[i] = k /\ k \in states})
  <2>1. Len(pending) \in Nat /\ n \in Nat
    BY LenProperties
  <2>2. cnc[k] \in Nat
    OBVIOUS
  <2>3. \A l \in Jobs : IsFiniteSet({i \in 1..n : s[i] = l /\ l \in states})
                        /\ StartsOf(s, n, l) \in Nat
    BY <2>1, StartsNat, Zenon
  <2> QED BY <2>1, <2>2, <2>3, Zenon
<1>4. CASE k \in F
  <2>1. k \notin OneTime /\ en[k]
    BY <1>1, <1>4 DEF Rearm
  <2>2. timer'[k] = Delay(Period[k])
    BY <1>1, <1>4, <2>1 DEF Rearm
  <2>3. timer'[k] # Off
    BY <2>2, DelayIsSet, SchedulerAssumption
  <2> QED BY <2>3 DEF Held
<1>5. CASE k \notin F
  <2>1. timer'[k] = tm[k] /\ k # j
    BY <1>1, <1>5 DEF Rearm
  <2>2. CASE tm[k] # Off
    BY <2>1, <2>2 DEF Held
  <2>3. CASE cnc[k] > 0
    BY <1>2, <1>3, <2>3 DEF Held
  <2>4. ASSUME NEW i \in DOMAIN pending, pending[i] = k PROVE Held(k)'
    <3>1. PICK m \in DOMAIN pending : s[m] = k
      <4>1. PICK pi \in [DOMAIN pending -> DOMAIN pending] :
              /\ {pi[l] : l \in DOMAIN pending} = DOMAIN pending
              /\ \A l \in DOMAIN pending : s[l] = pending[pi[l]]
        BY <1>1 DEF IsSortOf
      <4>2. PICK m \in DOMAIN pending : pi[m] = i
        BY <2>4, <4>1
      <4> QED BY <2>4, <4>1, <4>2
    <3>2. m \in 1..Len(s) /\ Len(s) = Len(pending) /\ m \in Int /\ Len(s) \in Int
      BY <1>1, DrainedSequence, LenProperties
    <3>3. CASE m <= n
      <4>1. m \in 1..n /\ k \in states
        BY <1>3, <1>5, <3>1, <3>2, <3>3
      <4>2. m \in {l \in 1..n : s[l] = k /\ k \in states}
        BY <3>1, <4>1
      <4>3. StartsOf(s, n, k) # 0
        BY <1>3, <4>2, FS_EmptySet DEF StartsOf
      <4> QED BY <1>2, <1>3, <4>3 DEF Held
    <3>4. CASE ~(m <= n)
      <4>1. m \in (n + 1)..Len(s) /\ n + (m - n) = m
        BY <1>3, <3>2, <3>4
      <4>2. m - n \in DOMAIN pending' /\ pending'[m - n] = s[n + (m - n)]
        BY <1>1, <4>1, DrainedSequence
      <4>3. \E i2 \in DOMAIN pending' : pending'[i2] = k
        BY <3>1, <4>1, <4>2
      <4> QED BY <4>3 DEF Held
    <3> QED BY <3>3, <3>4
  <2> QED BY <2>1, <2>2, <2>3, <2>4
<1> QED BY <1>4, <1>5

\* executeJob of j: j runs or is rescheduled, the others keep what they have.
LEMMA ExecuteJobHolds ==
  ASSUME RunsOK, leader, NEW j \in Jobs, NEW tm, NEW en, NEW by,
         ExecuteJob(j, tm, en, by),
         NEW k \in Jobs, enabled'[k],
         \/ k = j
         \/ tm[k] # Off
         \/ \E i \in DOMAIN pending : pending[i] = k
         \/ conc[k] > 0
  PROVE  Held(k)'
<1>1. pending \in Seq(Jobs) /\ exec \in Slots /\ \A l \in Jobs : conc[l] \in Nat
  BY ConcNat DEF RunsOK
<1>2. CASE j \in states
  <2>1. conc' = [conc EXCEPT ![j] = @ + 1] /\ timer' = tm /\ pending' = pending
    BY <1>2 DEF ExecuteJob
  <2>2. conc'[k] = IF k = j THEN conc[k] + 1 ELSE conc[k]
    BY <2>1 DEF RunsOK
  <2> QED BY <1>1, <2>1, <2>2 DEF Held
<1>3. CASE j \notin states
  <2>1. Settle(j, tm, en, current, conc, exec)
    BY <1>3 DEF ExecuteJob
  <2> QED BY <1>1, <2>1, SettleHolds
<1> QED BY <1>2, <1>3

\* scheduleJob of j: j gets a timer, runs or waits.
LEMMA ScheduleJobHolds ==
  ASSUME TimersOK, RunsOK, leader, NEW j \in Jobs, NEW en, ScheduleJob(j, en),
         NEW k \in Jobs, enabled'[k], k = j \/ Held(k)
  PROVE  Held(k)'
<1> DEFINE tm == [timer EXCEPT ![j] = Off]
<1>0. k # j => tm[k] = timer[k]
  BY DEF TimersOK, Timed
<1>1. CASE nextRun[j] # 0
  <2>1. timer' = [timer EXCEPT ![j] = Delay(nextRun[j])] /\ UNCHANGED <<pending, conc>>
    BY <1>1 DEF ScheduleJob, runVars
  <2>2. CASE k = j
    BY <2>1, <2>2, DelayIsSet DEF Held, TimersOK, Timed
  <2>3. CASE k # j
    BY <2>1, <2>3 DEF Held, TimersOK, Timed
  <2> QED BY <2>2, <2>3
<1>2. CASE nextRun[j] = 0
  <2>1. QueueJobExecution(j, tm, en)
    BY <1>2 DEF ScheduleJob
  <2>2. CASE Room(j, current, conc[j])
    <3>1. ExecuteJob(j, tm, en, "timer")
      BY <2>1, <2>2 DEF QueueJobExecution
    <3>2. \/ k = j \/ tm[k] # Off
          \/ \E i \in DOMAIN pending : pending[i] = k
          \/ conc[k] > 0
      BY <1>0 DEF Held
    <3> HIDE DEF tm
    <3> QED BY <3>1, <3>2, ExecuteJobHolds
  <2>3. CASE ~Room(j, current, conc[j])
    <3>1. pending' = Append(pending, j) /\ timer' = tm /\ conc' = conc
      BY <2>1, <2>3 DEF QueueJobExecution
    <3>2. /\ Len(pending) \in Nat /\ DOMAIN pending = 1..Len(pending)
          /\ DOMAIN pending' = 1..Len(pending) + 1
          /\ pending'[Len(pending) + 1] = j
          /\ \A i \in 1..Len(pending) : pending'[i] = pending[i]
      BY <3>1, AppendProperties, LenProperties DEF RunsOK
    <3>3. CASE k = j
      BY <3>2, <3>3 DEF Held
    <3>4. CASE k # j
      BY <1>0, <3>1, <3>2, <3>4 DEF Held
    <3> QED BY <3>3, <3>4
  <2> QED BY <2>2, <2>3
<1> QED BY <1>1, <1>2

\* An election, or start() without one: every enabled job gets a timer, runs or
\* waits, whatever it had before.
LEMMA ScheduleAllJobsHolds ==
  ASSUME RunsOK, jobs \subseteq Jobs, nextRun \in [Jobs -> Nat], ScheduleAllJobs,
         NEW k \in jobs, enabled[k]
  PROVE  Held(k)'
<1> DEFINE due  == {j \in jobs : enabled[j] /\ nextRun[j] = 0}
           able == {j \in due : conc[j] < MaxConcurrent[j]}
<1>1. CASE nextRun[k] # 0
  <2>1. timer'[k] = Delay(nextRun[k])
    BY <1>1 DEF ScheduleAllJobs
  <2> QED BY <1>1, <2>1, DelayIsSet DEF Held
<1>2. CASE nextRun[k] = 0
  <2>1. k \in due
    BY <1>2
  <2> HIDE DEF due, able
  <2>2. \E S \in SUBSET Free(exec) : \E new \in [S -> able] :
          /\ Start(current, conc, exec, new)
          /\ \E q \in [1..Cardinality(due \ {new[e] : e \in S}) -> due \ {new[e] : e \in S}] :
               /\ {q[i] : i \in DOMAIN q} = due \ {new[e] : e \in S}
               /\ pending' = pending \o q
    BY DEF ScheduleAllJobs, due, able
  <2>3. PICK S \in SUBSET Free(exec) : \E new \in [S -> able] :
          /\ Start(current, conc, exec, new)
          /\ \E q \in [1..Cardinality(due \ {new[e] : e \in S}) -> due \ {new[e] : e \in S}] :
               /\ {q[i] : i \in DOMAIN q} = due \ {new[e] : e \in S}
               /\ pending' = pending \o q
    BY <2>2
  <2>4. PICK new \in [S -> able] :
          /\ Start(current, conc, exec, new)
          /\ \E q \in [1..Cardinality(due \ {new[e] : e \in S}) -> due \ {new[e] : e \in S}] :
               /\ {q[i] : i \in DOMAIN q} = due \ {new[e] : e \in S}
               /\ pending' = pending \o q
    BY <2>3
  <2> DEFINE left == due \ {new[e] : e \in S}
  <2>5. PICK q \in [1..Cardinality(left) -> left] :
          {q[i] : i \in DOMAIN q} = left /\ pending' = pending \o q
    BY <2>4
  <2>6. DOMAIN new = S /\ new \in [S -> Jobs] /\ left \subseteq Jobs
    BY DEF able, due
  <2>7. CASE k \in {new[e] : e \in S}
    <3>1. SlotsOf(new, k) # {} /\ SlotsOf(new, k) \in SUBSET S
      BY <2>6, <2>7 DEF SlotsOf
    <3>2. IsFiniteSet(SlotsOf(new, k))
      <4>1. IsFiniteSet(S)
        BY <2>6, BeginCounts DEF RunsOK
      <4> QED BY <3>1, <4>1, FS_Subset
    <3>3. Cardinality(SlotsOf(new, k)) \in Nat /\ Cardinality(SlotsOf(new, k)) # 0
      BY <3>1, <3>2, FS_EmptySet, FS_CardinalityType
    <3>4. conc'[k] = conc[k] + Cardinality(SlotsOf(new, k)) /\ conc[k] \in Nat
      BY <2>4, ConcNat DEF Start
    <3> QED BY <3>3, <3>4 DEF Held
  <2>8. CASE k \notin {new[e] : e \in S}
    <3>1. PICK i \in DOMAIN q : q[i] = k
      BY <2>1, <2>5, <2>8
    <3>2. q \in Seq(Jobs) /\ pending \in Seq(Jobs)
      <4>1. left \in SUBSET Jobs /\ IsFiniteSet(Jobs)
        BY <2>6, SchedulerAssumption
      <4>2. Cardinality(left) \in Nat
        BY <4>1, FS_Subset, FS_CardinalityType
      <4>3. q \in [1..Cardinality(left) -> Jobs]
        BY <2>6
      <4>4. [1..Cardinality(left) -> Jobs] \in {[1..m -> Jobs] : m \in Nat}
        BY <4>2
      <4>5. q \in UNION {[1..m -> Jobs] : m \in Nat}
        BY <4>3, <4>4
      <4> QED BY <4>5, SeqDef DEF RunsOK
    <3>3. i \in 1..Len(q) /\ Len(q) \in Nat /\ Len(pending) \in Nat
      BY <3>1, <3>2, LenProperties
    <3>4. /\ Len(pending') = Len(pending) + Len(q)
          /\ pending' \in Seq(Jobs)
          /\ \A m \in 1..Len(pending) + Len(q) :
               pending'[m] = IF m <= Len(pending) THEN pending[m] ELSE q[m - Len(pending)]
      BY <2>5, <3>2, ConcatProperties
    <3>5. Len(pending) + i \in 1..Len(pending) + Len(q)
          /\ ~(Len(pending) + i <= Len(pending))
          /\ (Len(pending) + i) - Len(pending) = i
      BY <3>3
    <3>6. pending'[Len(pending) + i] = k /\ Len(pending) + i \in DOMAIN pending'
      BY <3>1, <3>3, <3>4, <3>5, LenProperties
    <3>7. \E m \in DOMAIN pending' : pending'[m] = k
      BY <3>6
    <3> QED BY <3>7 DEF Held
  <2> QED BY <2>7, <2>8
<1> QED BY <1>1, <1>2

LEMMA FinallyHolds ==
  ASSUME IInv, leader, NEW e \in Live(exec), Finally(e),
         NEW k \in Jobs, enabled'[k], Held(k)
  PROVE  Held(k)'
<1> DEFINE j   == exec[e].job
           ex  == [exec EXCEPT ![e] = Idle]
           cnc == [conc EXCEPT ![j] = @ - 1]
<1>1. exec \in Slots /\ RunsOK /\ pending \in Seq(Jobs)
  BY DEF IInv, RunsOK
<1>2. j \in Jobs /\ ex \in Slots /\ Cardinality(LiveOf(ex, j)) = Cardinality(LiveOf(exec, j)) - 1
  BY <1>1, EndCounts
<1>3. Settle(j, timer, enabled, current - 1, cnc, ex)
  BY DEF Finally
<1>4. ASSUME NEW l \in Jobs PROVE cnc[l] \in Nat
  <2>1. conc[l] \in Nat /\ conc[j] = Cardinality(LiveOf(exec, j))
    BY <1>1, <1>2, ConcNat DEF RunsOK, Counts
  <2>2. Cardinality(LiveOf(ex, j)) \in Nat
    BY <1>2, SlotsFinite
  <2>3. conc[j] - 1 \in Nat
    BY <1>2, <2>1, <2>2
  <2>4. cnc[l] = IF l = j THEN conc[j] - 1 ELSE conc[l]
    BY <1>1 DEF RunsOK
  <2> QED BY <2>1, <2>3, <2>4
<1>5. \/ k = j \/ timer[k] # Off
      \/ \E i \in DOMAIN pending : pending[i] = k
      \/ cnc[k] > 0
  <2>1. k # j => cnc[k] = conc[k]
    BY <1>1 DEF RunsOK
  <2> QED BY <2>1 DEF Held
<1> HIDE DEF j, ex, cnc
<1> QED BY <1>1, <1>2, <1>3, <1>4, <1>5, SettleHolds

LEMMA NextHolds == IInv /\ LInv /\ [Next]_vars => LInv'
<1> SUFFICES ASSUME IInv, LInv, [Next]_vars PROVE LInv'
  OBVIOUS
<1>0. /\ TimersOK /\ RunsOK /\ jobs \subseteq Jobs /\ jobs \subseteq created
      /\ started \in BOOLEAN /\ leader \in BOOLEAN /\ stepping \in BOOLEAN
      /\ enabled \in [Jobs -> BOOLEAN] /\ timer \in [Jobs -> Nat \cup {Off}]
      /\ nextRun \in [Jobs -> Nat] /\ Off \notin Nat
  BY DEF IInv, StatusOK, TimersOK, Timed, Off
<1>a. phase = "up" /\ started /\ leader => \A k \in jobs : enabled[k] => Held(k)
  BY DEF LInv, NoLostJob, Held
<1>b. ASSUME SteppingFollows', ElectedIsStarted',
             \A k \in jobs' : phase' = "up" /\ started' /\ leader' /\ enabled'[k] => Held(k)'
      PROVE  LInv'
  BY <1>b DEF LInv, NoLostJob, Held
\* Steps that leave leadership and life cycle as they are.
<1>c. ASSUME UNCHANGED <<phase, started, leader, stepping>>,
             \A k \in jobs' : phase = "up" /\ started /\ leader /\ enabled'[k] => Held(k)'
      PROVE  LInv'
  BY <1>b, <1>c DEF LInv, SteppingFollows, ElectedIsStarted
<1>1. CASE StartScheduler
  <2>1. SteppingFollows' /\ ElectedIsStarted'
    BY <1>1 DEF StartScheduler, LInv, SteppingFollows, ElectedIsStarted
  <2>2. CASE ScheduleAllJobs
    <3>1. jobs' = jobs /\ enabled' = enabled
      BY <1>1, <2>2 DEF StartScheduler, jobVars, ScheduleAllJobs
    <3> QED BY <1>0, <1>b, <2>1, <2>2, <3>1, ScheduleAllJobsHolds
  <2>3. CASE ~ScheduleAllJobs
    <3>1. leader' = leader /\ phase = "up" /\ ~started /\ UseElection
      BY <1>1, <2>3 DEF StartScheduler, InUse
    <3>2. ~leader'
      BY <3>1 DEF LInv, ElectedIsStarted
    <3> QED BY <1>b, <2>1, <3>2
  <2> QED BY <2>2, <2>3
<1>2. CASE Elected
  <2>1. SteppingFollows' /\ ElectedIsStarted' /\ ScheduleAllJobs
    BY <1>2 DEF Elected, SteppingFollows, ElectedIsStarted
  <2>2. jobs' = jobs /\ enabled' = enabled
    BY <1>2 DEF Elected, jobVars, ScheduleAllJobs
  <2> QED BY <1>0, <1>b, <2>1, <2>2, ScheduleAllJobsHolds
<1>3. ASSUME NEW j \in Jobs, NEW on \in BOOLEAN, RegisterJob(j, on) PROVE LInv'
  <2>1. /\ jobs' = jobs \cup {j} /\ j \notin jobs
        /\ enabled' = [enabled EXCEPT ![j] = on]
        /\ UNCHANGED <<pending, conc, phase, started, leader, stepping>>
        /\ timer' = IF started /\ leader /\ on
                    THEN [timer EXCEPT ![j] = Delay(Period[j])] ELSE timer
    BY <1>0, <1>3 DEF RegisterJob, runVars, statusVars
  <2>2. ASSUME NEW k \in jobs', phase = "up", started, leader, enabled'[k] PROVE Held(k)'
    <3>1. CASE k = j
      <4>1. timer'[j] = Delay(Period[j])
        BY <1>0, <2>1, <2>2, <3>1
      <4>2. timer'[j] # Off
        BY <4>1, DelayIsSet, SchedulerAssumption
      <4> QED BY <3>1, <4>2 DEF Held
    <3>2. CASE k # j
      <4>1. k \in jobs /\ enabled[k] /\ timer'[k] = timer[k]
        BY <1>0, <2>1, <2>2, <3>2
      <4>2. Held(k)
        BY <1>a, <2>2, <4>1
      <4> QED BY <2>1, <4>1, <4>2 DEF Held
    <3> QED BY <3>1, <3>2
  <2> QED BY <1>c, <2>1, <2>2
<1>4. ASSUME NEW j \in Jobs, NEW on \in BOOLEAN, SetJobEnabled(j, on) PROVE LInv'
  <2> DEFINE en == [enabled EXCEPT ![j] = on]
  <2>1. UNCHANGED <<phase, started, leader, stepping, jobs>>
    BY <1>4 DEF SetJobEnabled, jobVars, statusVars
  <2>2. enabled' = en \/ ScheduleJob(j, en)
    BY <1>4 DEF SetJobEnabled
  <2>3. ASSUME NEW k \in jobs', phase = "up", started, leader, enabled'[k] PROVE Held(k)'
    <3>1. CASE on
      <4>1. ScheduleJob(j, en)
        BY <1>4, <2>3, <3>1 DEF SetJobEnabled
      <4>2. k # j => enabled[k]
        <5>1. enabled'[k] => en[k]
          BY <1>0, <2>1, <4>1
             DEF ScheduleJob, QueueJobExecution, ExecuteJob, Settle, Rearm
        <5> QED BY <2>3, <5>1, <1>0, <2>1
      <4>3. k = j \/ Held(k)
        BY <1>a, <2>1, <2>3, <4>2
      <4> HIDE DEF en
      <4> QED BY <1>0, <2>1, <2>3, <4>1, <4>3, ScheduleJobHolds
    <3>2. CASE ~on
      <4>1. /\ timer' = [timer EXCEPT ![j] = Off] /\ enabled' = en
            /\ UNCHANGED <<pending, conc>>
        BY <1>4, <3>2 DEF SetJobEnabled, runVars
      <4>2. k # j /\ enabled[k] /\ timer'[k] = timer[k]
        BY <1>0, <2>1, <2>3, <3>2, <4>1
      <4>3. Held(k)
        BY <1>a, <2>1, <2>3, <4>2
      <4> QED BY <4>1, <4>2, <4>3 DEF Held
    <3> QED BY <3>1, <3>2
  <2> QED BY <1>c, <2>1, <2>3
<1>5. ASSUME NEW j \in Jobs, UnregisterJob(j) PROVE LInv'
  <2>1. /\ jobs' = jobs \ {j} /\ timer' = [timer EXCEPT ![j] = Off]
        /\ UNCHANGED <<enabled, pending, conc, phase, started, leader, stepping>>
    BY <1>5 DEF UnregisterJob, runVars, statusVars
  <2>2. ASSUME NEW k \in jobs', phase = "up", started, leader, enabled'[k] PROVE Held(k)'
    <3>1. k \in jobs /\ enabled[k] /\ timer'[k] = timer[k]
      BY <1>0, <2>1, <2>2
    <3>2. Held(k)
      BY <1>a, <2>2, <3>1
    <3> QED BY <2>1, <3>1, <3>2 DEF Held
  <2> QED BY <1>c, <2>1, <2>2
<1>6. ASSUME NEW j \in Jobs, TriggerJob(j) PROVE LInv'
  <2>1. /\ UNCHANGED <<phase, started, leader, stepping, jobs>>
        /\ ExecuteJob(j, timer, enabled, "trigger")
    BY <1>6 DEF TriggerJob, jobVars, statusVars
  <2>2. ASSUME NEW k \in jobs', phase = "up", started, leader, enabled'[k] PROVE Held(k)'
    <3>1. enabled[k]
      BY <1>0, <2>1, <2>2 DEF ExecuteJob, Settle, Rearm
    <3>2. Held(k) /\ k \in Jobs
      BY <1>0, <1>a, <2>1, <2>2, <3>1
    <3> QED BY <1>0, <2>1, <2>2, <3>2, ExecuteJobHolds DEF Held
  <2> QED BY <1>c, <2>1, <2>2
<1>7. ASSUME NEW j \in Jobs, TimerFires(j) PROVE LInv'
  <2>1. UNCHANGED <<phase, started, leader, stepping, jobs>> /\ ScheduleJob(j, enabled)
    BY <1>7 DEF TimerFires, jobVars, statusVars
  <2>2. ASSUME NEW k \in jobs', phase = "up", started, leader, enabled'[k] PROVE Held(k)'
    <3>1. enabled[k]
      BY <1>0, <2>1, <2>2 DEF ScheduleJob, QueueJobExecution, ExecuteJob, Settle, Rearm
    <3>2. Held(k) /\ k \in Jobs
      BY <1>0, <1>a, <2>1, <2>2, <3>1
    <3> QED BY <1>0, <2>1, <2>2, <3>2, ScheduleJobHolds
  <2> QED BY <1>c, <2>1, <2>2
<1>8. CASE Tick
  <2>1. /\ \A k \in Jobs : timer[k] # Off => timer'[k] # Off
        /\ UNCHANGED <<jobs, enabled, pending, conc, phase, started, leader, stepping>>
    <3>1. \A k \in Jobs : timer[k] # Off => timer'[k] # Off
      BY <1>0, <1>8 DEF Tick, Off
    <3> QED BY <1>8, <3>1 DEF Tick, jobVars, runVars, statusVars
  <2> QED BY <1>0, <1>a, <1>c, <2>1 DEF Held
<1>9. ASSUME NEW e \in Execs, Execute(e) \/ EndExecution(e) PROVE LInv'
  BY <1>9, <1>a, <1>c DEF Execute, EndExecution, jobVars, statusVars, Held
<1>10. ASSUME NEW e \in Execs, Finish(e) \/ Abandon(e) PROVE LInv'
  <2>1. e \in Live(exec) /\ Finally(e)
    <3>1. exec[e] # Idle
      BY <1>10 DEF Finish, Abandon, Idle
    <3> QED BY <1>10, <3>1 DEF Live, Finish, Abandon
  <2>2. UNCHANGED <<jobs, phase, started, leader, stepping>>
    BY <1>10 DEF Finish, Abandon, jobVars, statusVars
  <2>3. ASSUME NEW k \in jobs', phase = "up", started, leader, enabled'[k] PROVE Held(k)'
    <3>1. enabled[k] /\ k \in Jobs
      BY <1>0, <2>1, <2>2, <2>3 DEF Finally, Settle, Rearm
    <3>2. Held(k)
      BY <1>a, <2>2, <2>3, <3>1
    <3> QED BY <2>1, <2>3, <3>1, <3>2, FinallyHolds
  <2> QED BY <1>c, <2>2, <2>3
<1>11. CASE StepDownBegins
  <2>1. ~leader'
    BY <1>11 DEF StepDownBegins
  <2> QED BY <1>b, <2>1 DEF SteppingFollows, ElectedIsStarted
<1>12. CASE SteppedDown
  <2>1. UNCHANGED <<phase, started, leader>> /\ ~stepping' /\ stepping
    BY <1>12 DEF SteppedDown
  <2>2. phase = "up" => ~leader
    BY <2>1 DEF LInv, SteppingFollows
  <2> QED BY <1>b, <2>1, <2>2 DEF LInv, SteppingFollows, ElectedIsStarted
<1>13. CASE BeginShutdown \/ EndDrain \/ CloseStateManager \/ EndShutdown
  <2>1. phase' # "up"
    BY <1>13 DEF BeginShutdown, EndDrain, CloseStateManager, EndShutdown, statusVars
  <2> QED BY <1>b, <2>1 DEF SteppingFollows, ElectedIsStarted
<1>14. CASE UNCHANGED vars
  BY <1>14, <1>a, <1>c DEF vars, jobVars, runVars, statusVars, Held
<1> QED
  BY <1>1, <1>2, <1>3, <1>4, <1>5, <1>6, <1>7, <1>8, <1>9, <1>10, <1>11, <1>12,
     <1>13, <1>14 DEF Next, Step

\* While the scheduler leads, an enabled job is never forgotten: it has a timer,
\* a place in the queue or an execution that will reschedule it.
THEOREM NobodyIsLost == Spec => []NoLostJob
<1>1. Init => LInv
  BY DEF Init, LInv, NoLostJob, SteppingFollows, ElectedIsStarted
<1>2. Spec => []LInv
  BY <1>1, NextHolds, Invariance, PTL DEF Spec
<1>3. LInv => NoLostJob
  BY DEF LInv
<1> QED BY <1>2, <1>3, PTL
=============================================================================
