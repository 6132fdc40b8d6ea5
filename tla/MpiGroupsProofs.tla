-------------------------- MODULE MpiGroupsProofs --------------------------
(***************************************************************************)
(* How groupsPrepare() of Lab6/mpi-collective.c divides the ranks, what    *)
(* every group computes and what gets into its file, for every number of   *)
(* processes and of groups, every rand(), matrix and buffer.               *)
(***************************************************************************)
EXTENDS MpiGroups, FiniteSetTheorems, TLAPS

LoopTypes ==
  /\ groups_count \in Nat /\ i \in Nat /\ available_ranks \in Int /\ next_group_rank \in Nat
  /\ at \in [Procs -> Int] /\ job \in {"running", "crashed", "overrun", "nofile", "smashed"}
  /\ group_numbers \in [Procs -> Nat] /\ overran \in BOOLEAN

\* More groups than ranks by two or more: every group takes a rank it does not have.
Crowded == groups_count > Size + 1

\* The loop of groupsPrepare().  The ranks given away and those available add up to
\* Size - groups_count + i.  With ranks to spare, two are always left.  Without, the
\* first round divides by zero, or the ranks available are negative and get less, and
\* the groups have used up the ranks before the last round.
Looping ==
  /\ i =< groups_count
  /\ i < groups_count => next_group_rank + available_ranks = Size - groups_count + i
  /\ groups_count >= 2 /\ ~Tight /\ i < groups_count => available_ranks >= 2
  /\ Crowded /\ i < groups_count => available_ranks =< -2
  /\ groups_count = 1 => next_group_rank = 0
  /\ overran => next_group_rank > Size
  /\ ~overran => next_group_rank =< Size
  /\ Tight /\ ~overran => /\ i =< next_group_rank /\ i < groups_count - 1
                          /\ ~Crowded => i = 0 /\ next_group_rank = 0

LoopInv ==
  /\ LoopTypes
  /\ job = "crashed" => Tight /\ ~Crowded
  /\ overran => Crowded
  /\ at[0] < Prepare => i = 0 /\ next_group_rank = 0 /\ ~overran
  /\ at[0] > Prepare => ~Tight \/ overran
  /\ at[0] = Prepare /\ job = "running" => Looping

USE GroupsAssumption DEF Start, Barrier, Prepare, BcastNumbers, Split, BcastMatrices, Sizes,
    Displacements, Save, Gather, Free, Finalize, Done, Next1, rootVars, blockVars, fileVars

\* A third of the ranks available, rounded up, and one more are never given away.
LEMMA ModulusLeavesTwo ==
  ASSUME NEW a \in Int, NEW m \in Randoms(CDiv(a * 2, 3))
  PROVE  /\ m \in Nat
         /\ a >= 2 => a - m >= 2
  BY DEF Randoms, CDiv

LEMMA ModulusZero ==
  ASSUME NEW a \in Int PROVE CDiv(a * 2, 3) \in Int /\ (CDiv(a * 2, 3) = 0 <=> a \in {-1, 0, 1})
  BY DEF CDiv

LEMMA InitLoop == Init => LoopInv
<1>0. SUFFICES ASSUME Init PROVE LoopInv
  OBVIOUS
<1>1. overran = FALSE /\ job = "running"
  BY <1>0, Zenon DEF Init
<1>2. /\ groups_count \in Nat /\ i = 0 /\ available_ranks = 0 /\ next_group_rank = 0
      /\ i \in Nat /\ available_ranks \in Int /\ next_group_rank \in Nat
      /\ group_numbers \in [Procs -> Nat] /\ at \in [Procs -> Int] /\ at[0] = 0
  BY <1>0 DEF Init, Procs
<1>3. LoopTypes
  <2>1. job \in {"running", "crashed", "overrun", "nofile", "smashed"} /\ overran \in BOOLEAN
    BY <1>1
  <2>2. QED
    BY <1>2, <2>1, Zenon DEF LoopTypes
<1>4. ~overran /\ job # "crashed" /\ ~(at[0] > Prepare) /\ at[0] # Prepare
  BY <1>1, <1>2
<1>5. (at[0] < Prepare => i = 0 /\ next_group_rank = 0 /\ ~overran)
  BY <1>2, <1>4, Zenon
<1>6. QED
  BY <1>3, <1>4, <1>5, Zenon DEF LoopInv

\* Only rank 0's own actions touch the loop; the other processes only go on.
LEMMA Others ==
  ASSUME LoopInv, NEW p \in Procs, Proc(p) \/ Exit(p), ~PassBarrier(0)
  PROVE  /\ UNCHANGED <<groups_count, rootVars>>
         /\ job = "running" /\ job' \in {"running", "nofile", "smashed"}
         /\ at' \in [Procs -> Int]
         /\ at[0] < Prepare => at'[0] < Prepare
         /\ at[0] = Prepare => at'[0] = Prepare
         /\ at[0] > Prepare => at'[0] > Prepare
<1> USE DEF LoopInv, LoopTypes, Procs
<1>1. CASE Begin(p)
  BY <1>1 DEF Begin, masterInitMatrix
<1>2. CASE PassBarrier(p)
  <2>1. p # 0
    BY <1>2
  <2>2. QED
    BY <1>2, <2>1 DEF PassBarrier
<1>3. CASE PassNumbers(p)
  BY <1>3 DEF PassNumbers, LeavesBcast
<1>4. CASE PassSplit(p)
  BY <1>4 DEF PassSplit
<1>5. CASE PassBcast(p)
  BY <1>5 DEF PassBcast, LeavesBcast
<1>6. CASE PassSizes(p)
  BY <1>6 DEF PassSizes, LeavesBcast
<1>7. CASE PassDisplacements(p)
  BY <1>7 DEF PassDisplacements, LeavesBcast, saveBlockToFile
<1>8. CASE PassGather(p)
  BY <1>8 DEF PassGather, LeavesGather
<1>9. CASE PassFree(p)
  BY <1>9 DEF PassFree
<1>10. CASE Flush(p) \/ PassSave(p)
  <2>1. CASE Flush(p)
    BY <2>1 DEF Flush
  <2>2. CASE PassSave(p)
    BY <2>2 DEF PassSave
  <2>3. QED
    BY <1>10, <2>1, <2>2
<1>11. CASE Exit(p)
  BY <1>11 DEF Exit
<1>12. QED
  BY <1>1, <1>2, <1>3, <1>4, <1>5, <1>6, <1>7, <1>8, <1>9, <1>10, <1>11 DEF Proc

\* A round for a group that is not the last, if its modulus is not 0.
LEMMA StepRound ==
  ASSUME LoopInv, at[0] = Prepare, job = "running", i < groups_count - 1,
         NEW m \in Randoms(Modulus), Modulus # 0,
         available_ranks' = available_ranks - m,
         next_group_rank' = next_group_rank + GroupSize(m),
         i' = i + 1, groups_count' = groups_count,
         overran' = (overran \/ next_group_rank + GroupSize(m) > Size)
  PROVE  Looping' /\ (overran' => Crowded)
<1>1. /\ i \in Nat /\ available_ranks \in Int /\ next_group_rank \in Nat /\ groups_count \in Nat
      /\ next_group_rank + available_ranks = Size - groups_count + i /\ Size \in Nat
  BY DEF LoopInv, LoopTypes, Looping
<1>2. /\ m \in Nat /\ available_ranks \notin {-1, 0, 1}
      /\ available_ranks >= 2 => available_ranks - m >= 2
  BY <1>1, ModulusLeavesTwo, ModulusZero DEF Modulus
<1>3. /\ next_group_rank' = next_group_rank + 1 + m /\ next_group_rank' \in Nat
      /\ next_group_rank' + available_ranks' = Size - groups_count + i'
      /\ i' < groups_count /\ i' \in Nat
  BY <1>1, <1>2 DEF GroupSize
<1>4. overran' <=> (overran \/ next_group_rank' > Size)
  BY Zenon
<1>5. /\ Crowded => available_ranks' =< -2
      /\ groups_count >= 2 /\ ~Tight => available_ranks' >= 2
  <2>1. /\ Crowded => available_ranks =< -2
        /\ groups_count >= 2 /\ ~Tight => available_ranks >= 2
    BY <1>1 DEF LoopInv, Looping
  <2>2. QED
    BY <1>1, <1>2, <2>1
<1>6. CASE ~Tight
  <2>1. next_group_rank' =< Size /\ ~Crowded
    BY <1>1, <1>3, <1>5, <1>6 DEF Tight, Crowded
  <2>2. ~overran
    BY <2>1 DEF LoopInv
  <2>3. ~overran'
    BY <1>3, <1>4, <2>1, <2>2
  <2>4. groups_count # 1 /\ i' =< groups_count
    BY <1>1, <1>3
  <2>5. ~Tight' /\ ~Crowded'
    BY <1>6, <2>1 DEF Tight, Crowded
  <2>6. groups_count' >= 2 /\ available_ranks' >= 2
    BY <1>1, <1>5, <1>6
  <2>7. Looping'
    BY <1>3, <2>1, <2>3, <2>4, <2>5, <2>6 DEF Looping
  <2>8. QED
    BY <2>3, <2>7
<1>7. CASE Tight /\ overran
  <2>1. next_group_rank > Size /\ Crowded
    BY <1>7 DEF LoopInv, Looping
  <2>2. next_group_rank' > Size /\ overran'
    BY <1>1, <1>2, <1>3, <1>4, <1>7, <2>1
  <2>3. groups_count # 1 /\ i' =< groups_count
    BY <1>1, <1>3
  <2>4. Tight' /\ Crowded'
    BY <1>7, <2>1 DEF Tight, Crowded
  <2>5. available_ranks' =< -2
    BY <1>5, <2>1
  <2>6. Looping'
    BY <1>3, <2>2, <2>3, <2>4, <2>5 DEF Looping
  <2>7. QED
    BY <2>1, <2>6
<1>8. CASE Tight /\ ~overran
  <2>1. i =< next_group_rank /\ (~Crowded => i = 0 /\ next_group_rank = 0)
    BY <1>8 DEF LoopInv, Looping
  <2>2. Crowded
    BY <1>1, <1>2, <1>8, <2>1 DEF Crowded, Tight
  <2>3. i' =< next_group_rank' /\ i' =< groups_count /\ groups_count # 1
    BY <1>1, <1>2, <1>3, <2>1
  <2>4. Tight' /\ Crowded' /\ available_ranks' =< -2
    BY <1>5, <1>8, <2>2 DEF Tight, Crowded
  <2>5. next_group_rank' =< Size => i' < groups_count - 1
    BY <1>1, <1>3, <2>2, <2>3 DEF Crowded
  <2>6. overran' <=> ~(next_group_rank' =< Size)
    <3>1. next_group_rank' > Size <=> ~(next_group_rank' =< Size)
      BY <1>1, <1>3
    <3>2. QED
      BY <1>4, <1>8, <3>1, Zenon
  <2>7. Looping'
    <3>1. CASE next_group_rank' =< Size
      BY <1>3, <2>3, <2>4, <2>5, <2>6, <3>1 DEF Looping
    <3>2. CASE ~(next_group_rank' =< Size)
      <4>1. next_group_rank' > Size
        BY <1>1, <1>3, <3>2
      <4>2. QED
        BY <1>3, <2>3, <2>4, <2>6, <3>2, <4>1 DEF Looping
    <3>3. QED
      BY <3>1, <3>2
  <2>8. QED
    BY <2>2, <2>7
<1>9. QED
  BY <1>6, <1>7, <1>8

LEMMA StepLoop == LoopInv /\ [Next]_vars => LoopInv'
<1>0. SUFFICES ASSUME LoopInv, [Next]_vars PROVE LoopInv'
  OBVIOUS
<1> USE DEF LoopInv, LoopTypes
<1>1. 0 \in Procs
  BY DEF Procs
<1>2. CASE PrepareGroup
  <2>1. /\ at[0] = Prepare /\ job = "running" /\ i < groups_count - 1
        /\ UNCHANGED <<groups_count, at>>
    BY <1>0, <1>2 DEF PrepareGroup
  <2>2. CASE Modulus = 0
    <3>1. job' = "crashed" /\ UNCHANGED rootVars
      BY <1>2, <2>2 DEF PrepareGroup
    <3>2. available_ranks \in {-1, 0, 1}
      BY <1>0, <2>2, ModulusZero DEF Modulus
    <3>3. Looping /\ i \in Nat /\ groups_count \in Nat
      BY <1>0, <2>1
    <3>4. Tight /\ ~Crowded
      BY <2>1, <3>2, <3>3 DEF Looping
    <3>5. Tight' /\ ~Crowded'
      BY <2>1, <3>4 DEF Tight, Crowded
    <3>6. QED
      BY <1>0, <2>1, <3>1, <3>5 DEF Crowded
  <2>3. CASE Modulus # 0
    <3>1. PICK m \in Randoms(Modulus) :
            /\ available_ranks' = available_ranks - m
            /\ next_group_rank' = next_group_rank + GroupSize(m)
            /\ i' = i + 1
            /\ group_numbers' = [p \in Procs |->
                 IF next_group_rank =< p /\ p < next_group_rank + GroupSize(m)
                   THEN i ELSE group_numbers[p]]
            /\ overran' = (overran \/ next_group_rank + GroupSize(m) > Size)
            /\ UNCHANGED job
      BY <1>2, <2>3 DEF PrepareGroup
    <3>2. Looping' /\ (overran' => Crowded)
      BY <1>0, <2>1, <2>3, <3>1, StepRound
    <3>3. overran' => Crowded'
      BY <2>1, <3>2 DEF Crowded
    <3>4. LoopTypes'
      <4>1. group_numbers' \in [Procs -> Nat]
        BY <1>0, <3>1
      <4>2. i' \in Nat /\ available_ranks' \in Int /\ next_group_rank' \in Nat
        <5>1. m \in Nat
          BY <1>0, <3>1, ModulusLeavesTwo DEF Modulus
        <5>2. QED
          BY <1>0, <3>1, <5>1 DEF GroupSize
      <4>3. overran' \in BOOLEAN
        BY <3>1
      <4>4. QED
        BY <1>0, <2>1, <3>1, <4>1, <4>2, <4>3
    <3>5. job' = "running" /\ at'[0] = Prepare
      BY <2>1, <3>1
    <3>6. ~(at'[0] < Prepare) /\ ~(at'[0] > Prepare)
      BY <3>5
    <3> HIDE DEF LoopTypes
    <3>7. QED
      BY <3>2, <3>3, <3>4, <3>5, <3>6
  <2>4. QED
    BY <2>2, <2>3
<1>3. CASE PrepareLast
  <2>1. /\ at[0] = Prepare /\ job = "running" /\ i = groups_count - 1 /\ i' = i + 1
        /\ UNCHANGED <<groups_count, at, job, available_ranks, next_group_rank, overran>>
        /\ group_numbers' = [p \in Procs |->
              IF p >= next_group_rank THEN groups_count - 1 ELSE group_numbers[p]]
    BY <1>3 DEF PrepareLast
  <2>2. Looping /\ groups_count \in Nat /\ i \in Nat
    BY <1>0, <2>1
  <2>3. i' = groups_count /\ groups_count - 1 \in Nat
    BY <2>1, <2>2
  <2>4. Looping'
    <3>1. ~Tight \/ overran
      BY <2>1, <2>2 DEF Looping
    <3>2. (Tight' <=> Tight) /\ (Crowded' <=> Crowded)
      BY <2>1 DEF Tight, Crowded
    <3>3. ~(i' < groups_count') /\ i' =< groups_count'
      BY <2>1, <2>2, <2>3
    <3>4. QED
      BY <2>1, <2>2, <3>1, <3>2, <3>3 DEF Looping
  <2>5. LoopTypes'
    BY <1>0, <2>1, <2>3
  <2>6. overran' => Crowded'
    BY <1>0, <2>1 DEF Crowded
  <2>7. ~(at'[0] < Prepare) /\ ~(at'[0] > Prepare)
    BY <2>1
  <2> HIDE DEF LoopTypes
  <2>8. QED
    BY <2>1, <2>4, <2>5, <2>6, <2>7
<1>4. CASE EndPrepare
  <2>1. /\ at[0] = Prepare /\ job = "running" /\ i >= groups_count /\ at' = [at EXCEPT ![0] = BcastNumbers]
        /\ UNCHANGED <<groups_count, rootVars, job>>
    BY <1>4 DEF EndPrepare
  <2>2. ~Tight \/ overran
    BY <1>0, <2>1 DEF Looping
  <2>3. ~Tight' \/ overran'
    BY <2>1, <2>2 DEF Tight
  <2>4. at'[0] = 3 /\ at' \in [Procs -> Int]
    BY <1>0, <1>1, <2>1
  <2>5. overran' => Crowded'
    BY <1>0, <2>1 DEF Crowded
  <2>6. QED
    BY <1>0, <2>1, <2>3, <2>4, <2>5
<1>5. CASE PassBarrier(0)
  <2>1. /\ at[0] = Barrier /\ job = "running" /\ at' = [at EXCEPT ![0] = Prepare]
        /\ available_ranks' = Size - groups_count
        /\ UNCHANGED <<groups_count, i, next_group_rank, group_numbers, overran, job>>
    BY <1>5 DEF PassBarrier
  <2>2. i = 0 /\ next_group_rank = 0 /\ ~overran /\ groups_count \in Nat
    BY <1>0, <2>1
  <2>3. Looping'
    <3>1. /\ i' = 0 /\ next_group_rank' = 0 /\ ~overran' /\ groups_count' = groups_count
          /\ available_ranks' = Size - groups_count'
      BY <2>1, <2>2
    <3>2. QED
      BY <2>2, <3>1 DEF Looping, Tight, Crowded
  <2>4. at'[0] = 2 /\ at' \in [Procs -> Int]
    BY <1>0, <1>1, <2>1
  <2>5. LoopTypes'
    BY <1>0, <2>1, <2>4
  <2> HIDE DEF LoopTypes
  <2>6. QED
    BY <2>1, <2>2, <2>3, <2>4, <2>5
<1>6. ASSUME NEW p \in Procs, Proc(p) \/ Exit(p), ~PassBarrier(0) PROVE LoopInv'
  <2>1. /\ UNCHANGED <<groups_count, rootVars>> /\ at' \in [Procs -> Int]
        /\ job = "running" /\ job' \in {"running", "nofile", "smashed"}
        /\ at[0] < Prepare => at'[0] < Prepare
        /\ at[0] = Prepare => at'[0] = Prepare
        /\ at[0] > Prepare => at'[0] > Prepare
    BY <1>0, <1>6, Others
  <2>2. at[0] \in Int /\ at'[0] \in Int
    BY <1>0, <1>1, <2>1
  <2>3. (Looping' <=> Looping) /\ (Tight' <=> Tight) /\ (Crowded' <=> Crowded)
    BY <2>1 DEF Looping, Tight, Crowded
  <2>4. LoopTypes'
    BY <1>0, <2>1
  <2> HIDE DEF LoopTypes
  <2>5. QED
    BY <1>0, <2>1, <2>2, <2>3, <2>4
<1>7. CASE Damage
  <2>1. /\ job' = "overrun" /\ UNCHANGED <<groups_count, rootVars, at>>
    BY <1>7 DEF Damage
  <2>2. (Tight' <=> Tight) /\ (Crowded' <=> Crowded)
    BY <2>1 DEF Tight, Crowded
  <2>3. QED
    BY <1>0, <2>1, <2>2
<1>8. CASE UNCHANGED vars
  BY <1>0, <1>8 DEF vars, Looping, Tight, Crowded
<1>9. QED
  BY <1>0, <1>2, <1>3, <1>4, <1>5, <1>6, <1>7, <1>8 DEF Next, Root

----------------------------------------------------------------------------
\* The ranks below r are divided, in order, among the groups below n.
Divided(g, r, n) ==
  /\ \A p \in Procs : p < r => g[p] \in 0..(n - 1)
  /\ \A p, q \in Procs : p =< q /\ q < r => g[p] =< g[q]
  /\ \A k \in 0..(n - 1) : \E p \in Procs : p < r /\ g[p] = k

\* One more group gets the ranks from r up to s.
LEMMA DivideMore ==
  ASSUME NEW g, NEW h, NEW r \in Nat, NEW s \in Nat, NEW n \in Nat,
         r < s, r < Size, Divided(g, r, n),
         \A p \in Procs : p < r => h[p] = g[p],
         \A p \in Procs : r =< p /\ p < s => h[p] = n
  PROVE  Divided(h, s, n + 1)
<1>1. r \in Procs /\ h[r] = n
  BY DEF Procs
<1>2. ASSUME NEW p \in Procs, p < s PROVE h[p] \in 0..n
  BY <1>2 DEF Divided, Procs
<1>3. ASSUME NEW p \in Procs, NEW q \in Procs, p =< q, q < s PROVE h[p] =< h[q]
  BY <1>3 DEF Divided, Procs
<1>4. ASSUME NEW k \in 0..n PROVE \E p \in Procs : p < s /\ h[p] = k
  <2>1. CASE k = n
    BY <1>1, <2>1
  <2>2. CASE k \in 0..(n - 1)
    <3>1. PICK p \in Procs : p < r /\ g[p] = k
      BY <2>2 DEF Divided
    <3>2. p < s /\ h[p] = k
      BY <3>1 DEF Procs
    <3>3. QED
      BY <3>2
  <2>3. QED
    BY <2>1, <2>2
<1>5. (n + 1) - 1 = n
  OBVIOUS
<1>6. QED
  BY <1>2, <1>3, <1>4, <1>5 DEF Divided

\* What rank 0 has put into its array: after an overrun, numbers of less than all
\* groups fill it.
NumbersInv ==
  groups_count > 0 =>
    /\ at[0] = Prepare /\ ~overran =>
         Divided(group_numbers, IF i < groups_count THEN next_group_rank ELSE Size, i)
    /\ at[0] > Prepare /\ ~overran => Divided(group_numbers, Size, groups_count)
    /\ overran => \E n \in 1..(groups_count - 1) : Divided(group_numbers, Size, n)

\* In a loop that does not fail there is a rank left for the next group.
LEMMA RankLeft ==
  LoopInv /\ job = "running" /\ ~Tight /\ at[0] = Prepare /\ i < groups_count =>
    next_group_rank < Size
  BY DEF LoopInv, LoopTypes, Looping, Tight

\* Enough of the ranks below s for a group of ranks from r to have been divided.
LEMMA DivideEnough ==
  ASSUME NEW g, NEW n \in Nat, NEW s \in Nat, s >= Size, Divided(g, s, n)
  PROVE  Divided(g, Size, n) /\ n >= 1
<1>1. \A p \in Procs : p < s /\ p < Size
  BY DEF Procs
<1>2. Divided(g, Size, n)
  BY <1>1 DEF Divided
<1>3. 0 \in Procs /\ g[0] \in 0..(n - 1)
  BY <1>1 DEF Divided, Procs
<1>4. QED
  BY <1>2, <1>3

\* The inputs of NumbersInv are all there is to it.
LEMMA SameNumbers ==
  NumbersInv /\ UNCHANGED <<groups_count, i, next_group_rank, group_numbers, overran>>
    /\ (at[0] = Prepare <=> at'[0] = Prepare) /\ (at[0] > Prepare <=> at'[0] > Prepare)
  => NumbersInv'
<1>1. SUFFICES ASSUME NumbersInv, groups_count' = groups_count, i' = i, overran' = overran,
                      next_group_rank' = next_group_rank, group_numbers' = group_numbers,
                      at[0] = Prepare <=> at'[0] = Prepare, at[0] > Prepare <=> at'[0] > Prepare
               PROVE  NumbersInv'
  OBVIOUS
<1>2. QED
  BY <1>1, Zenon DEF NumbersInv, Divided

LEMMA StepNumbers == LoopInv /\ LoopInv' /\ NumbersInv /\ [Next]_vars => NumbersInv'
<1>0. SUFFICES ASSUME LoopInv, LoopInv', NumbersInv, [Next]_vars PROVE NumbersInv'
  OBVIOUS
<1>1. 0 \in Procs /\ at \in [Procs -> Int] /\ Size \in Nat /\ Size >= 1
  BY <1>0 DEF Procs, LoopInv, LoopTypes
<1>t. /\ i \in Nat /\ next_group_rank \in Nat /\ groups_count \in Nat
      /\ group_numbers \in [Procs -> Nat] /\ available_ranks \in Int
  BY <1>0 DEF LoopInv, LoopTypes
<1>2. CASE PrepareGroup
  <2>1. /\ at[0] = Prepare /\ i < groups_count - 1 /\ job = "running" /\ groups_count > 0
        /\ UNCHANGED <<groups_count, at>>
    BY <1>t, <1>2 DEF PrepareGroup
  <2>2. CASE Modulus = 0
    BY <1>0, <1>2, <2>2, SameNumbers DEF PrepareGroup
  <2>3. CASE Modulus # 0
    <3>1. PICK m \in Randoms(Modulus) :
            /\ next_group_rank' = next_group_rank + GroupSize(m)
            /\ i' = i + 1
            /\ group_numbers' = [p \in Procs |->
                 IF next_group_rank =< p /\ p < next_group_rank + GroupSize(m)
                   THEN i ELSE group_numbers[p]]
            /\ overran' = (overran \/ next_group_rank + GroupSize(m) > Size)
            /\ job' = job
      BY <1>2, <2>3 DEF PrepareGroup
    <3>2. m \in Nat
      BY <1>t, ModulusLeavesTwo DEF Modulus
    <3>3. next_group_rank' \in Nat /\ next_group_rank < next_group_rank'
      BY <1>t, <3>1, <3>2 DEF GroupSize
    <3>4. /\ \A p \in Procs : p < next_group_rank => group_numbers'[p] = group_numbers[p]
          /\ \A p \in Procs : next_group_rank =< p /\ p < next_group_rank' => group_numbers'[p] = i
      BY <1>t, <3>1 DEF Procs
    <3>5. ~(at'[0] > Prepare) /\ at'[0] = Prepare /\ i' < groups_count' /\ i' \in 1..(groups_count - 1)
      BY <1>t, <2>1, <3>1
    <3>6. CASE ~overran
      <4>1. Divided(group_numbers, next_group_rank, i)
        <5>1. Divided(group_numbers, IF i < groups_count THEN next_group_rank ELSE Size, i)
          BY <1>0, <2>1, <3>6 DEF NumbersInv
        <5>2. QED
          BY <1>t, <2>1, <5>1
      <4>2. CASE next_group_rank < Size
        <5>1. Divided(group_numbers', next_group_rank', i + 1)
          BY <1>1, <1>t, <3>3, <3>4, <4>1, <4>2, DivideMore
        <5>2. overran' => \E n \in 1..(groups_count' - 1) : Divided(group_numbers', Size, n)
          <6>1. SUFFICES ASSUME overran'
                         PROVE  Divided(group_numbers', Size, i + 1)
            BY <2>1, <3>1, <3>5
          <6>2. next_group_rank' >= Size
            <7>1. next_group_rank + GroupSize(m) > Size
              BY <3>1, <3>6, <6>1, Zenon
            <7>2. QED
              BY <1>1, <3>1, <3>3, <7>1
          <6>3. i + 1 \in Nat
            BY <1>t
          <6>4. QED
            BY <3>3, <5>1, <6>2, <6>3, DivideEnough
        <5>3. QED
          BY <3>1, <3>5, <5>1, <5>2 DEF NumbersInv
      <4>3. CASE ~(next_group_rank < Size)
        <5>1. next_group_rank >= Size /\ next_group_rank + GroupSize(m) > Size
          BY <1>1, <1>t, <3>1, <3>3, <4>3
        <5>2. overran'
          BY <3>1, <5>1, Zenon
        <5>3. Divided(group_numbers, Size, i) /\ i >= 1
          BY <1>t, <4>1, <5>1, DivideEnough
        <5>4. \A p \in Procs : p < next_group_rank
          BY <1>1, <1>t, <5>1 DEF Procs
        <5>5. \A p \in Procs : group_numbers'[p] = group_numbers[p]
          BY <3>4, <5>4
        <5>6. Divided(group_numbers', Size, i)
          BY <5>3, <5>5 DEF Divided
        <5>7. i \in 1..(groups_count' - 1)
          BY <1>t, <2>1, <5>3
        <5>8. \E n \in 1..(groups_count' - 1) : Divided(group_numbers', Size, n)
          BY <5>6, <5>7
        <5>9. QED
          BY <3>5, <5>2, <5>8 DEF NumbersInv
      <4>4. QED
        BY <4>2, <4>3
    <3>7. CASE overran
      <4>1. overran'
        BY <3>1, <3>7, Zenon
      <4>2. PICK n \in 1..(groups_count - 1) : Divided(group_numbers, Size, n)
        BY <1>0, <2>1, <3>7 DEF NumbersInv
      <4>3. next_group_rank > Size
        BY <1>0, <2>1, <3>7 DEF LoopInv, Looping
      <4>4. \A p \in Procs : p < next_group_rank
        BY <1>1, <1>t, <4>3 DEF Procs
      <4>5. \A p \in Procs : group_numbers'[p] = group_numbers[p]
        BY <3>4, <4>4
      <4>6. Divided(group_numbers', Size, n)
        BY <4>2, <4>5 DEF Divided
      <4>7. \E k \in 1..(groups_count' - 1) : Divided(group_numbers', Size, k)
        BY <2>1, <4>2, <4>6
      <4>8. QED
        BY <3>5, <4>1, <4>7 DEF NumbersInv
    <3>8. QED
      BY <3>6, <3>7
  <2>4. QED
    BY <2>2, <2>3
<1>3. CASE PrepareLast
  <2>1. /\ at[0] = Prepare /\ job = "running" /\ i = groups_count - 1 /\ i' = i + 1
        /\ UNCHANGED <<groups_count, at, next_group_rank, overran>>
        /\ group_numbers' = [p \in Procs |->
              IF p >= next_group_rank THEN groups_count - 1 ELSE group_numbers[p]]
    BY <1>3 DEF PrepareLast
  <2>2. groups_count > 0 /\ i < groups_count /\ ~(i' < groups_count') /\ i' = groups_count
        /\ ~(at'[0] > Prepare)
    BY <1>t, <2>1
  <2>3. CASE ~overran
    <3>1. next_group_rank < Size
      <4>1. ~Tight
        BY <1>0, <1>t, <2>1, <2>3 DEF LoopInv, Looping
      <4>2. QED
        BY <1>0, <2>1, <2>2, <4>1, RankLeft
    <3>2. Divided(group_numbers, next_group_rank, i)
      <4>1. Divided(group_numbers, IF i < groups_count THEN next_group_rank ELSE Size, i)
        BY <1>0, <2>1, <2>2, <2>3 DEF NumbersInv
      <4>2. QED
        BY <2>2, <4>1
    <3>3. /\ \A p \in Procs : p < next_group_rank => group_numbers'[p] = group_numbers[p]
          /\ \A p \in Procs : next_group_rank =< p /\ p < Size => group_numbers'[p] = i
      BY <1>t, <2>1 DEF Procs
    <3>4. Divided(group_numbers', Size, i + 1)
      BY <1>1, <1>t, <3>1, <3>2, <3>3, DivideMore
    <3>5. ~overran'
      BY <2>1, <2>3
    <3>6. QED
      BY <2>1, <2>2, <3>4, <3>5 DEF NumbersInv
  <2>4. CASE overran
    <3>1. PICK n \in 1..(groups_count - 1) : Divided(group_numbers, Size, n)
      BY <1>0, <2>2, <2>4 DEF NumbersInv
    <3>2. next_group_rank > Size
      BY <1>0, <2>1, <2>4 DEF LoopInv, Looping
    <3>3. \A p \in Procs : ~(p >= next_group_rank)
      BY <1>1, <1>t, <3>2 DEF Procs
    <3>4. \A p \in Procs : group_numbers'[p] = group_numbers[p]
      BY <2>1, <3>3
    <3>5. Divided(group_numbers', Size, n)
      BY <3>1, <3>4 DEF Divided
    <3>6. \E k \in 1..(groups_count' - 1) : Divided(group_numbers', Size, k)
      BY <2>1, <3>1, <3>5
    <3>7. overran'
      BY <2>1, <2>4
    <3>8. QED
      BY <2>2, <3>6, <3>7 DEF NumbersInv
  <2>5. QED
    BY <2>3, <2>4
<1>4. CASE EndPrepare
  <2>1. /\ at[0] = Prepare /\ job = "running" /\ i >= groups_count /\ at'[0] = BcastNumbers
        /\ UNCHANGED <<groups_count, group_numbers, overran>>
    BY <1>1, <1>4 DEF EndPrepare
  <2>2. i = groups_count /\ ~(i < groups_count)
    BY <1>0, <1>t, <2>1 DEF LoopInv, Looping
  <2>3. at'[0] > Prepare /\ at'[0] # Prepare
    BY <2>1
  <2>4. groups_count > 0 /\ ~overran => Divided(group_numbers, Size, groups_count)
    <3>1. SUFFICES ASSUME groups_count > 0, ~overran
                   PROVE  Divided(group_numbers, Size, groups_count)
      OBVIOUS
    <3>2. Divided(group_numbers, IF i < groups_count THEN next_group_rank ELSE Size, i)
      BY <1>0, <2>1, <3>1 DEF NumbersInv
    <3>3. QED
      BY <2>2, <3>2
  <2>5. groups_count > 0 /\ overran => \E n \in 1..(groups_count - 1) : Divided(group_numbers, Size, n)
    BY <1>0 DEF NumbersInv
  <2>6. QED
    BY <2>1, <2>3, <2>4, <2>5, Zenon DEF NumbersInv, Divided
<1>5. CASE PassBarrier(0)
  <2>1. /\ at[0] < Prepare /\ at'[0] = Prepare
        /\ UNCHANGED <<groups_count, i, next_group_rank, overran>>
    BY <1>1, <1>5 DEF PassBarrier
  <2>2. i' = 0 /\ next_group_rank' = 0 /\ ~overran'
    BY <1>0, <2>1 DEF LoopInv
  <2>3. Divided(group_numbers', next_group_rank', i')
    BY <2>2 DEF Divided, Procs
  <2>4. ~(at'[0] > Prepare)
    BY <2>1
  <2>5. groups_count' > 0 => i' < groups_count'
    BY <2>2
  <2>6. QED
    BY <2>1, <2>2, <2>3, <2>4, <2>5 DEF NumbersInv
<1>6. ASSUME NEW p \in Procs, Proc(p) \/ Exit(p), ~PassBarrier(0) PROVE NumbersInv'
  <2>1. /\ UNCHANGED <<groups_count, rootVars>>
        /\ at[0] < Prepare => at'[0] < Prepare
        /\ at[0] = Prepare => at'[0] = Prepare
        /\ at[0] > Prepare => at'[0] > Prepare
        /\ at' \in [Procs -> Int]
    BY <1>0, <1>6, Others
  <2>2. at[0] \in Int /\ at'[0] \in Int
    BY <1>1, <2>1
  <2>3. (at[0] = Prepare <=> at'[0] = Prepare) /\ (at[0] > Prepare <=> at'[0] > Prepare)
    BY <2>1, <2>2
  <2>4. QED
    BY <1>0, <2>1, <2>3, SameNumbers
<1>7. CASE Damage \/ UNCHANGED vars
  <2>1. UNCHANGED <<groups_count, i, next_group_rank, group_numbers, overran, at>>
    BY <1>7, Zenon DEF vars, Damage, rootVars
  <2>2. QED
    BY <1>0, <2>1, SameNumbers
<1>8. QED
  BY <1>0, <1>2, <1>3, <1>4, <1>5, <1>6, <1>7 DEF Next, Root

----------------------------------------------------------------------------
\* The number a process has is that of a group there is, or still 0.
NamesInv ==
  /\ group_number \in [Procs -> Nat]
  /\ \A p \in Procs : group_number[p] = 0 \/ group_number[p] < groups_count
  /\ groups_count = 0 => \A p \in Procs : group_numbers[p] = 0
  /\ NamesFit

LEMMA StepNames == LoopInv /\ NumbersInv /\ NamesInv /\ [Next]_vars => NamesInv'
<1>0. SUFFICES ASSUME LoopInv, NumbersInv, NamesInv, [Next]_vars PROVE NamesInv'
  OBVIOUS
<1>1. groups_count \in Nat /\ i \in Nat /\ at \in [Procs -> Int] /\ 0 \in Procs
  BY <1>0 DEF LoopInv, LoopTypes, Procs
<1> USE DEF NamesInv, NamesFit
<1>2. CASE PrepareGroup
  <2>1. groups_count > 0 /\ UNCHANGED <<groups_count, group_number>> /\ job' # "smashed"
    BY <1>1, <1>2 DEF PrepareGroup
  <2>2. QED
    BY <1>0, <2>1
<1>3. CASE PrepareLast
  BY <1>0, <1>1, <1>3 DEF PrepareLast
<1>4. CASE EndPrepare
  BY <1>0, <1>4 DEF EndPrepare
<1>5. ASSUME NEW p \in Procs, PassNumbers(p) PROVE NamesInv'
  <2>1. at[0] > Prepare
    BY <1>1, <1>5 DEF PassNumbers, LeavesBcast
  <2>2. group_numbers[p] = 0 \/ group_numbers[p] < groups_count
    <3>1. CASE groups_count = 0
      BY <1>0, <3>1
    <3>2. CASE groups_count > 0
      <4>1. PICK n \in 1..groups_count : Divided(group_numbers, Size, n)
        <5>1. groups_count \in 1..groups_count /\ \A n \in 1..(groups_count - 1) : n \in 1..groups_count
          BY <1>1, <3>2
        <5>2. QED
          BY <1>0, <2>1, <3>2, <5>1 DEF NumbersInv
      <4>2. p < Size
        BY DEF Procs
      <4>3. QED
        BY <1>1, <4>1, <4>2 DEF Divided
    <3>3. QED
      BY <1>1, <3>1, <3>2
  <2>3. group_numbers[p] \in Nat
    BY <1>0 DEF LoopInv, LoopTypes
  <2>4. /\ group_number' = [group_number EXCEPT ![p] = group_numbers[p]]
        /\ UNCHANGED <<groups_count, group_numbers, job>>
    BY <1>5 DEF PassNumbers
  <2>5. QED
    BY <1>0, <2>2, <2>3, <2>4
<1>6. ASSUME NEW p \in Procs, PassDisplacements(p) PROVE NamesInv'
  <2>1. /\ UNCHANGED <<groups_count, group_numbers, group_number>>
        /\ job' = "smashed" => ~NameFits(p)
    BY <1>6 DEF PassDisplacements, saveBlockToFile
  <2>2. ~NameFits(p) => groups_count > LargestName + 1
    BY <1>0, <1>1 DEF NameFits
  <2>3. QED
    BY <1>0, <2>1, <2>2
<1>7. ASSUME NEW p \in Procs, Begin(p) PROVE NamesInv'
  BY <1>0, <1>7 DEF Begin, masterInitMatrix
<1>8. ASSUME NEW p \in Procs, PassBarrier(p) \/ PassSplit(p) \/ PassBcast(p) PROVE NamesInv'
  BY <1>0, <1>8 DEF PassBarrier, PassSplit, PassBcast
<1>9. ASSUME NEW p \in Procs, PassSizes(p) \/ PassGather(p) \/ PassFree(p) \/ Exit(p)
      PROVE  NamesInv'
  BY <1>0, <1>9 DEF PassSizes, PassGather, PassFree, Exit
<1>10. CASE UNCHANGED vars
  BY <1>0, <1>10 DEF vars
<1>11. ASSUME NEW p \in Procs, Flush(p) \/ PassSave(p) PROVE NamesInv'
  BY <1>0, <1>11 DEF Flush, PassSave
<1>12. CASE Damage
  BY <1>0, <1>12 DEF Damage
<1>13. QED
  BY <1>0, <1>2, <1>3, <1>4, <1>5, <1>6, <1>7, <1>8, <1>9, <1>10, <1>11, <1>12 DEF Next, Root, Proc

----------------------------------------------------------------------------
LEMMA Invariance == Spec => [](LoopInv /\ NumbersInv /\ NamesInv)
<1>1. Init => LoopInv /\ NumbersInv /\ NamesInv
  <2>1. Init => NumbersInv
    BY DEF Init, NumbersInv, Procs
  <2>2. Init => NamesInv
    BY DEF Init, NamesInv, NamesFit
  <2>3. QED
    BY <2>1, <2>2, InitLoop
<1>2. (LoopInv /\ NumbersInv /\ NamesInv) /\ [Next]_vars => (LoopInv /\ NumbersInv /\ NamesInv)'
  BY StepLoop, StepNumbers, StepNames
<1>3. QED
  BY <1>1, <1>2, PTL DEF Spec

\* groupsPrepare() divides by zero only if fewer than two ranks are to spare, and
\* writes past its array only if two groups or more find no rank; with too few ranks
\* it gets to its end only so.  For every number of processes and groups, and
\* whatever rand() returns.
THEOREM SplitIsSafe == Spec => []SplitsSafely
<1>1. LoopInv => SplitsSafely
  BY DEF LoopInv, LoopTypes, SplitsSafely, Crowded
<1>2. QED
  BY <1>1, Invariance, PTL

\* When rank 0 has divided the ranks, groups are consecutive and none is left out up to
\* that of the last rank; every group has a rank unless the array was overrun, and
\* then not every group has.
THEOREM GroupsAreWhole == Spec => []GroupsWhole
<1>1. LoopInv /\ NumbersInv => GroupsWhole
  <2>1. SUFFICES ASSUME LoopInv, NumbersInv, at[0] > Prepare, groups_count > 0
                 PROVE  /\ {group_numbers[p] : p \in Procs} = 0..group_numbers[Size - 1]
                        /\ \A p, q \in Procs : p =< q => group_numbers[p] =< group_numbers[q]
                        /\ group_numbers[Size - 1] = groups_count - 1 <=> ~overran
    BY Zenon DEF GroupsWhole
  <2>2. PICK n \in 1..groups_count : Divided(group_numbers, Size, n) /\ (n = groups_count <=> ~overran)
    <3>1. groups_count \in Nat
      BY <2>1 DEF LoopInv, LoopTypes
    <3>2. CASE ~overran
      <4>1. Divided(group_numbers, Size, groups_count) /\ groups_count \in 1..groups_count
        BY <2>1, <3>1, <3>2 DEF NumbersInv
      <4>2. QED
        BY <3>2, <4>1
    <3>3. CASE overran
      <4>1. PICK n \in 1..(groups_count - 1) : Divided(group_numbers, Size, n)
        BY <2>1, <3>3 DEF NumbersInv
      <4>2. n \in 1..groups_count /\ n # groups_count
        BY <3>1
      <4>3. QED
        BY <3>3, <4>1, <4>2
    <3>4. QED
      BY <3>2, <3>3
  <2>3. /\ n \in Nat \ {0} /\ groups_count \in Nat
        /\ \A p \in Procs : p < Size /\ p =< Size - 1 /\ p \in Nat
        /\ Size - 1 \in Procs
    BY <2>1 DEF Procs, LoopInv, LoopTypes
  <2>4. \A p \in Procs : group_numbers[p] \in 0..(n - 1) /\ group_numbers[p] =< group_numbers[Size - 1]
    BY <2>2, <2>3 DEF Divided
  <2>5. \A p, q \in Procs : p =< q => group_numbers[p] =< group_numbers[q]
    BY <2>2, <2>3 DEF Divided
  <2>6. group_numbers[Size - 1] = n - 1
    <3>1. PICK p \in Procs : group_numbers[p] = n - 1
      BY <2>2, <2>3 DEF Divided
    <3>2. QED
      BY <2>3, <2>4, <3>1
  <2>7. {group_numbers[p] : p \in Procs} = 0..(n - 1)
    BY <2>2, <2>3, <2>4 DEF Divided
  <2>8. n - 1 = groups_count - 1 <=> n = groups_count
    BY <2>3
  <2>9. group_numbers[Size - 1] = groups_count - 1 <=> ~overran
    BY <2>2, <2>6, <2>8, Zenon
  <2>10. QED
    BY <2>5, <2>6, <2>7, <2>9
<1>2. QED
  BY <1>1, Invariance, PTL

\* The name of a group's file fits rank[] whenever there are at most ten groups,
\* whatever number a process was sent and whenever it gets there.
THEOREM NamesAreShort == Spec => []NamesFit
<1>1. NamesInv => NamesFit
  BY DEF NamesInv
<1>2. QED
  BY <1>1, Invariance, PTL

----------------------------------------------------------------------------
(* The blocks of rows                                                      *)

LEMMA LeastNatural ==
  ASSUME NEW T \in SUBSET Nat, T # {}
  PROVE  \E m \in T : \A k \in T : m =< k
<1>1. PICK m \in T : \A k \in T : ~(<<k, m>> \in OpToRel(<, Nat))
  BY NatLessThanWellFounded, WFMin
<1>2. \A k \in T : ~(k < m)
  BY <1>1 DEF OpToRel
<1>3. QED
  BY <1>2

\* A rank in a group: how many of its members are less than q.
RankIn(G, q) == Cardinality({x \in G : x < q})

\* The members of a group have the ranks from 0, each another.
LEMMA Ranks ==
  ASSUME NEW G \in SUBSET Procs, G # {}
  PROVE  /\ IsFiniteSet(G) /\ Cardinality(G) \in Nat \ {0}
         /\ \A q \in G : RankIn(G, q) \in 0..(Cardinality(G) - 1)
         /\ \A q, o \in G : RankIn(G, q) = RankIn(G, o) => q = o
         /\ \A k \in 0..(Cardinality(G) - 1) : \E q \in G : RankIn(G, q) = k
<1> DEFINE n == Cardinality(G)
           Below(q) == {x \in G : x < q}
<1>1. IsFiniteSet(G) /\ n \in Nat
  <2>1. IsFiniteSet(Procs)
    BY FS_Interval DEF Procs
  <2>2. IsFiniteSet(G)
    BY <2>1, FS_Subset
  <2>3. QED
    BY <2>2, FS_CardinalityType
<1>2. n # 0
  BY <1>1, FS_EmptySet
<1>3. \A q \in G : q \in Int
  BY DEF Procs
<1>4. ASSUME NEW q \in G
      PROVE  /\ IsFiniteSet(Below(q)) /\ RankIn(G, q) = Cardinality(Below(q))
             /\ RankIn(G, q) \in 0..(n - 1)
  <2>1. Below(q) \in SUBSET (G \ {q})
    BY <1>3
  <2>2. IsFiniteSet(G \ {q}) /\ Cardinality(G \ {q}) = n - 1
    BY <1>1, FS_RemoveElement
  <2>3. IsFiniteSet(Below(q)) /\ Cardinality(Below(q)) =< n - 1
    BY <2>1, <2>2, FS_Subset
  <2>4. Cardinality(Below(q)) \in Nat
    BY <2>3, FS_CardinalityType
  <2>5. RankIn(G, q) = Cardinality(Below(q))
    BY DEF RankIn
  <2>6. QED
    BY <1>1, <2>3, <2>4, <2>5
<1>5. ASSUME NEW q \in G, NEW o \in G, q < o PROVE RankIn(G, q) < RankIn(G, o)
  <2>1. Below(q) \union {q} \in SUBSET Below(o)
    BY <1>3, <1>5
  <2>2. q \notin Below(q)
    BY <1>3
  <2>3. Cardinality(Below(q) \union {q}) = Cardinality(Below(q)) + 1
    BY <1>4, <2>2, FS_AddElement
  <2>4. Cardinality(Below(q) \union {q}) =< Cardinality(Below(o))
    BY <1>4, <2>1, FS_Subset
  <2> HIDE DEF Below, n
  <2>5. QED
    BY <1>1, <1>4, <2>3, <2>4
<1>6. ASSUME NEW q \in G, NEW o \in G, RankIn(G, q) = RankIn(G, o) PROVE q = o
  <2> HIDE DEF Below, n
  <2>1. RankIn(G, q) \in Int
    BY <1>1, <1>4
  <2>2. ~(q < o) /\ ~(o < q)
    BY <1>5, <1>6, <2>1
  <2>3. QED
    BY <1>3, <2>2
<1>7. \A k \in 0..(n - 1) : \E q \in G : RankIn(G, q) = k
  <2> DEFINE T == 0..(n - 1)
             f == [q \in G |-> RankIn(G, q)]
  <2>1. IsFiniteSet(T) /\ Cardinality(T) = n
    BY <1>1, <1>2, FS_Interval
  <2>2. f \in Injection(G, T)
    BY <1>4, <1>6 DEF Injection, IsInjective
  <2> HIDE DEF f, T, n
  <2>3. f \in Surjection(G, T)
    BY <2>1, <2>2, FS_Injection DEF n
  <2>4. QED
    BY <2>3 DEF Surjection, f, T
<1>8. QED
  BY <1>1, <1>2, <1>4, <1>6, <1>7

\* C's division of a size that is not negative.
LEMMA Share ==
  ASSUME NEW n \in Nat, NEW g \in Nat \ {0}
  PROVE  /\ n \div g \in Nat /\ g * (n \div g) =< n /\ n < g * ((n \div g) + 1)
         /\ n \div g =< n
<1> DEFINE q == n \div g
<1>1. q \in Int /\ g * q =< n /\ n < g * (q + 1)
  OBVIOUS
<1> HIDE DEF q
<1>2. q >= 0
  <2>1. ASSUME q =< -1 PROVE FALSE
    <3>1. g * (q + 1) =< g * 0
      BY <1>1, <2>1
    <3>2. QED
      BY <1>1, <3>1
  <2>2. QED
    BY <1>1, <2>1
<1>3. q =< n
  <2>1. q * 1 =< q * g
    BY <1>1, <1>2
  <2>2. QED
    BY <1>1, <2>1
<1>4. QED
  BY <1>1, <1>2, <1>3 DEF q

LEMMA Multiples ==
  ASSUME NEW a \in Nat, NEW b \in Nat, NEW w \in Nat, a =< b
  PROVE  a * w \in Nat /\ a * w =< b * w
<1>1. PICK c \in Nat : b = a + c
  <2>1. b - a \in Nat /\ b = a + (b - a)
    OBVIOUS
  <2>2. QED
    BY <2>1
<1>2. b * w = a * w + c * w /\ c * w \in Nat /\ a * w \in Nat
  BY <1>1
<1>3. QED
  BY <1>2

\* The blocks of a group of gs: all of the same size but the last, which has what is left.
LEMMA BlockSizes ==
  ASSUME NEW gs \in Nat \ {0}
  PROVE  /\ worker_scatter_size(gs) \in Nat
         /\ gs * worker_scatter_size(gs) =< N
         /\ N < gs * (worker_scatter_size(gs) + 1)
         /\ (gs - 1) * worker_scatter_size(gs) \in 0..N
         /\ \A k \in 0..(gs - 1) :
              /\ group_scatter_sizes(gs)[k] =
                   IF k = gs - 1 THEN N - (gs - 1) * worker_scatter_size(gs)
                                 ELSE worker_scatter_size(gs)
              /\ group_scatter_sizes(gs)[k] \in 0..N
<1> DEFINE w == worker_scatter_size(gs)
<1>1. w \in Nat /\ gs * w =< N /\ N < gs * (w + 1) /\ w =< N
  BY Share DEF worker_scatter_size
<1>2. (gs - 1) * w \in 0..N
  <2>1. (gs - 1) * w \in Nat /\ (gs - 1) * w =< gs * w
    <3>1. gs - 1 \in Nat /\ gs - 1 =< gs
      OBVIOUS
    <3>2. QED
      BY <1>1, <3>1, Multiples
  <2>2. gs * w \in Int
    BY <1>1
  <2>3. QED
    BY <1>1, <2>1, <2>2
<1>3. \A k \in 0..(gs - 1) :
        group_scatter_sizes(gs)[k] = IF k = gs - 1 THEN N - (gs - 1) * w ELSE w
  BY DEF group_scatter_sizes, last_worker_scatter_size
<1> DEFINE last == (gs - 1) * w
<1>4. \A k \in 0..(gs - 1) : group_scatter_sizes(gs)[k] \in 0..N
  <2>1. last \in 0..N /\ \A k \in 0..(gs - 1) :
          group_scatter_sizes(gs)[k] = IF k = gs - 1 THEN N - last ELSE w
    BY <1>2, <1>3
  <2> HIDE DEF last, w
  <2>2. QED
    BY <1>1, <2>1
<1>5. QED
  BY <1>1, <1>2, <1>3, <1>4

\* The definition of the displacements by recursion has one solution: the block of
\* rank k begins behind k blocks of the size all but the last have.
LEMMA BlockPlaces ==
  ASSUME NEW gs \in Nat \ {0}
  PROVE  \A k \in 0..(gs - 1) :
           /\ group_scatter_displacements(gs)[k] = k * worker_scatter_size(gs)
           /\ k * worker_scatter_size(gs) \in 0..N
<1> DEFINE w == worker_scatter_size(gs)
           K == 0..(gs - 1)
           Def(d) == d = [k \in K |-> IF k = 0 THEN 0 ELSE d[k - 1] + group_scatter_sizes(gs)[k - 1]]
           e == [k \in K |-> k * w]
           c == CHOOSE d : Def(d)
<1>1. w \in Nat /\ (gs - 1) * w \in 0..N
  BY BlockSizes
<1>2. \A k \in K : k # 0 => k - 1 \in K /\ group_scatter_sizes(gs)[k - 1] = w
  <2>1. \A k \in K : k # 0 => k - 1 \in K /\ k - 1 # gs - 1
    OBVIOUS
  <2>2. QED
    BY <2>1, BlockSizes
<1>3. Def(e)
  <2> SUFFICES ASSUME NEW k \in K
               PROVE  k * w = IF k = 0 THEN 0 ELSE e[k - 1] + group_scatter_sizes(gs)[k - 1]
    OBVIOUS
  <2>1. CASE k = 0
    BY <1>1, <2>1
  <2>2. CASE k # 0
    <3>1. e[k - 1] + group_scatter_sizes(gs)[k - 1] = (k - 1) * w + w
      BY <1>2, <2>2
    <3>2. (k - 1) * w + w = k * w
      BY <1>1
    <3>3. QED
      BY <2>2, <3>1, <3>2
  <2>3. QED
    BY <2>1, <2>2
<1>4. Def(c)
  BY <1>3, Zenon
<1>5. c = group_scatter_displacements(gs)
  BY DEF group_scatter_displacements
<1> HIDE DEF w
<1>6. /\ c = [k \in K |-> c[k]]
      /\ \A k \in K : c[k] = IF k = 0 THEN 0 ELSE c[k - 1] + group_scatter_sizes(gs)[k - 1]
  <2> HIDE DEF c
  <2>1. QED
    BY <1>4
<1> HIDE DEF c, Def, e
<1> DEFINE T == {k \in K : c[k] # k * w}
<1>7. ASSUME T # {} PROVE FALSE
  <2>1. PICK m \in T : \A k \in T : m =< k
    <3>1. T \in SUBSET Nat
      OBVIOUS
    <3>2. QED
      BY <1>7, <3>1, LeastNatural
  <2>2. m \in K /\ c[m] # m * w
    OBVIOUS
  <2>3. m # 0
    <3>1. 0 * w = 0
      BY <1>1
    <3>2. 0 \in K => c[0] = 0
      BY <1>6, Zenon
    <3>3. QED
      BY <2>2, <3>1, <3>2, Zenon
  <2>4. m - 1 \in K /\ m - 1 \notin T
    BY <1>2, <2>1, <2>2, <2>3
  <2>5. c[m - 1] = (m - 1) * w
    BY <2>4
  <2>6. c[m] = (m - 1) * w + w
    BY <1>2, <1>6, <2>2, <2>3, <2>5
  <2>7. (m - 1) * w + w = m * w
    BY <1>1, <2>2
  <2>8. QED
    BY <2>2, <2>6, <2>7
<1>8. \A k \in K : k * w \in 0..N
  <2> SUFFICES ASSUME NEW k \in K PROVE k * w \in 0..N
    OBVIOUS
  <2>1. k \in Nat /\ gs - 1 \in Nat /\ k =< gs - 1
    OBVIOUS
  <2>2. k * w \in Nat /\ k * w =< (gs - 1) * w
    BY <1>1, <2>1, Multiples
  <2> DEFINE last == (gs - 1) * w
             x == k * w
  <2>3. x \in Nat /\ x =< last /\ last \in 0..N
    BY <1>1, <2>2
  <2> HIDE DEF last, x
  <2>4. x \in 0..N
    BY <2>3
  <2>5. QED
    BY <2>4 DEF x
<1>9. QED
  BY <1>5, <1>7, <1>8 DEF w

\* Row r belongs to the block of rank k.
InBlock(gs, k, r) ==
  /\ r >= k * worker_scatter_size(gs)
  /\ r - k * worker_scatter_size(gs) < group_scatter_sizes(gs)[k]

\* Every row belongs to one block.
LEMMA BlocksCover ==
  ASSUME NEW gs \in Nat \ {0}, NEW r \in Rows
  PROVE  \E k \in 0..(gs - 1) : InBlock(gs, k, r)
<1> DEFINE w == worker_scatter_size(gs)
           last == (gs - 1) * w
<1>1. w \in Nat /\ last \in 0..N /\ r \in Nat /\ r < N
  BY BlockSizes DEF Rows
<1>2. \A k \in 0..(gs - 1) : group_scatter_sizes(gs)[k] = IF k = gs - 1 THEN N - last ELSE w
  BY BlockSizes
<1>3. CASE r >= last
  <2> HIDE DEF w, last
  <2>1. gs - 1 \in 0..(gs - 1) /\ group_scatter_sizes(gs)[gs - 1] = N - last
    BY <1>2
  <2>2. r - last < N - last
    BY <1>1
  <2>3. InBlock(gs, gs - 1, r)
    BY <1>3, <2>1, <2>2 DEF InBlock, w, last
  <2>4. QED
    BY <2>1, <2>3
<1>4. CASE r < last
  <2>1. w # 0
    <3>1. (gs - 1) * 0 = 0
      OBVIOUS
    <3>2. QED
      BY <1>1, <1>4, <3>1
  <2> DEFINE k == r \div w
             x == k * w
  <2>2. k \in Nat /\ w * k =< r /\ r < w * (k + 1)
    BY <1>1, <2>1, Share
  <2>3. x \in Nat /\ x =< r /\ r < x + w
    BY <1>1, <2>2
  <2>4. k < gs - 1
    <3> HIDE DEF k, w, x
    <3>1. ASSUME k >= gs - 1 PROVE FALSE
      <4>1. (gs - 1) * w =< k * w
        BY <1>1, <2>2, <3>1, Multiples
      <4>2. QED
        BY <1>1, <1>4, <2>3, <4>1 DEF x
    <3>2. QED
      BY <2>2, <3>1
  <2>5. k \in 0..(gs - 1) /\ group_scatter_sizes(gs)[k] = w
    <3> HIDE DEF k, w, last
    <3>1. QED
      BY <1>2, <2>2, <2>4
  <2>6. r - x < w
    <3> HIDE DEF x, w
    <3>1. QED
      BY <1>1, <2>3
  <2>7. InBlock(gs, k, r)
    BY <2>3, <2>5, <2>6, Zenon DEF InBlock, x, w
  <2>8. QED
    BY <2>5, <2>7, Zenon
<1>5. QED
  <2> HIDE DEF w, last
  <2>1. QED
    BY <1>1, <1>3, <1>4

LEMMA BlocksApart ==
  ASSUME NEW gs \in Nat \ {0}, NEW r \in Rows, NEW k \in 0..(gs - 1), NEW l \in 0..(gs - 1),
         InBlock(gs, k, r), InBlock(gs, l, r)
  PROVE  k = l
<1> DEFINE w == worker_scatter_size(gs)
<1>1. w \in Nat /\ r \in Nat
  BY BlockSizes DEF Rows
<1>2. ASSUME NEW a \in 0..(gs - 1), NEW b \in 0..(gs - 1), a < b,
             InBlock(gs, a, r), InBlock(gs, b, r)
      PROVE  FALSE
  <2> DEFINE x == a * w
             y == b * w
             z == (a + 1) * w
  <2>1. group_scatter_sizes(gs)[a] = w
    BY <1>2, BlockSizes
  <2>2. r - x < w /\ r >= y
    BY <1>2, <2>1, Zenon DEF InBlock
  <2>3. z = x + w /\ x \in Nat
    BY <1>1
  <2>4. z =< y /\ z \in Nat
    BY <1>1, <1>2, Multiples
  <2> HIDE DEF x, y, z, w
  <2>5. y \in Int
    BY <1>1 DEF y
  <2>6. QED
    BY <1>1, <2>2, <2>3, <2>4, <2>5
<1>3. QED
  BY <1>2

\* A row is in the block of one member of the group.
LEMMA Owner ==
  ASSUME NEW G \in SUBSET Procs, G # {}, NEW r \in Rows
  PROVE  \E q \in G : {o \in G : InBlock(Cardinality(G), RankIn(G, o), r)} = {q}
<1> DEFINE gs == Cardinality(G)
<1>1. gs \in Nat \ {0} /\ \A q \in G : RankIn(G, q) \in 0..(gs - 1)
  BY Ranks
<1>2. PICK k \in 0..(gs - 1) : InBlock(gs, k, r)
  BY <1>1, BlocksCover
<1>3. PICK q \in G : RankIn(G, q) = k
  BY Ranks
<1>4. ASSUME NEW o \in G, InBlock(gs, RankIn(G, o), r) PROVE o = q
  <2>1. RankIn(G, o) = k
    BY <1>1, <1>2, <1>4, BlocksApart
  <2>2. QED
    BY <1>3, <2>1, Ranks
<1>5. InBlock(gs, RankIn(G, q), r)
  BY <1>2, <1>3
<1> HIDE DEF gs
<1>6. {o \in G : InBlock(gs, RankIn(G, o), r)} = {q}
  BY <1>4, <1>5
<1>7. QED
  BY <1>6 DEF gs

----------------------------------------------------------------------------
(* The product in the groups                                               *)

BlockTypes ==
  /\ scatter_size \in [Procs -> 0..N] /\ scatter_displacement \in [Procs -> 0..N]
  /\ C_result \in [Procs -> [Rows -> {Zero} \union Rows]]

GroupTypes == at \in [Procs -> 0..12] /\ group_number \in [Procs -> Nat] /\ BlockTypes

\* No process is behind MPI_Comm_split while another has still to pick its number.
SplitDone == \A p \in Procs : at[p] > Split => \A q \in Procs : at[q] >= Split

\* What p was scattered is what its rank in its group says.
Blocks(p) ==
  /\ at[p] >= Displacements =>
       scatter_size[p] = group_scatter_sizes(Cardinality(Group(p)))[GroupRank(p)]
  /\ at[p] >= Save =>
       scatter_displacement[p] = GroupRank(p) * worker_scatter_size(Cardinality(Group(p)))

WholeInv == GroupTypes /\ SplitDone /\ (\A p \in Procs : Blocks(p)) /\ ResultWhole

LEMMA Groups ==
  ASSUME NEW p \in Procs
  PROVE  /\ Group(p) \in SUBSET Procs /\ p \in Group(p)
         /\ \A q \in Group(p) : Group(q) = Group(p) /\ GroupRank(q) = RankIn(Group(p), q)
         /\ Cardinality(Group(p)) \in Nat \ {0}
         /\ GroupRank(p) \in 0..(Cardinality(Group(p)) - 1)
<1>1. Group(p) \in SUBSET Procs /\ p \in Group(p)
  BY DEF Group
<1>2. \A q \in Group(p) : Group(q) = Group(p)
  BY DEF Group
<1>3. \A q \in Group(p) : GroupRank(q) = RankIn(Group(p), q)
  BY <1>2 DEF GroupRank, RankIn
<1>4. Cardinality(Group(p)) \in Nat \ {0} /\ RankIn(Group(p), p) \in 0..(Cardinality(Group(p)) - 1)
  BY <1>1, Ranks
<1>5. QED
  BY <1>1, <1>2, <1>3, <1>4

\* A process whose block has been scattered has the rows of its rank.
LEMMA HasBlock ==
  ASSUME NEW p \in Procs, NEW q \in Group(p), Blocks(q), at \in [Procs -> 0..12], at[q] >= Gather
  PROVE  /\ scatter_displacement[q]
              = RankIn(Group(p), q) * worker_scatter_size(Cardinality(Group(p)))
         /\ scatter_size[q] = group_scatter_sizes(Cardinality(Group(p)))[RankIn(Group(p), q)]
         /\ scatter_displacement[q]
              = group_scatter_displacements(Cardinality(Group(p)))[RankIn(Group(p), q)]
<1>1. /\ Group(q) = Group(p) /\ GroupRank(q) = RankIn(Group(p), q) /\ q \in Procs
      /\ Cardinality(Group(p)) \in Nat \ {0}
  BY Groups
<1>2. RankIn(Group(p), q) \in 0..(Cardinality(Group(p)) - 1)
  BY <1>1, Groups
<1>3. at[q] >= 7 /\ at[q] >= 8
  BY <1>1
<1>4. QED
  BY <1>1, <1>2, <1>3, BlockPlaces DEF Blocks

\* MPI_Gatherv puts every row at its place.
LEMMA GatherWhole ==
  ASSUME NEW p \in Procs, at \in [Procs -> 0..12],
         \A q \in Group(p) : at[q] >= Gather /\ Blocks(q)
  PROVE  Gathered(p) = [r \in Rows |-> r]
<1> DEFINE G == Group(p)
           gs == Cardinality(G)
           w == worker_scatter_size(gs)
<1>1. G \in SUBSET Procs /\ G # {} /\ gs \in Nat \ {0}
  BY Groups
<1>2. \A q \in G : /\ GroupRank(q) = RankIn(G, q) /\ scatter_displacement[q] = RankIn(G, q) * w
                   /\ scatter_size[q] = group_scatter_sizes(gs)[RankIn(G, q)]
                   /\ group_scatter_displacements(gs)[GroupRank(q)] = RankIn(G, q) * w
  BY HasBlock, Groups
<1> SUFFICES ASSUME NEW r \in Rows PROVE Gathered(p)[r] = r
  BY DEF Gathered
<1> DEFINE from == {q \in G : /\ r >= group_scatter_displacements(gs)[GroupRank(q)]
                              /\ r - group_scatter_displacements(gs)[GroupRank(q)]
                                   < scatter_size[q]}
           owner == CHOOSE q \in from : \A o \in from : o =< q
<1>3. from = {q \in G : InBlock(gs, RankIn(G, q), r)}
  <2> HIDE DEF G, gs
  <2>1. \A q \in G : InBlock(gs, RankIn(G, q), r)
                     <=> /\ r >= group_scatter_displacements(gs)[GroupRank(q)]
                         /\ r - group_scatter_displacements(gs)[GroupRank(q)] < scatter_size[q]
    BY <1>2, Zenon DEF InBlock
  <2>2. QED
    BY <2>1, Zenon
<1>4. PICK q \in G : from = {q}
  BY <1>1, <1>3, Owner
<1>5. owner = q
  <2>1. q \in Int
    BY <1>1 DEF Procs
  <2> HIDE DEF from
  <2>2. q \in from /\ (\A o \in from : o =< q) /\ \A o \in from : o = q
    BY <1>4, <2>1
  <2>3. owner \in from
    BY <2>2, Zenon
  <2>4. QED
    BY <2>2, <2>3
<1>6. Gathered(p)[r]
        = IF from = {} THEN Zero
          ELSE r - group_scatter_displacements(gs)[GroupRank(owner)] + scatter_displacement[owner]
  BY DEF Gathered
<1> HIDE DEF from, owner, G, gs
<1>7. Gathered(p)[r] = r - group_scatter_displacements(gs)[GroupRank(q)] + scatter_displacement[q]
  BY <1>4, <1>5, <1>6, Zenon
<1>8. scatter_displacement[q] = group_scatter_displacements(gs)[GroupRank(q)]
      /\ scatter_displacement[q] \in Int
  <2>1. RankIn(G, q) \in Int /\ w \in Int
    <3>1. gs \in Nat \ {0} /\ RankIn(G, q) \in 0..(gs - 1)
      BY <1>1, Ranks DEF gs
    <3>2. QED
      BY <3>1, BlockSizes
  <2>2. RankIn(G, q) * w \in Int
    BY <2>1
  <2>3. QED
    BY <1>2, <2>2, Zenon
<1>9. r \in Int
  BY DEF Rows
<1>10. QED
  BY <1>7, <1>8, <1>9

\* A process goes on, but nobody goes into MPI_Comm_split's result alone.
LEMMA Advance ==
  ASSUME GroupTypes, SplitDone, NEW p \in Procs, NEW s \in 0..12, Next1(p, s),
         at[p] =< s, s > Split => at[p] > Split \/ Reached(Procs, Split)
  PROVE  /\ at' \in [Procs -> 0..12] /\ SplitDone'
         /\ \A q \in Procs : at'[q] = IF q = p THEN s ELSE at[q]
<1>1. at \in [Procs -> 0..12] /\ at' = [at EXCEPT ![p] = s]
  BY DEF GroupTypes
<1>2. at' \in [Procs -> 0..12] /\ \A q \in Procs : at'[q] = IF q = p THEN s ELSE at[q]
  BY <1>1
<1>3. ASSUME NEW o \in Procs, at'[o] > 4, NEW q \in Procs PROVE at'[q] >= 4
  <2>1. at[o] > 4 \/ \A x \in Procs : at[x] >= 4
    BY <1>2, <1>3 DEF Reached
  <2>2. at[q] >= 4
    BY <2>1 DEF SplitDone
  <2>3. QED
    BY <1>1, <1>2, <2>2
<1>4. QED
  BY <1>2, <1>3 DEF SplitDone

LEMMA SameGroups ==
  ASSUME group_number' = group_number, NEW p \in Procs
  PROVE  Group(p)' = Group(p) /\ GroupRank(p)' = GroupRank(p) /\ GroupRoot(p)' = GroupRoot(p)
<1>1. Group(p)' = Group(p)
  BY DEF Group
<1>2. QED
  BY <1>1, Zenon DEF GroupRank, GroupRoot

\* What a process has stays while it does not go on.
LEMMA SameBlocks ==
  ASSUME group_number' = group_number, NEW q \in Procs, Blocks(q), at'[q] = at[q],
         scatter_size'[q] = scatter_size[q], scatter_displacement'[q] = scatter_displacement[q]
  PROVE  Blocks(q)'
<1>1. Group(q)' = Group(q) /\ GroupRank(q)' = GroupRank(q)
  BY SameGroups
<1>2. QED
  BY <1>1, Zenon DEF Blocks, worker_scatter_size, group_scatter_sizes, last_worker_scatter_size

\* The stages up to the sizes.
LEMMA EarlyWhole ==
  ASSUME WholeInv, NEW p \in Procs, NEW s \in 0..6, Next1(p, s),
         at[p] =< s, s > Split => at[p] > Split \/ Reached(Procs, Split),
         UNCHANGED <<group_number, scatter_size, scatter_displacement, C_result>>
  PROVE  WholeInv'
<1>1. GroupTypes /\ SplitDone /\ ResultWhole /\ \A q \in Procs : Blocks(q)
  BY DEF WholeInv
<1>2. /\ at' \in [Procs -> 0..12] /\ SplitDone'
      /\ \A q \in Procs : at'[q] = IF q = p THEN s ELSE at[q]
  <2>1. s \in 0..12
    OBVIOUS
  <2>2. QED
    BY <1>1, <2>1, Advance
<1>3. GroupTypes'
  BY <1>1, <1>2 DEF GroupTypes, BlockTypes
<1>4. ASSUME NEW q \in Procs PROVE Blocks(q)'
  <2>1. CASE q = p
    <3>1. ~(at'[q] >= 7) /\ ~(at'[q] >= 8)
      BY <1>2, <2>1
    <3>2. QED
      BY <3>1 DEF Blocks
  <2>2. CASE q # p
    BY <1>1, <1>2, <2>2, SameBlocks
  <2>3. QED
    BY <2>1, <2>2
<1>5. ResultWhole'
  <2> SUFFICES ASSUME NEW q \in Procs, at'[q] >= 10, q = GroupRoot(q)', NEW r \in Rows
               PROVE  C_result'[q][r] = r
    BY DEF ResultWhole
  <2>1. q # p
    BY <1>2
  <2>2. at[q] >= 10 /\ q = GroupRoot(q)
    BY <1>2, <2>1, SameGroups
  <2>3. QED
    BY <1>1, <2>2 DEF ResultWhole
<1>6. QED
  BY <1>2, <1>3, <1>4, <1>5, Zenon DEF WholeInv

LEMMA NumbersWhole ==
  ASSUME WholeInv, LoopTypes, NEW p \in Procs, PassNumbers(p)
  PROVE  WholeInv'
<1>1. GroupTypes /\ SplitDone
  BY DEF WholeInv
<1>2. /\ at[p] = 3 /\ Next1(p, 4) /\ UNCHANGED <<scatter_size, scatter_displacement, C_result>>
      /\ group_number' = [group_number EXCEPT ![p] = group_numbers[p]]
  BY DEF PassNumbers, LeavesBcast
<1>3. /\ at' \in [Procs -> 0..12] /\ SplitDone'
      /\ \A q \in Procs : at'[q] = IF q = p THEN 4 ELSE at[q]
  <2>1. 4 \in 0..12 /\ at[p] =< 4 /\ ~(4 > Split)
    BY <1>2
  <2>2. QED
    BY <1>1, <1>2, <2>1, Advance, Zenon
<1>4. \A q \in Procs : at'[q] =< 4
  <2>1. \A q \in Procs : ~(at[q] > 4)
    BY <1>1, <1>2 DEF SplitDone
  <2>2. QED
    BY <1>1, <1>3, <2>1 DEF GroupTypes
<1>5. GroupTypes'
  BY <1>1, <1>2, <1>3 DEF GroupTypes, BlockTypes, LoopTypes
<1>6. \A q \in Procs : ~(at'[q] >= 7) /\ ~(at'[q] >= 8) /\ ~(at'[q] >= 10)
  BY <1>3, <1>4
<1>7. (\A q \in Procs : Blocks(q)') /\ ResultWhole'
  BY <1>6 DEF Blocks, ResultWhole
<1>8. QED
  BY <1>3, <1>5, <1>7, Zenon DEF WholeInv

\* What is left of an action that follows MPI_Comm_split: p's own block, and its result.
LEMMA LateWhole ==
  ASSUME WholeInv, NEW p \in Procs, NEW s \in 7..12, Next1(p, s), at[p] \in 5..12, at[p] =< s,
         group_number' = group_number, BlockTypes',
         \A q \in Procs : q # p => /\ scatter_size'[q] = scatter_size[q]
                                   /\ scatter_displacement'[q] = scatter_displacement[q]
                                   /\ C_result'[q] = C_result[q],
         Blocks(p)',
         s >= Free /\ p = GroupRoot(p) => \A r \in Rows : C_result'[p][r] = r
  PROVE  WholeInv'
<1>1. GroupTypes /\ SplitDone /\ ResultWhole /\ \A q \in Procs : Blocks(q)
  BY DEF WholeInv
<1>2. /\ at' \in [Procs -> 0..12] /\ SplitDone'
      /\ \A q \in Procs : at'[q] = IF q = p THEN s ELSE at[q]
  <2>1. s \in 0..12 /\ at[p] > 4
    OBVIOUS
  <2>2. QED
    BY <1>1, <2>1, Advance, Zenon
<1>3. ASSUME NEW q \in Procs PROVE Blocks(q)'
  <2>1. CASE q # p
    BY <1>1, <1>2, <2>1, SameBlocks
  <2>2. QED
    BY <2>1
<1>4. ResultWhole'
  <2> SUFFICES ASSUME NEW q \in Procs, at'[q] >= 10, q = GroupRoot(q)', NEW r \in Rows
               PROVE  C_result'[q][r] = r
    BY DEF ResultWhole
  <2>1. q = GroupRoot(q)
    BY SameGroups
  <2>2. CASE q = p
    BY <1>2, <2>1, <2>2
  <2>3. CASE q # p
    BY <1>1, <1>2, <2>1, <2>3 DEF ResultWhole
  <2>4. QED
    BY <2>2, <2>3
<1>5. GroupTypes'
  BY <1>1, <1>2 DEF GroupTypes
<1>6. QED
  BY <1>2, <1>3, <1>4, <1>5, Zenon DEF WholeInv

LEMMA NewBlock ==
  ASSUME group_number' = group_number, NEW p \in Procs,
         at'[p] >= Displacements =>
           scatter_size'[p] = group_scatter_sizes(Cardinality(Group(p)))[GroupRank(p)],
         at'[p] >= Save =>
           scatter_displacement'[p] = GroupRank(p) * worker_scatter_size(Cardinality(Group(p)))
  PROVE  Blocks(p)'
<1>1. Group(p)' = Group(p) /\ GroupRank(p)' = GroupRank(p)
  BY SameGroups
<1>2. QED
  BY <1>1, Zenon DEF Blocks, worker_scatter_size, group_scatter_sizes, last_worker_scatter_size

LEMMA SizesWhole ==
  ASSUME WholeInv, NEW p \in Procs, PassSizes(p)
  PROVE  WholeInv'
<1> DEFINE size == group_scatter_sizes(Cardinality(Group(p)))[GroupRank(p)]
<1>1. /\ at[p] = 6 /\ at' = [at EXCEPT ![p] = 7] /\ scatter_size' = [scatter_size EXCEPT ![p] = size]
      /\ UNCHANGED <<group_number, scatter_displacement, C_result>>
  BY DEF PassSizes, LeavesBcast
<1>2. size \in 0..N
  BY Groups, BlockSizes
<1> HIDE DEF size
<1>3. BlockTypes /\ at \in [Procs -> 0..12] /\ ResultWhole
  BY DEF WholeInv, GroupTypes
<1>4. /\ BlockTypes' /\ at'[p] = 7 /\ scatter_size'[p] = size
      /\ \A q \in Procs : q # p => scatter_size'[q] = scatter_size[q]
  BY <1>1, <1>2, <1>3 DEF BlockTypes
<1>5. Blocks(p)'
  BY <1>1, <1>4, NewBlock DEF size
<1>6. 7 \in 7..12 /\ at[p] \in 5..12 /\ at[p] =< 7 /\ ~(7 >= Free) /\ Next1(p, 7)
  BY <1>1
<1>7. \A q \in Procs : q # p => /\ scatter_size'[q] = scatter_size[q]
                                /\ scatter_displacement'[q] = scatter_displacement[q]
                                /\ C_result'[q] = C_result[q]
  BY <1>1, <1>4
<1>8. QED
  BY <1>1, <1>4, <1>5, <1>6, <1>7, LateWhole, Zenon

LEMMA DisplacementsWhole ==
  ASSUME WholeInv, NEW p \in Procs, PassDisplacements(p)
  PROVE  WholeInv'
<1> DEFINE place == group_scatter_displacements(Cardinality(Group(p)))[GroupRank(p)]
<1>1. /\ at[p] = 7 /\ at' = [at EXCEPT ![p] = 8]
      /\ scatter_displacement' = [scatter_displacement EXCEPT ![p] = place]
      /\ UNCHANGED <<group_number, scatter_size, C_result>>
  BY DEF PassDisplacements, LeavesBcast
<1>2. place \in 0..N /\ place = GroupRank(p) * worker_scatter_size(Cardinality(Group(p)))
  BY Groups, BlockPlaces
<1>3. BlockTypes /\ at \in [Procs -> 0..12] /\ Blocks(p)
  BY DEF WholeInv, GroupTypes
<1> HIDE DEF place
<1>4. /\ BlockTypes' /\ at'[p] = 8 /\ scatter_displacement'[p] = place
      /\ \A q \in Procs : q # p => scatter_displacement'[q] = scatter_displacement[q]
  BY <1>1, <1>2, <1>3 DEF BlockTypes
<1>5. scatter_size'[p] = group_scatter_sizes(Cardinality(Group(p)))[GroupRank(p)]
  BY <1>1, <1>3 DEF Blocks
<1>6. Blocks(p)'
  BY <1>1, <1>2, <1>4, <1>5, NewBlock
<1>7. 8 \in 7..12 /\ at[p] \in 5..12 /\ at[p] =< 8 /\ ~(8 >= Free) /\ Next1(p, 8)
  BY <1>1
<1>8. \A q \in Procs : q # p => /\ scatter_size'[q] = scatter_size[q]
                                /\ scatter_displacement'[q] = scatter_displacement[q]
                                /\ C_result'[q] = C_result[q]
  BY <1>1, <1>4
<1>9. QED
  BY <1>1, <1>4, <1>6, <1>7, <1>8, LateWhole, Zenon

\* Rank 0 leaves MPI_Gatherv when the blocks of all have come.
LEMMA GatheredWhole ==
  ASSUME WholeInv, NEW p \in Procs, PassGather(p)
  PROVE  WholeInv'
<1> DEFINE s == IF Finalizes(p) THEN Free ELSE Finalize
<1>1. /\ at[p] = 9 /\ at' = [at EXCEPT ![p] = s] /\ s \in {10, 11}
      /\ C_result' = IF p = GroupRoot(p) THEN [C_result EXCEPT ![p] = Gathered(p)] ELSE C_result
      /\ p = GroupRoot(p) => Reached(Group(p), 9)
      /\ UNCHANGED <<group_number, scatter_size, scatter_displacement>>
  BY DEF PassGather, LeavesGather
<1> HIDE DEF s
<1>2. BlockTypes /\ at \in [Procs -> 0..12] /\ \A q \in Procs : Blocks(q)
  BY DEF WholeInv, GroupTypes
<1>3. p = GroupRoot(p) => Gathered(p) = [r \in Rows |-> r]
  <2>1. Group(p) \in SUBSET Procs
    BY Groups
  <2>2. QED
    BY <1>1, <1>2, <2>1, GatherWhole DEF Reached
<1>4. /\ BlockTypes' /\ at'[p] = s
      /\ p = GroupRoot(p) => \A r \in Rows : C_result'[p][r] = r
      /\ \A q \in Procs : q # p => C_result'[q] = C_result[q]
  BY <1>1, <1>2, <1>3 DEF BlockTypes
<1>5. Blocks(p)'
  <2>1. /\ scatter_size[p] = group_scatter_sizes(Cardinality(Group(p)))[GroupRank(p)]
        /\ scatter_displacement[p] = GroupRank(p) * worker_scatter_size(Cardinality(Group(p)))
    BY <1>1, <1>2 DEF Blocks
  <2>2. QED
    BY <1>1, <2>1, NewBlock
<1>6. s \in 7..12 /\ at[p] \in 5..12 /\ at[p] =< s /\ Next1(p, s)
  BY <1>1
<1>7. \A q \in Procs : q # p => /\ scatter_size'[q] = scatter_size[q]
                                /\ scatter_displacement'[q] = scatter_displacement[q]
                                /\ C_result'[q] = C_result[q]
  BY <1>1, <1>4
<1>8. QED
  BY <1>1, <1>4, <1>5, <1>6, <1>7, LateWhole, Zenon

LEMMA FreeWhole ==
  ASSUME WholeInv, NEW p \in Procs, PassSave(p) \/ PassFree(p) \/ Exit(p)
  PROVE  WholeInv'
<1> DEFINE s == at[p] + 1
<1>1. /\ at[p] \in {8, 10, 11} /\ at' = [at EXCEPT ![p] = s]
      /\ UNCHANGED <<group_number, scatter_size, scatter_displacement, C_result>>
  BY DEF PassSave, PassFree, Exit
<1>2. /\ s \in {9, 11, 12} /\ s \in 7..12 /\ at[p] \in 5..12 /\ at[p] =< s /\ Next1(p, s)
      /\ s >= 10 => at[p] >= 10
  BY <1>1
<1> HIDE DEF s
<1>3. BlockTypes /\ at \in [Procs -> 0..12] /\ Blocks(p) /\ ResultWhole
  BY DEF WholeInv, GroupTypes
<1>4. BlockTypes'
  BY <1>1, <1>3 DEF BlockTypes
<1>5. Blocks(p)'
  <2>1. /\ scatter_size[p] = group_scatter_sizes(Cardinality(Group(p)))[GroupRank(p)]
        /\ scatter_displacement[p] = GroupRank(p) * worker_scatter_size(Cardinality(Group(p)))
    BY <1>1, <1>3 DEF Blocks
  <2>2. QED
    BY <1>1, <2>1, NewBlock
<1>6. s >= 10 /\ p = GroupRoot(p) => \A r \in Rows : C_result'[p][r] = r
  BY <1>1, <1>2, <1>3 DEF ResultWhole
<1>7. \A q \in Procs : q # p => /\ scatter_size'[q] = scatter_size[q]
                                /\ scatter_displacement'[q] = scatter_displacement[q]
                                /\ C_result'[q] = C_result[q]
  BY <1>1, <1>4
<1>8. QED
  BY <1>1, <1>2, <1>4, <1>5, <1>6, <1>7, LateWhole, Zenon

LEMMA StepWhole == WholeInv /\ LoopTypes /\ [Next]_vars => WholeInv'
<1>0. SUFFICES ASSUME WholeInv, LoopTypes, [Next]_vars PROVE WholeInv'
  OBVIOUS
<1>1. CASE UNCHANGED <<at, group_number, scatter_size, scatter_displacement, C_result>>
  <2>1. GroupTypes' /\ SplitDone' /\ (\A p \in Procs : Blocks(p)')
    BY <1>0, <1>1, SameBlocks DEF WholeInv, GroupTypes, BlockTypes, SplitDone
  <2>2. ResultWhole'
    BY <1>0, <1>1, SameGroups DEF WholeInv, ResultWhole
  <2>3. QED
    BY <2>1, <2>2, Zenon DEF WholeInv
<1>2. ASSUME NEW p \in Procs, Begin(p) PROVE WholeInv'
  <2>1. at[p] = 0 /\ Next1(p, 1) /\ UNCHANGED <<group_number, scatter_size, scatter_displacement, C_result>>
    BY <1>2 DEF Begin
  <2>2. 1 \in 0..6 /\ at[p] =< 1 /\ ~(1 > Split)
    BY <2>1
  <2>3. QED
    BY <1>0, <2>1, <2>2, EarlyWhole, Zenon
<1>3. ASSUME NEW p \in Procs, PassBarrier(p) PROVE WholeInv'
  <2> DEFINE s == IF p = 0 THEN 2 ELSE 3
  <2>1. at[p] = 1 /\ Next1(p, s) /\ UNCHANGED <<group_number, scatter_size, scatter_displacement, C_result>>
    BY <1>3 DEF PassBarrier
  <2>2. s \in 0..6 /\ at[p] =< s /\ ~(s > Split)
    BY <2>1
  <2> HIDE DEF s
  <2>3. QED
    BY <1>0, <2>1, <2>2, EarlyWhole, Zenon
<1>4. CASE EndPrepare
  <2>1. 0 \in Procs /\ at[0] = 2 /\ Next1(0, 3) /\ UNCHANGED <<group_number, scatter_size, scatter_displacement, C_result>>
    BY <1>4 DEF EndPrepare, Procs
  <2>2. 3 \in 0..6 /\ at[0] =< 3 /\ ~(3 > Split)
    BY <2>1
  <2>3. QED
    BY <1>0, <2>1, <2>2, EarlyWhole, Zenon
<1>5. ASSUME NEW p \in Procs, PassSplit(p) PROVE WholeInv'
  <2>1. /\ at[p] = 4 /\ Next1(p, 5) /\ Reached(Procs, Split)
        /\ UNCHANGED <<group_number, scatter_size, scatter_displacement, C_result>>
    BY <1>5 DEF PassSplit
  <2>2. 5 \in 0..6 /\ at[p] =< 5
    BY <2>1
  <2>3. QED
    BY <1>0, <2>1, <2>2, EarlyWhole, Zenon
<1>6. ASSUME NEW p \in Procs, PassBcast(p) PROVE WholeInv'
  <2> DEFINE s == at[p] + 1
  <2>1. at[p] = 5 /\ Next1(p, s) /\ UNCHANGED <<group_number, scatter_size, scatter_displacement, C_result>>
    BY <1>6 DEF PassBcast, LeavesBcast
  <2>2. s \in 0..6 /\ at[p] =< s /\ at[p] > Split
    BY <2>1
  <2> HIDE DEF s
  <2>3. QED
    BY <1>0, <2>1, <2>2, EarlyWhole, Zenon
<1>7. ASSUME NEW p \in Procs,
             \/ PassNumbers(p) \/ PassSizes(p) \/ PassDisplacements(p) \/ PassGather(p)
             \/ PassSave(p) \/ PassFree(p) \/ Exit(p)
      PROVE  WholeInv'
  BY <1>0, <1>7, NumbersWhole, SizesWhole, DisplacementsWhole, GatheredWhole, FreeWhole, Zenon
<1>8. PrepareGroup \/ PrepareLast \/ Damage \/ (\E p \in Procs : Flush(p)) \/ UNCHANGED vars =>
        UNCHANGED <<at, group_number, scatter_size, scatter_displacement, C_result>>
  BY Zenon DEF PrepareGroup, PrepareLast, Damage, Flush, vars
<1>9. QED
  BY <1>0, <1>1, <1>2, <1>3, <1>4, <1>5, <1>6, <1>7, <1>8, Zenon DEF Next, Root, Proc

LEMMA InitWhole == Init => WholeInv
<1> SUFFICES ASSUME Init PROVE WholeInv
  OBVIOUS
<1>1. /\ at = [p \in Procs |-> 0] /\ group_number = [p \in Procs |-> 0]
      /\ scatter_size = [p \in Procs |-> 0] /\ scatter_displacement = [p \in Procs |-> 0]
      /\ C_result = [p \in Procs |-> [r \in Rows |-> Zero]]
  BY DEF Init
<1>2. GroupTypes
  BY <1>1 DEF GroupTypes, BlockTypes
<1>3. SplitDone /\ ResultWhole /\ \A p \in Procs : Blocks(p)
  BY <1>1 DEF SplitDone, ResultWhole, Blocks
<1>4. QED
  BY <1>2, <1>3 DEF WholeInv

----------------------------------------------------------------------------
(* The files                                                               *)

\* What p has in its group's file: nothing before it prints, all but a buffer when it
\* has printed, all when it has ended.  Before, it has something only if it prints more
\* than a buffer, and only then can its last row be cut.
Saves(p) ==
  /\ at[p] < Save => saved[p] = 0
  /\ saved[p] =< Output(p)
  /\ at[p] > Save => Output(p) - saved[p] =< StdioBuf
  /\ at[p] = Done => saved[p] = Output(p)
  /\ saved[p] # 0 /\ at[p] # Done => Output(p) > StdioBuf
  /\ p \in cut => saved[p] # 0 /\ Group(p) # {p} /\ Output(p) > StdioBuf

FileInv ==
  /\ saved \in [Procs -> Nat] /\ cut \subseteq Procs
  /\ \A p \in Procs : Saves(p)

LEMMA OutputType ==
  ASSUME NEW p \in Procs, BlockTypes
  PROVE  Output(p) \in Nat
<1>1. scatter_size[p] \in Nat
  BY DEF BlockTypes
<1>2. QED
  BY <1>1 DEF Output

LEMMA SameSaves ==
  ASSUME group_number' = group_number, NEW q \in Procs, Saves(q),
         scatter_size'[q] = scatter_size[q], saved'[q] = saved[q], at'[q] = at[q],
         q \in cut' => q \in cut \/ (saved[q] # 0 /\ Group(q) # {q} /\ Output(q) > StdioBuf)
  PROVE  Saves(q)'
<1>1. Group(q)' = Group(q) /\ Output(q)' = Output(q)
  BY SameGroups, Zenon DEF Output
<1>2. QED
  BY <1>1, Zenon DEF Saves

\* A process goes on without writing.
LEMMA GoesOn ==
  ASSUME WholeInv, FileInv, NEW p \in Procs, NEW s \in 0..11, Next1(p, s),
         at[p] < 12, at[p] < 8 => s =< 8, at[p] =< 8 /\ s > 8 => Printed(p),
         at[p] >= 8 => s >= 8,
         UNCHANGED <<group_number, scatter_size, saved, cut>>
  PROVE  FileInv'
<1>1. at \in [Procs -> 0..12] /\ BlockTypes /\ Saves(p) /\ saved[p] \in Nat
  BY DEF WholeInv, GroupTypes, FileInv
<1>2. at'[p] = s /\ \A q \in Procs : q # p => at'[q] = at[q]
  BY <1>1
<1>3. ASSUME NEW q \in Procs, q # p PROVE Saves(q)'
  BY <1>2, <1>3, SameSaves DEF FileInv
<1>4. Saves(p)'
  <2>1. Group(p)' = Group(p) /\ Output(p)' = Output(p) /\ Output(p) \in Nat
    BY <1>1, SameGroups, OutputType DEF Output
  <2>2. s < 8 => saved[p] = 0
    BY <1>1 DEF Saves
  <2>3. s > 8 => Output(p) - saved[p] =< StdioBuf
    BY <1>1 DEF Saves, Printed
  <2>4. s # 12 /\ at[p] # 12
    BY <1>1
  <2>5. /\ saved[p] =< Output(p)
        /\ saved[p] # 0 => Output(p) > StdioBuf
        /\ p \in cut => saved[p] # 0 /\ Group(p) # {p} /\ Output(p) > StdioBuf
    BY <1>1, <2>4 DEF Saves
  <2>6. saved'[p] = saved[p] /\ cut' = cut
    OBVIOUS
  <2>7. QED
    BY <1>2, <2>1, <2>2, <2>3, <2>4, <2>5, <2>6, Zenon DEF Saves
<1>5. QED
  BY <1>3, <1>4 DEF FileInv

\* p writes n bytes, and cuts the rows the others are in.
LEMMA Writes ==
  ASSUME WholeInv, FileInv, NEW p \in Procs, NEW n \in Nat, Write(p, n),
         n =< Output(p) - saved[p], at[p] >= 8, at'[p] >= 8,
         at'[p] > 8 => Output(p) - saved[p] - n =< StdioBuf,
         at'[p] = 12 => saved[p] + n = Output(p),
         at'[p] # 12 => Output(p) > StdioBuf,
         at[p] # 12, \A q \in Procs : q # p => at'[q] = at[q],
         at'[p] \in 0..12, UNCHANGED <<group_number, scatter_size>>
  PROVE  FileInv'
<1>1. /\ at \in [Procs -> 0..12] /\ BlockTypes /\ Saves(p) /\ saved \in [Procs -> Nat]
      /\ cut \subseteq Procs /\ Output(p) \in Nat
  BY OutputType DEF WholeInv, GroupTypes, FileInv
<1>2. /\ saved' = [saved EXCEPT ![p] = saved[p] + n]
      /\ cut' = cut \union {q \in Group(p) \ {p} : n > 0 /\ InRow(q)}
  BY DEF Write
<1>3. /\ saved'[p] = saved[p] + n /\ saved' \in [Procs -> Nat]
      /\ \A q \in Procs : q # p => saved'[q] = saved[q]
  BY <1>1, <1>2
<1>4. cut' \subseteq Procs /\ (p \in cut' => p \in cut)
  BY <1>1, <1>2 DEF Group
<1>5. ASSUME NEW q \in Procs, q # p PROVE Saves(q)'
  <2>1. Saves(q) /\ Output(q) \in Nat /\ saved[q] \in Nat
    BY <1>1, OutputType DEF FileInv
  <2>2. ASSUME q \in Group(p), InRow(q)
        PROVE  saved[q] # 0 /\ Group(q) # {q} /\ Output(q) > StdioBuf
    <3>1. scatter_size[q] \in Nat
      BY <1>1 DEF BlockTypes
    <3>2. 0 \in 0..scatter_size[q] /\ scatter_size[q] \in 0..scatter_size[q] /\ 0 * RowLen = 0
      BY <3>1
    <3>3. saved[q] # 0 /\ saved[q] # Output(q)
      <4>1. \A k \in 0..scatter_size[q] : saved[q] # k * RowLen
        BY <2>2, Zenon DEF InRow
      <4>2. QED
        BY <3>2, <4>1, Zenon DEF Output
    <3>4. p \in Group(q)
      BY <2>2 DEF Group
    <3>5. Output(q) > StdioBuf
      BY <2>1, <3>3 DEF Saves
    <3>6. QED
      BY <1>5, <3>3, <3>4, <3>5
  <2>3. q \in cut' => q \in cut \/ (saved[q] # 0 /\ Group(q) # {q} /\ Output(q) > StdioBuf)
    BY <1>2, <2>2
  <2>4. QED
    BY <1>3, <1>5, <2>1, <2>3, SameSaves
<1>6. Saves(p)'
  <2>1. Group(p)' = Group(p) /\ Output(p)' = Output(p)
    BY SameGroups DEF Output
  <2>2. /\ ~(at'[p] < 8) /\ saved[p] + n =< Output(p)
        /\ at'[p] > 8 => Output(p) - (saved[p] + n) =< StdioBuf
    BY <1>1, <1>3
  <2>3. p \in cut => saved[p] + n # 0 /\ Group(p) # {p} /\ Output(p) > StdioBuf
    BY <1>1 DEF Saves
  <2>4. QED
    BY <1>3, <1>4, <2>1, <2>2, <2>3, Zenon DEF Saves
<1>7. QED
  BY <1>3, <1>4, <1>5, <1>6 DEF FileInv

LEMMA FlushFile ==
  ASSUME WholeInv, FileInv, NEW p \in Procs, Flush(p)
  PROVE  FileInv'
<1>1. /\ at[p] = 8 /\ Output(p) - saved[p] > StdioBuf /\ Write(p, StdioBuf)
      /\ UNCHANGED <<at, group_number, scatter_size>>
  BY DEF Flush
<1>2. at \in [Procs -> 0..12] /\ saved[p] \in Nat /\ Output(p) \in Nat
  BY OutputType DEF WholeInv, GroupTypes, FileInv
<1>3. /\ StdioBuf \in Nat /\ StdioBuf =< Output(p) - saved[p] /\ Output(p) > StdioBuf
      /\ at'[p] = 8 /\ 8 >= 8 /\ ~(8 > 8) /\ 8 # 12 /\ 8 \in 0..12
  BY <1>1, <1>2
<1>4. at'[p] >= 8 /\ at[p] >= 8 /\ ~(at'[p] > 8) /\ at'[p] # 12 /\ at[p] # 12 /\ at'[p] \in 0..12
  BY <1>1, <1>3
<1>5. \A q \in Procs : q # p => at'[q] = at[q]
  BY <1>1
<1>6. QED
  BY <1>1, <1>3, <1>4, <1>5, Writes

LEMMA ExitFile ==
  ASSUME WholeInv, FileInv, NEW p \in Procs, Exit(p)
  PROVE  FileInv'
<1> DEFINE n == Output(p) - saved[p]
<1>1. /\ at[p] = 11 /\ at' = [at EXCEPT ![p] = 12] /\ Write(p, n)
      /\ UNCHANGED <<group_number, scatter_size>>
  BY DEF Exit
<1>2. at \in [Procs -> 0..12] /\ saved[p] \in Nat /\ Output(p) \in Nat /\ saved[p] =< Output(p)
  BY OutputType DEF WholeInv, GroupTypes, FileInv, Saves
<1>3. n \in Nat /\ n =< Output(p) - saved[p] /\ saved[p] + n = Output(p)
      /\ Output(p) - saved[p] - n =< StdioBuf
  BY <1>2
<1>4. /\ at'[p] = 12 /\ at'[p] >= 8 /\ at[p] >= 8 /\ at[p] # 12 /\ at'[p] \in 0..12
      /\ \A q \in Procs : q # p => at'[q] = at[q]
  BY <1>1, <1>2
<1> HIDE DEF n
<1>5. QED
  BY <1>1, <1>3, <1>4, Writes

\* Nobody has printed before all have a group.
LEMMA NumbersFile ==
  ASSUME WholeInv, WholeInv', FileInv, NEW p \in Procs, PassNumbers(p)
  PROVE  FileInv'
<1>1. /\ at[p] = 3 /\ at' = [at EXCEPT ![p] = 4] /\ UNCHANGED <<scatter_size, saved, cut>>
  BY DEF PassNumbers, LeavesBcast
<1>2. /\ at \in [Procs -> 0..12] /\ at' \in [Procs -> 0..12] /\ SplitDone /\ BlockTypes
  BY DEF WholeInv, GroupTypes
<1>3. \A q \in Procs : at[q] < 8 /\ at'[q] < 8 /\ at'[q] # 12 /\ ~(at'[q] > 8)
  <2>1. \A q \in Procs : ~(at[q] > 4)
    BY <1>1, <1>2 DEF SplitDone
  <2>2. QED
    BY <1>1, <1>2, <2>1
<1>4. ASSUME NEW q \in Procs PROVE Saves(q)'
  <2>1. saved[q] = 0 /\ q \notin cut /\ saved[q] =< Output(q) /\ Output(q)' = Output(q)
    BY <1>1, <1>3 DEF FileInv, Saves, Output
  <2>2. QED
    BY <1>1, <1>3, <2>1, Zenon DEF Saves
<1>5. QED
  BY <1>1, <1>4 DEF FileInv

LEMMA SizesFile ==
  ASSUME WholeInv, WholeInv', FileInv, NEW p \in Procs, PassSizes(p)
  PROVE  FileInv'
<1>1. /\ at[p] = 6 /\ at' = [at EXCEPT ![p] = 7] /\ UNCHANGED <<group_number, saved, cut>>
      /\ \A q \in Procs : q # p => scatter_size'[q] = scatter_size[q]
  BY DEF PassSizes, LeavesBcast, WholeInv, GroupTypes, BlockTypes
<1>2. at \in [Procs -> 0..12] /\ BlockTypes'
  BY DEF WholeInv, GroupTypes
<1>3. at'[p] = 7 /\ \A q \in Procs : q # p => at'[q] = at[q]
  BY <1>1, <1>2
<1>4. ASSUME NEW q \in Procs, q # p PROVE Saves(q)'
  BY <1>1, <1>3, <1>4, SameSaves DEF FileInv
<1>5. Saves(p)'
  <2>1. saved[p] = 0 /\ p \notin cut
    BY <1>1 DEF FileInv, Saves
  <2>2. Output(p)' \in Nat
    <3>1. scatter_size'[p] \in Nat
      BY <1>2 DEF BlockTypes
    <3>2. QED
      BY <3>1 DEF Output
  <2>3. 0 =< Output(p)'
    BY <2>2
  <2>4. saved'[p] = 0 /\ p \notin cut' /\ ~(at'[p] > 8) /\ at'[p] # 12
    BY <1>1, <1>3, <2>1
  <2>5. QED
    BY <2>3, <2>4, Zenon DEF Saves
<1>6. QED
  BY <1>1, <1>4, <1>5 DEF FileInv

LEMMA StepFile == WholeInv /\ WholeInv' /\ FileInv /\ [Next]_vars => FileInv'
<1>0. SUFFICES ASSUME WholeInv, WholeInv', FileInv, [Next]_vars PROVE FileInv'
  OBVIOUS
<1>1. at \in [Procs -> 0..12] /\ 0 \in Procs
  BY <1>0 DEF WholeInv, GroupTypes, Procs
<1>2. CASE UNCHANGED <<at, group_number, scatter_size, saved, cut>>
  BY <1>0, <1>2, SameSaves DEF FileInv
<1>3. CASE EndPrepare
  <2>1. at[0] = 2 /\ Next1(0, 3) /\ UNCHANGED <<group_number, scatter_size, saved, cut>>
    BY <1>3 DEF EndPrepare
  <2>2. 3 \in 0..11 /\ at[0] < 12 /\ 3 =< 8 /\ ~(3 > 8) /\ ~(at[0] >= 8)
    BY <2>1
  <2>3. QED
    BY <1>0, <1>1, <2>1, <2>2, GoesOn
<1>4. ASSUME NEW p \in Procs,
             Begin(p) \/ PassBarrier(p) \/ PassSplit(p) \/ PassBcast(p) \/ PassDisplacements(p)
      PROVE  FileInv'
  <2>1. PICK s \in 0..8 : at[p] < 8 /\ Next1(p, s) /\ UNCHANGED <<group_number, scatter_size, saved, cut>>
    <3>1. CASE Begin(p)
      BY <3>1 DEF Begin
    <3>2. CASE PassBarrier(p)
      <4> DEFINE s == IF p = 0 THEN 2 ELSE 3
      <4>1. at[p] < 8 /\ Next1(p, s) /\ UNCHANGED <<group_number, scatter_size, saved, cut>>
        BY <3>2 DEF PassBarrier
      <4>2. s \in 0..8
        OBVIOUS
      <4> HIDE DEF s
      <4>3. QED
        BY <4>1, <4>2
    <3>3. CASE PassSplit(p)
      BY <3>3 DEF PassSplit
    <3>4. CASE PassBcast(p)
      BY <3>4 DEF PassBcast, LeavesBcast
    <3>5. CASE PassDisplacements(p)
      BY <3>5 DEF PassDisplacements, LeavesBcast
    <3>6. QED
      BY <1>4, <3>1, <3>2, <3>3, <3>4, <3>5
  <2>2. s \in 0..11 /\ at[p] < 12 /\ s =< 8 /\ ~(s > 8) /\ ~(at[p] >= 8)
    BY <1>1, <2>1
  <2>3. QED
    BY <1>0, <2>1, <2>2, GoesOn
<1>5. ASSUME NEW p \in Procs, PassSave(p) \/ PassGather(p) \/ PassFree(p) PROVE FileInv'
  <2>1. PICK s \in 9..11 :
          /\ at[p] \in 8..10 /\ (at[p] = 8 => Printed(p)) /\ Next1(p, s)
          /\ UNCHANGED <<group_number, scatter_size, saved, cut>>
    <3>1. CASE PassSave(p)
      BY <3>1 DEF PassSave
    <3>2. CASE PassGather(p)
      <4> DEFINE s == IF Finalizes(p) THEN 10 ELSE 11
      <4>1. at[p] = 9 /\ Next1(p, s) /\ UNCHANGED <<group_number, scatter_size, saved, cut>>
        BY <3>2, Zenon DEF PassGather, LeavesGather
      <4>2. s \in 9..11
        OBVIOUS
      <4>3. at[p] \in 8..10 /\ at[p] # 8
        BY <4>1
      <4> HIDE DEF s
      <4>4. QED
        BY <4>1, <4>2, <4>3, Zenon
    <3>3. CASE PassFree(p)
      BY <3>3 DEF PassFree
    <3>4. QED
      BY <1>5, <3>1, <3>2, <3>3
  <2>2. s \in 0..11 /\ at[p] < 12 /\ ~(at[p] < 8) /\ (at[p] =< 8 => Printed(p)) /\ s >= 8
    BY <1>1, <2>1
  <2>3. QED
    BY <1>0, <2>1, <2>2, GoesOn
<1>6. ASSUME NEW p \in Procs, PassNumbers(p) \/ PassSizes(p) \/ Flush(p) \/ Exit(p) PROVE FileInv'
  BY <1>0, <1>6, NumbersFile, SizesFile, FlushFile, ExitFile, Zenon
<1>7. PrepareGroup \/ PrepareLast \/ Damage \/ UNCHANGED vars =>
        UNCHANGED <<at, group_number, scatter_size, saved, cut>>
  BY Zenon DEF PrepareGroup, PrepareLast, Damage, vars, blockVars, fileVars
<1>8. QED
  BY <1>0, <1>2, <1>3, <1>4, <1>5, <1>6, <1>7, Zenon DEF Next, Root, Proc

LEMMA InitFile == Init => FileInv
<1> SUFFICES ASSUME Init PROVE FileInv
  OBVIOUS
<1>1. /\ at = [p \in Procs |-> 0] /\ scatter_size = [p \in Procs |-> 0]
      /\ saved = [p \in Procs |-> 0] /\ cut = {}
  BY DEF Init
<1>2. ASSUME NEW p \in Procs PROVE Saves(p)
  <2>1. Output(p) = 0
    BY <1>1 DEF Output
  <2>2. QED
    BY <1>1, <2>1 DEF Saves
<1>3. QED
  BY <1>1, <1>2 DEF FileInv

\* What the job was started with does not change.
Given == buffered \in BOOLEAN /\ freeWaits \in BOOLEAN /\ groups_count \in GroupCounts

LEMMA WholeInvariance == Spec => [](Given /\ LoopTypes /\ WholeInv /\ FileInv)
<1>1. Init => Given /\ LoopInv /\ WholeInv /\ FileInv
  BY InitLoop, InitWhole, InitFile, Zenon DEF Init, Given
<1>2. Given /\ [Next]_vars => Given'
  <2>1. Root \/ Damage \/ UNCHANGED vars => UNCHANGED <<mpiVars, groups_count>>
    BY Zenon DEF Root, PrepareGroup, PrepareLast, EndPrepare, Damage, vars
  <2>2. ASSUME NEW p \in Procs, Proc(p) \/ Exit(p) PROVE UNCHANGED <<mpiVars, groups_count>>
    BY <2>2, Zenon
       DEF Proc, Begin, PassBarrier, PassNumbers, PassSplit, PassBcast, PassSizes,
           PassDisplacements, Flush, PassSave, PassGather, PassFree, Exit
  <2>3. UNCHANGED <<mpiVars, groups_count>> /\ Given => Given'
    BY Zenon DEF mpiVars, Given
  <2>4. QED
    BY <2>1, <2>2, <2>3, Zenon DEF Next
<1>3. LoopInv => LoopTypes
  BY Zenon DEF LoopInv
<1>4. (Given /\ LoopInv /\ WholeInv /\ FileInv) /\ [Next]_vars
        => (Given /\ LoopInv /\ WholeInv /\ FileInv)'
  BY <1>2, <1>3, StepLoop, StepWhole, StepFile, Zenon
<1>5. QED
  BY <1>1, <1>3, <1>4, PTL DEF Spec

\* The type invariant: of groupsPrepare()'s locals, of the stages, and of the blocks, whose
\* sizes and displacements stay within the matrix.
THEOREM TypeCorrect == Spec => []TypeOK
<1>1. Given /\ LoopTypes /\ WholeInv /\ FileInv => TypeOK
  <2> SUFFICES ASSUME Given, LoopTypes, WholeInv, FileInv PROVE TypeOK
    OBVIOUS
  <2>1. /\ i \in Nat /\ available_ranks \in Int /\ next_group_rank \in Nat
        /\ group_numbers \in [Procs -> Nat] /\ overran \in BOOLEAN
        /\ job \in {"running", "crashed", "overrun", "nofile", "smashed"}
    BY DEF LoopTypes
  <2>2. GroupTypes
    BY DEF WholeInv
  <2>3. QED
    BY <2>1, <2>2, Zenon DEF Given, GroupTypes, BlockTypes, FileInv, TypeOK
<1>2. QED
  BY <1>1, WholeInvariance, PTL

\* MPI_Gatherv gives rank 0 of every group each row of the product in its place, whatever
\* the sizes of the groups and of the matrix, and whichever process is ahead.
THEOREM ResultsAreWhole == Spec => []ResultWhole
<1>1. WholeInv => ResultWhole
  BY DEF WholeInv
<1>2. QED
  BY <1>1, WholeInvariance, PTL

\* When all processes have ended, the members of a group have printed each row once and
\* the file has all they printed.  A process that has printed is short of a buffer at
\* most, and only one that prints more than a buffer has a row cut by another's bytes.
THEOREM FilesAreWhole == Spec => []FilesWhole
<1>1. WholeInv /\ FileInv =>
        /\ (\A p \in Procs : at[p] = Done) => \A p \in Procs : saved[p] = Output(p)
        /\ \A p \in Procs : at[p] > Save => Output(p) - saved[p] =< StdioBuf
        /\ \A p \in cut : Group(p) # {p} /\ Output(p) > StdioBuf
  BY DEF FileInv, Saves
<1>2. WholeInv =>
        ((\A p \in Procs : at[p] = Done) => \A p \in Procs, r \in Rows :
           Cardinality({q \in Group(p) : r - scatter_displacement[q] \in 0..(scatter_size[q] - 1)}) = 1)
  <2> SUFFICES ASSUME WholeInv, \A p \in Procs : at[p] = 12, NEW p \in Procs, NEW r \in Rows
               PROVE  Cardinality({q \in Group(p) :
                        r - scatter_displacement[q] \in 0..(scatter_size[q] - 1)}) = 1
    OBVIOUS
  <2> DEFINE G == Group(p)
             gs == Cardinality(G)
             w == worker_scatter_size(gs)
  <2>1. G \in SUBSET Procs /\ G # {} /\ gs \in Nat \ {0} /\ at \in [Procs -> 0..12]
    BY Groups DEF WholeInv, GroupTypes
  <2>2. ASSUME NEW q \in G
        PROVE  r - scatter_displacement[q] \in 0..(scatter_size[q] - 1) <=> InBlock(gs, RankIn(G, q), r)
    <3>1. Blocks(q) /\ at[q] = 12 /\ q \in Procs /\ at[q] >= 9
      BY <2>1 DEF WholeInv
    <3>2. /\ scatter_displacement[q] = RankIn(G, q) * w
          /\ scatter_size[q] = group_scatter_sizes(gs)[RankIn(G, q)]
      BY <2>1, <3>1, HasBlock
    <3>3. scatter_displacement[q] \in Nat /\ scatter_size[q] \in Nat /\ r \in Nat
      BY <3>1 DEF WholeInv, GroupTypes, BlockTypes, Rows
    <3> DEFINE x == scatter_displacement[q]
               n == scatter_size[q]
    <3> HIDE DEF G, gs, w
    <3>4. InBlock(gs, RankIn(G, q), r) <=> r >= x /\ r - x < n
      BY <3>2, Zenon DEF InBlock, w
    <3>5. x \in Nat /\ n \in Nat
      BY <3>3
    <3> HIDE DEF x, n
    <3>6. r - x \in 0..(n - 1) <=> r >= x /\ r - x < n
      BY <3>3, <3>5
    <3>7. QED
      BY <3>4, <3>6 DEF x, n
  <2>3. PICK q \in G : {o \in G : InBlock(gs, RankIn(G, o), r)} = {q}
    BY <2>1, Owner
  <2> HIDE DEF G, gs
  <2>4. {o \in G : r - scatter_displacement[o] \in 0..(scatter_size[o] - 1)} = {q}
    BY <2>2, <2>3
  <2>5. QED
    BY <2>4, FS_Singleton DEF G
<1>3. WholeInv /\ FileInv => FilesWhole
  BY <1>1, <1>2, Zenon DEF FilesWhole
<1>4. QED
  BY <1>3, WholeInvariance, PTL
=============================================================================
