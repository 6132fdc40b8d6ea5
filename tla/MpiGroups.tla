----------------------------- MODULE MpiGroups -----------------------------
(***************************************************************************)
(* Lab6/mpi-collective.c: the processes of an MPI job are divided into     *)
(* groups_count groups of random size, and each group computes the product *)
(* of the same two N x N matrices with collective operations.              *)
(*                                                                         *)
(* A process is at a stage of main(), most of them a collective operation  *)
(* of MPI_COMM_WORLD or of its group.  MPI is external: in an operation    *)
(* that sends (MPI_Bcast, MPI_Scatter, MPI_Gatherv) the sender may leave   *)
(* before the others have come, if MPI buffers, or wait for them.          *)
(*                                                                         *)
(* Sizes and displacements are counted in rows; the code counts N elements *)
(* for each.  A row of the product is named by its number; what is printed *)
(* of it, N lines, is RowLen bytes here, the same for every row.           *)
(***************************************************************************)
EXTENDS Integers, FiniteSets

CONSTANTS
  Size,         \* global_size
  GroupCounts,  \* the values groups_count may be given
  N,            \* matrix side
  LargestName,  \* the largest group number whose file name fits rank[], 9 in the code
  RowLen,       \* bytes of output for one row of the product
  StdioBuf      \* bytes of output a stdio buffer holds

ASSUME GroupsAssumption ==
  /\ Size \in Nat \ {0} /\ N \in Nat \ {0}
  /\ GroupCounts \subseteq Nat
  /\ LargestName \in Nat /\ RowLen \in Nat \ {0} /\ StdioBuf \in Nat \ {0}

Procs == 0..(Size - 1)
Rows  == 0..(N - 1)
Zero  == -1

\* The stages of main().
Start         == 0
Barrier       == 1
Prepare       == 2
BcastNumbers  == 3
Split         == 4
BcastMatrices == 5
Sizes         == 6
Displacements == 7
Save          == 8
Gather        == 9
Free          == 10
Finalize      == 11
Done          == 12

VARIABLES
  buffered,          \* what MPI does in this job: whether it buffers messages
  freeWaits,         \* and whether MPI_Comm_free waits for the whole group
  groups_count,
  i, available_ranks, next_group_rank,  \* the locals of groupsPrepare()
  group_numbers,     \* rank 0's array
  overran,           \* and whether rank 0 has written past its end
  at,                \* the stage of each process
  group_number,      \* what each process was assigned
  scatter_size, scatter_displacement,
  saved,             \* how many bytes each process has in its group's file
  cut,               \* the processes of which a row is cut in two by another's bytes
  C_result,          \* of each group's rank 0
  job                \* "running"; "crashed": division by zero;
                     \* "overrun": by what rank 0 wrote past group_numbers;
                     \* "nofile": a file that is not there was used;
                     \* "smashed": a file name past the end of rank[]
mpiVars   == <<buffered, freeWaits>>
rootVars  == <<i, available_ranks, next_group_rank, group_numbers, overran>>
fileVars  == <<saved, cut>>
blockVars == <<scatter_size, scatter_displacement, fileVars>>
vars == <<mpiVars, groups_count, rootVars, at, group_number, blockVars, C_result, job>>

\* freeWaits makes no difference if there are more groups than processes, since
\* nobody shares a group then.
Init ==
  /\ buffered \in BOOLEAN /\ freeWaits \in BOOLEAN /\ groups_count \in GroupCounts
  /\ groups_count > Size => ~freeWaits
  /\ i = 0 /\ available_ranks = 0 /\ next_group_rank = 0
  /\ group_numbers = [p \in Procs |-> 0] /\ overran = FALSE
  /\ at = [p \in Procs |-> Start]
  /\ group_number = [p \in Procs |-> 0]
  /\ scatter_size = [p \in Procs |-> 0] /\ scatter_displacement = [p \in Procs |-> 0]
  /\ saved = [p \in Procs |-> 0] /\ cut = {}
  /\ C_result = [p \in Procs |-> [r \in Rows |-> Zero]]
  /\ job = "running"

----------------------------------------------------------------------------
(* Communicators and collective operations (external)                      *)

Group(p)     == {q \in Procs : group_number[q] = group_number[p]}
GroupRank(p) == Cardinality({q \in Group(p) : q < p})
GroupRoot(p) == CHOOSE r \in Group(p) : \A q \in Group(p) : r =< q

Reached(S, s) == \A q \in S : at[q] >= s
Next1(p, s)   == at' = [at EXCEPT ![p] = s]

\* p leaves stage s, where root sends to the members of S, or they to it.
LeavesBcast(p, s, root, S) ==
  /\ job = "running" /\ at[p] = s
  /\ IF p = root THEN buffered \/ Reached(S, s) ELSE at[root] >= s
LeavesGather(p, s, root, S) ==
  /\ job = "running" /\ at[p] = s
  /\ IF p = root THEN Reached(S, s) ELSE buffered \/ at[root] >= s

----------------------------------------------------------------------------
(* main() up to groupsPrepare()                                            *)

\* Memory is allocated; rank 0 reads the matrices and does not look whether their
\* files could be opened.
masterInitMatrix == {"running", "nofile"}

Begin(p) ==
  /\ job = "running" /\ at[p] = Start /\ Next1(p, Barrier)
  /\ IF p = 0 THEN job' \in masterInitMatrix ELSE UNCHANGED job
  /\ UNCHANGED <<mpiVars, groups_count, rootVars, group_number, blockVars, C_result>>

PassBarrier(p) ==
  /\ job = "running" /\ at[p] = Barrier /\ Reached(Procs, Barrier)
  /\ Next1(p, IF p = 0 THEN Prepare ELSE BcastNumbers)
  /\ IF p = 0 THEN available_ranks' = Size - groups_count ELSE UNCHANGED available_ranks
  /\ UNCHANGED <<mpiVars, groups_count, i, next_group_rank, group_numbers, overran, group_number,
                 blockVars, C_result, job>>

\* C's division rounds towards zero, and available_ranks may be negative.
CDiv(a, b) == IF a >= 0 THEN a \div b ELSE -((-a) \div b)

\* Mutant: all the ranks that are available may be used up.
ModulusAll == available_ranks
Modulus == CDiv(available_ranks * 2, 3)

\* rand() % m, for a rand() of 0 or more.
Randoms(m) == IF m >= 0 THEN 0..(m - 1) ELSE 0..(-m - 1)

\* Mutant: the one rank every group gets is forgotten.
GroupSizeBare(modifier) == modifier

GroupSize(modifier) == 1 + modifier

\* One round for a group that is not the last.  It may write past the end of
\* group_numbers, and the loop goes on.
PrepareGroup ==
  /\ job = "running" /\ at[0] = Prepare /\ i < groups_count /\ i # groups_count - 1
  /\ IF Modulus = 0
       THEN job' = "crashed" /\ UNCHANGED rootVars
       ELSE \E modifier \in Randoms(Modulus) :
              /\ available_ranks' = available_ranks - modifier
              /\ next_group_rank' = next_group_rank + GroupSize(modifier)
              /\ i' = i + 1
              /\ group_numbers' = [p \in Procs |->
                   IF next_group_rank =< p /\ p < next_group_rank + GroupSize(modifier)
                     THEN i ELSE group_numbers[p]]
              /\ overran' = (overran \/ next_group_rank + GroupSize(modifier) > Size)
              /\ UNCHANGED job
  /\ UNCHANGED <<mpiVars, groups_count, at, group_number, blockVars, C_result>>

\* What was behind the array may have been the allocator's or MPI's: rank 0 may fail
\* at any time after, or never.
Damage ==
  /\ job = "running" /\ overran /\ at[0] # Done /\ job' = "overrun"
  /\ UNCHANGED <<mpiVars, groups_count, rootVars, at, group_number, blockVars, C_result>>

\* The last group gets the ranks that are left.
PrepareLast ==
  /\ job = "running" /\ at[0] = Prepare /\ i < groups_count /\ i = groups_count - 1
  /\ i' = i + 1
  /\ group_numbers' = [p \in Procs |->
       IF p >= next_group_rank THEN groups_count - 1 ELSE group_numbers[p]]
  /\ UNCHANGED <<mpiVars, groups_count, available_ranks, next_group_rank, overran, at, group_number,
                 blockVars, C_result, job>>

EndPrepare ==
  /\ job = "running" /\ at[0] = Prepare /\ i >= groups_count
  /\ Next1(0, BcastNumbers)
  /\ UNCHANGED <<mpiVars, groups_count, rootVars, group_number, blockVars, C_result, job>>

\* MPI_Bcast, and the process picks its own number.
PassNumbers(p) ==
  /\ LeavesBcast(p, BcastNumbers, 0, Procs) /\ Next1(p, Split)
  /\ group_number' = [group_number EXCEPT ![p] = group_numbers[p]]
  /\ UNCHANGED <<mpiVars, groups_count, rootVars, blockVars, C_result, job>>

\* MPI_Comm_split needs the numbers of all.
PassSplit(p) ==
  /\ job = "running" /\ at[p] = Split /\ Reached(Procs, Split) /\ Next1(p, BcastMatrices)
  /\ UNCHANGED <<mpiVars, groups_count, rootVars, group_number, blockVars, C_result, job>>

----------------------------------------------------------------------------
(* prepareCalculate() and scatterCalculate()                               *)

\* The MPI_Bcast of A and that of B, one after the other.
PassBcast(p) ==
  /\ LeavesBcast(p, BcastMatrices, 0, Procs) /\ Next1(p, Sizes)
  /\ UNCHANGED <<mpiVars, groups_count, rootVars, group_number, blockVars, C_result, job>>

worker_scatter_size(gs)      == N \div gs

\* Mutants: the last worker gets no more than the others; the sign is wrong.
LastPlus(gs)  == N + (gs - 1) * worker_scatter_size(gs)
LastPlain(gs) == worker_scatter_size(gs)
last_worker_scatter_size(gs) == N - (gs - 1) * worker_scatter_size(gs)

group_scatter_sizes(gs) ==
  [k \in 0..(gs - 1) |->
     IF k = gs - 1 THEN last_worker_scatter_size(gs) ELSE worker_scatter_size(gs)]

\* Mutant: the size of the block itself is added, not that of the one before.
DisplacementsOwn(gs) ==
  LET d[k \in 0..(gs - 1)] == IF k = 0 THEN 0 ELSE d[k - 1] + group_scatter_sizes(gs)[k] IN d

group_scatter_displacements(gs) ==
  LET d[k \in 0..(gs - 1)] == IF k = 0 THEN 0 ELSE d[k - 1] + group_scatter_sizes(gs)[k - 1] IN d

PassSizes(p) ==
  /\ LeavesBcast(p, Sizes, GroupRoot(p), Group(p)) /\ Next1(p, Displacements)
  /\ scatter_size' = [scatter_size EXCEPT ![p] =
       group_scatter_sizes(Cardinality(Group(p)))[GroupRank(p)]]
  /\ UNCHANGED <<mpiVars, groups_count, rootVars, group_number, scatter_displacement, fileVars,
                 C_result, job>>

\* Mutant: the array is one byte shorter.
NameFitsLess(p) == group_number[p] < LargestName

\* ".txt\n" and the zero fit behind a number of one digit.
NameFits(p) == group_number[p] =< LargestName

\* saveBlockToFile(): the file is used if there is a row to print and must be there;
\* past its end rank[] may be followed by something that matters.
saveBlockToFile(p) ==
  job' \in {"running"} \union (IF scatter_size[p] > 0 THEN {"nofile"} ELSE {})
                      \union (IF NameFits(p) THEN {} ELSE {"smashed"})

\* MPI_Scatter, the calculation, and the file is opened.
PassDisplacements(p) ==
  /\ LeavesBcast(p, Displacements, GroupRoot(p), Group(p)) /\ Next1(p, Save)
  /\ scatter_displacement' = [scatter_displacement EXCEPT ![p] =
       group_scatter_displacements(Cardinality(Group(p)))[GroupRank(p)]]
  /\ saveBlockToFile(p)
  /\ UNCHANGED <<mpiVars, groups_count, rootVars, group_number, scatter_size, fileVars, C_result>>

\* What p prints.
Output(p) == scatter_size[p] * RowLen

\* p's part of the file ends inside a row.
InRow(p) == saved[p] \notin {k * RowLen : k \in 0..scatter_size[p]}

\* The n bytes p has buffered are appended to what the members of its group have
\* written by now, wherever that ends.
Write(p, n) ==
  /\ saved' = [saved EXCEPT ![p] = @ + n]
  /\ cut' = cut \union {q \in Group(p) \ {p} : n > 0 /\ InRow(q)}

\* A buffer is full and there is more to print.
Flush(p) ==
  /\ job = "running" /\ at[p] = Save /\ Output(p) - saved[p] > StdioBuf
  /\ Write(p, StdioBuf)
  /\ UNCHANGED <<mpiVars, groups_count, rootVars, at, group_number, scatter_size,
                 scatter_displacement, C_result, job>>

\* Mutant: one buffer is enough.
PrintedEarly(p) == TRUE

\* All rows are printed, the last bytes into the buffer.
Printed(p) == Output(p) - saved[p] =< StdioBuf

PassSave(p) ==
  /\ job = "running" /\ at[p] = Save /\ Printed(p) /\ Next1(p, Gather)
  /\ UNCHANGED <<mpiVars, groups_count, rootVars, group_number, blockVars, C_result, job>>

\* scatterCalculateBlock(): the rows process q has computed.
BlockRows(q) == {scatter_displacement[q] + k : k \in 0..(scatter_size[q] - 1)}

\* The k-th row of q's block lands at the k-th place of q's part of C_result.
Gathered(p) ==
  [r \in Rows |->
     LET gs == Cardinality(Group(p))
         from == {q \in Group(p) :
                    /\ r >= group_scatter_displacements(gs)[GroupRank(q)]
                    /\ r - group_scatter_displacements(gs)[GroupRank(q)] < scatter_size[q]}
     IN IF from = {} THEN Zero
        ELSE LET q == CHOOSE q \in from : \A o \in from : o =< q
             IN r - group_scatter_displacements(gs)[GroupRank(q)] + scatter_displacement[q]]

\* Mutant: the rank in the whole job is taken for the rank in the group.
FinalizesGlobal(p) == p = 0

\* The processes that call groupsFinalize(), the others go to MPI_Finalize().
Finalizes(p) == p = GroupRoot(p)

\* MPI_Gatherv: rank 0 of the group gets the rows.
PassGather(p) ==
  /\ LeavesGather(p, Gather, GroupRoot(p), Group(p))
  /\ Next1(p, IF Finalizes(p) THEN Free ELSE Finalize)
  /\ C_result' = IF p = GroupRoot(p) THEN [C_result EXCEPT ![p] = Gathered(p)] ELSE C_result
  /\ UNCHANGED <<mpiVars, groups_count, rootVars, group_number, blockVars, job>>

\* MPI_Comm_free() is collective.
PassFree(p) ==
  /\ job = "running" /\ at[p] = Free
  /\ freeWaits => \A q \in Group(p) : Finalizes(q) /\ at[q] >= Free
  /\ Next1(p, Finalize)
  /\ UNCHANGED <<mpiVars, groups_count, rootVars, group_number, blockVars, C_result, job>>

\* MPI_Finalize() may wait until all have come to it.  The file is never closed:
\* what is left in its buffer is written when the process exits.
Exit(p) ==
  /\ job = "running" /\ at[p] = Finalize /\ Next1(p, Done)
  /\ Write(p, Output(p) - saved[p])
  /\ UNCHANGED <<mpiVars, groups_count, rootVars, group_number, scatter_size,
                 scatter_displacement, C_result, job>>

----------------------------------------------------------------------------
Root == PrepareGroup \/ PrepareLast \/ EndPrepare
Proc(p) == \/ Begin(p) \/ PassBarrier(p) \/ PassNumbers(p) \/ PassSplit(p) \/ PassBcast(p)
           \/ PassSizes(p) \/ PassDisplacements(p) \/ Flush(p) \/ PassSave(p) \/ PassGather(p)
           \/ PassFree(p)

Next == Root \/ Damage \/ \E p \in Procs : Proc(p) \/ Exit(p)

\* The job goes on while a process can, but none need leave MPI_Finalize() before the
\* last has come.  Each of these steps changes one of progressVars.
progressVars == <<at, i, saved, job>>
Progress ==
  job = "running" /\ (Root \/ \E p \in Procs : Proc(p) \/ (Reached(Procs, Finalize) /\ Exit(p)))

Spec == Init /\ [][Next]_vars /\ WF_progressVars(Progress)

----------------------------------------------------------------------------
(* Properties                                                              *)

TypeOK ==
  /\ buffered \in BOOLEAN /\ freeWaits \in BOOLEAN /\ groups_count \in GroupCounts
  /\ overran \in BOOLEAN /\ i \in Nat /\ available_ranks \in Int /\ next_group_rank \in Nat
  /\ group_numbers \in [Procs -> Nat] /\ group_number \in [Procs -> Nat]
  /\ at \in [Procs -> Start..Done]
  /\ scatter_size \in [Procs -> 0..N] /\ scatter_displacement \in [Procs -> 0..N]
  /\ saved \in [Procs -> Nat] /\ cut \subseteq Procs /\ C_result \in [Procs -> [Rows -> {Zero} \union Rows]]
  /\ job \in {"running", "crashed", "overrun", "nofile", "smashed"}

\* groupsPrepare() leaves each group but one at least one rank and two to share.
Tight == groups_count >= 2 /\ Size - groups_count < 2

\* groupsPrepare() divides by zero only when fewer than two ranks are to spare, and
\* writes past group_numbers only when two groups or more find no rank: then the
\* modulus is negative, and the loop goes on with a rank for each of them, whatever
\* rand() returns.  With too few ranks to spare it gets through in no other way.
SplitsSafely ==
  /\ job = "crashed" => Tight /\ groups_count =< Size + 1
  /\ overran => groups_count > Size + 1
  /\ at[0] > Prepare => ~Tight \/ overran

\* Once rank 0 has divided the ranks, the groups are runs of consecutive ranks, in
\* the order of their numbers, and no number is left out up to that of the last
\* rank.  Every group has a member exactly if the array was not overrun.
GroupsWhole ==
  at[0] > Prepare /\ groups_count > 0 =>
    /\ {group_numbers[p] : p \in Procs} = 0..group_numbers[Size - 1]
    /\ \A p, q \in Procs : p =< q => group_numbers[p] =< group_numbers[q]
    /\ group_numbers[Size - 1] = groups_count - 1 <=> ~overran

\* Every group has the whole product when its rank 0 adds it up, each row once,
\* however the ranks were divided and whichever group is ahead.
ResultWhole ==
  \A p \in Procs : at[p] >= Free /\ p = GroupRoot(p) => \A r \in Rows : C_result[p][r] = r

\* The file's name is too long only in jobs of more groups than have short numbers.
NamesFit == job = "smashed" => groups_count > LargestName + 1

\* Every row of the product is printed by one process of each group, and when all
\* processes have ended the file has all bytes of this job (it is opened to append,
\* and keeps those of earlier jobs).  What a process that has printed
\* its rows loses if the job is stopped is a buffer at most.  A row is cut in two by
\* the bytes of another member only if its process printed more than a buffer.
FilesWhole ==
  /\ (\A p \in Procs : at[p] = Done) =>
       /\ \A p \in Procs : saved[p] = Output(p)
       /\ \A p \in Procs, r \in Rows :
            Cardinality({q \in Group(p) : r - scatter_displacement[q] \in 0..(scatter_size[q] - 1)}) = 1
  /\ \A p \in Procs : at[p] > Save => Output(p) - saved[p] =< StdioBuf
  /\ \A p \in cut : Group(p) # {p} /\ Output(p) > StdioBuf

\* The processes that wait for ever in MPI_Comm_free().
Hanging == {p \in Procs : freeWaits /\ p = GroupRoot(p) /\ Group(p) # {p}}

\* Unless the job crashed, no process waits for ever in a collective operation, with
\* one exception: if MPI_Comm_free waits for the group, rank 0 of every group of two
\* or more does, because nobody else calls it, and MPI_Finalize may for these.
OnlyFreeHangs ==
  <>[](\/ job # "running"
       \/ \A p \in Procs : at[p] = Done
       \/ Hanging # {} /\ \A p \in Procs :
            IF p \in Hanging THEN at[p] = Free ELSE at[p] \in {Finalize, Done})
=============================================================================
