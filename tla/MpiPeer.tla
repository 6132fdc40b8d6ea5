------------------------------ MODULE MpiPeer ------------------------------
(***************************************************************************)
(* Lab5/mpi-peer.c: a master (rank 0) multiplies two N x N matrices on     *)
(* W workers with point-to-point messages and compares the result with its *)
(* own.  A row of the product is named by its number, 0..N-1.              *)
(*                                                                         *)
(* Each worker gets, in this order, matrix B (MPI_Bcast), the number of    *)
(* its rows (TAG_BLOCK_SIZE) and its rows of A (TAG_MATRIX_FIRST), and     *)
(* answers with its rows of C (TAG_MATRIX_RESULT): one message of each tag *)
(* per worker.  MPI is external: a standard-mode send may be buffered (the *)
(* tag is in eager) or complete only when it is received, and a receive    *)
(* into too short a buffer aborts the job (MPI_ERRORS_ARE_FATAL).          *)
(***************************************************************************)
EXTENDS Integers, Sequences

CONSTANTS
  N,       \* matrix side
  W,       \* workers_count
  Setups   \* the modes a job may run in, and what MPI may buffer in each

Workers == 1..W
Rows    == 0..(N - 1)
Tags    == {"bcast", "size", "block", "result"}
Zero    == -1      \* a row of C that was not received
Garbage == -2      \* a row computed from memory that was not received

ASSUME PeerAssumption ==
  /\ N \in Nat \ {0} /\ W \in Nat \ {0}
  /\ Setups \subseteq [async : BOOLEAN, eager : SUBSET Tags]

block_size             == N \div W

\* Mutant: the sign is wrong.
LastPlus == N + (W - 1) * block_size
last_worker_block_size == N - (W - 1) * block_size

\* current_worker_block_size, for the counts of the sends and receives.
BlockSize(w) == IF w = W THEN last_worker_block_size ELSE block_size

\* Mutant: every worker is told block_size.
SizeSentPlain(w) == block_size

\* The number that goes out under TAG_BLOCK_SIZE, and the first row of worker
\* w's block in A and in C.
SizeSent(w) == BlockSize(w)
FirstA(w)   == (w - 1) * block_size

\* Mutant: the rank, i + 1, is taken for the index i.
FirstCRank(w) == w * block_size
FirstC(w)     == (w - 1) * block_size

VARIABLES
  async,     \* the mode: MPI_Isend and MPI_Irecv instead of MPI_Send and MPI_Recv
  eager,     \* the tags whose sends are buffered in this job
  pc,        \* the master: the tag it deals with, "validate" or "done"
  i,         \* its loop variable, from 1
  slot,      \* the stack slot of current_worker_block_size
  payload,   \* payload[w]: the number buffered for w under TAG_BLOCK_SIZE
  posted,    \* posted[t]: the workers whose message t has been sent
  taken,     \* taken[t]: those whose message t has been received
  wpc,       \* each worker: the tag it deals with, "wait" or "done"
  bsize,     \* each worker's block_size
  rows,      \* each worker's rows, of A and then of C
  C,         \* the master's C
  verdict,   \* what masterValidateResults() printed
  job        \* "running" or "aborted"

msgVars  == <<async, eager, posted, taken, payload>>
mstVars  == <<pc, i, slot, C, verdict>>
wrkVars  == <<wpc, bsize, rows>>
vars     == <<msgVars, mstVars, wrkVars, job>>

Init ==
  /\ \E s \in Setups : async = s.async /\ eager = s.eager
  /\ pc = "bcast" /\ i = 1 /\ slot = 0 /\ payload = [w \in Workers |-> 0]
  /\ posted = [t \in Tags |-> {}] /\ taken = [t \in Tags |-> {}]
  /\ wpc = [w \in Workers |-> "bcast"]
  /\ bsize = [w \in Workers |-> 0] /\ rows = [w \in Workers |-> <<>>]
  /\ C = [r \in Rows |-> Zero] /\ verdict = "none" /\ job = "running"

----------------------------------------------------------------------------
(* MPI (external)                                                          *)

\* The send of t to or from w may return, or MPI_Wait on it.
Complete(t, w) == w \in posted[t] /\ (t \in eager \/ w \in taken[t])

Post(t, S) == posted' = [posted EXCEPT ![t] = @ \union S]
Take(t, w) == taken' = [taken EXCEPT ![t] = @ \union {w}]
Waiting(t) == posted[t] \ taken[t]

Abort == job' = "aborted"

----------------------------------------------------------------------------
(* masterCalculateOnSlaves() and masterValidateResults()                   *)

\* Mutant: the rows are sent before their number.
AfterPhaseSwapped ==
  [bcast |-> "block", block |-> "size", size |-> "result", result |-> "validate"]
AfterPhase == [bcast |-> "size", size |-> "block", block |-> "result", result |-> "validate"]

BcastB ==
  /\ job = "running" /\ pc = "bcast" /\ i = 1
  /\ Post("bcast", Workers) /\ i' = W + 1
  /\ UNCHANGED <<async, eager, taken, payload, pc, slot, C, verdict, wrkVars, job>>

MaySend(t) == i > 1 /\ ~async => Complete(t, i - 1)

\* One MPI_Send, which begins when the one before has returned, or MPI_Isend.
\* The number of rows is in a local variable, one stack slot for all rounds.
SendSize ==
  /\ job = "running" /\ pc = "size" /\ i =< W /\ MaySend("size")
  /\ slot' = SizeSent(i) /\ payload' = [payload EXCEPT ![i] = SizeSent(i)]
  /\ Post("size", {i}) /\ i' = i + 1
  /\ UNCHANGED <<async, eager, taken, pc, C, verdict, wrkVars, job>>

SendBlock ==
  /\ job = "running" /\ pc = "block" /\ i =< W /\ MaySend("block")
  /\ Post("block", {i}) /\ i' = i + 1
  /\ UNCHANGED <<async, eager, taken, payload, pc, slot, C, verdict, wrkVars, job>>

\* The last MPI_Send or MPI_Waitall returns.
EndPhase ==
  /\ job = "running" /\ pc \in {"bcast", "size", "block"} /\ i = W + 1
  /\ \A w \in Workers : Complete(pc, w)
  /\ pc' = AfterPhase[pc] /\ i' = 1
  /\ UNCHANGED <<msgVars, slot, C, verdict, wrkVars, job>>

\* MPI_Irecv posts a receive, MPI_Recv is modelled by TakeResult alone.
PostRecv ==
  /\ async /\ job = "running" /\ pc = "result" /\ i =< W
  /\ i' = i + 1
  /\ UNCHANGED <<msgVars, pc, slot, C, verdict, wrkVars, job>>

\* The result of worker w arrives in its place in C.  MPI_Recv takes them in the
\* order of the ranks, with MPI_Irecv they arrive in any order.
TakeResult(w) ==
  /\ job = "running" /\ pc = "result" /\ w \in Waiting("result")
  /\ IF async THEN w < i ELSE w = i
  /\ Take("result", w) /\ i' = IF async THEN i ELSE i + 1
  /\ IF Len(rows[w]) > BlockSize(w)
       THEN Abort /\ UNCHANGED C
       ELSE /\ C' = [r \in Rows |-> IF r - FirstC(w) \in 0..(Len(rows[w]) - 1)
                                      THEN rows[w][r - FirstC(w) + 1] ELSE C[r]]
            /\ UNCHANGED job
  /\ UNCHANGED <<async, eager, posted, payload, pc, slot, verdict, wrkVars>>

\* Mutant: there is no MPI_Waitall.
EndResultsEarly ==
  /\ job = "running" /\ pc = "result" /\ i = W + 1
  /\ pc' = "validate" /\ i' = 1
  /\ UNCHANGED <<msgVars, slot, C, verdict, wrkVars, job>>

EndResults ==
  /\ job = "running" /\ pc = "result" /\ i = W + 1 /\ taken["result"] = Workers
  /\ pc' = "validate" /\ i' = 1
  /\ UNCHANGED <<msgVars, slot, C, verdict, wrkVars, job>>

Validate ==
  /\ job = "running" /\ pc = "validate" /\ pc' = "done"
  /\ verdict' = IF \A r \in Rows : C[r] = r THEN "No errors." ELSE "wrong"
  /\ UNCHANGED <<msgVars, i, slot, C, wrkVars, job>>

----------------------------------------------------------------------------
(* slavePrepareMemory() and slaveCalculateBlock()                          *)

AfterRecv == [bcast |-> "size", size |-> "block", block |-> "result"]

RecvB(w) ==
  /\ job = "running" /\ wpc[w] = "bcast" /\ w \in Waiting("bcast")
  /\ Take("bcast", w) /\ wpc' = [wpc EXCEPT ![w] = AfterRecv["bcast"]]
  /\ UNCHANGED <<async, eager, posted, payload, mstVars, bsize, rows, job>>

\* What is received is what was buffered, or what is now in the sender's slot.
RecvSize(w) ==
  /\ job = "running" /\ wpc[w] = "size" /\ w \in Waiting("size")
  /\ Take("size", w) /\ wpc' = [wpc EXCEPT ![w] = AfterRecv["size"]]
  /\ bsize' = [bsize EXCEPT ![w] = IF "size" \in eager THEN payload[w] ELSE slot]
  /\ UNCHANGED <<async, eager, posted, payload, mstVars, rows, job>>

\* The worker's A has room for bsize[w] rows; those beyond what was sent are
\* whatever malloc returned.  The product of each is computed at once.
RecvBlock(w) ==
  /\ job = "running" /\ wpc[w] = "block" /\ w \in Waiting("block")
  /\ Take("block", w) /\ wpc' = [wpc EXCEPT ![w] = AfterRecv["block"]]
  /\ IF BlockSize(w) > bsize[w]
       THEN Abort /\ UNCHANGED rows
       ELSE /\ rows' = [rows EXCEPT ![w] =
                 [k \in 1..bsize[w] |-> IF k =< BlockSize(w) THEN FirstA(w) + k - 1 ELSE Garbage]]
            /\ UNCHANGED job
  /\ UNCHANGED <<async, eager, posted, payload, mstVars, bsize>>

SendResult(w) ==
  /\ job = "running" /\ wpc[w] = "result"
  /\ Post("result", {w}) /\ wpc' = [wpc EXCEPT ![w] = "wait"]
  /\ UNCHANGED <<async, eager, taken, payload, mstVars, bsize, rows, job>>

Finish(w) ==
  /\ job = "running" /\ wpc[w] = "wait" /\ Complete("result", w)
  /\ wpc' = [wpc EXCEPT ![w] = "done"]
  /\ UNCHANGED <<msgVars, mstVars, bsize, rows, job>>

----------------------------------------------------------------------------
Master == \/ BcastB \/ SendSize \/ SendBlock \/ EndPhase \/ PostRecv
          \/ (\E w \in Workers : TakeResult(w)) \/ EndResults \/ Validate
Worker(w) == RecvB(w) \/ RecvSize(w) \/ RecvBlock(w) \/ SendResult(w) \/ Finish(w)

Next == Master \/ \E w \in Workers : Worker(w)

\* Every process runs and MPI delivers what is sent.
Spec == /\ Init /\ [][Next]_vars
        /\ WF_vars(Master) /\ \A w \in Workers : WF_vars(Worker(w))

----------------------------------------------------------------------------
(* Properties                                                              *)

TypeOK ==
  /\ [async |-> async, eager |-> eager] \in Setups
  /\ pc \in Tags \union {"validate", "done"} /\ i \in 1..(W + 1)
  /\ slot \in 0..N /\ payload \in [Workers -> 0..N]
  /\ posted \in [Tags -> SUBSET Workers] /\ taken \in [Tags -> SUBSET Workers]
  /\ wpc \in [Workers -> Tags \union {"wait", "done"}]
  /\ bsize \in [Workers -> 0..N] /\ rows \in [Workers -> Seq({Garbage} \union Rows)]
  /\ C \in [Rows -> {Zero, Garbage} \union Rows]
  /\ verdict \in {"none", "No errors.", "wrong"} /\ job \in {"running", "aborted"}

\* A row of C is empty or the product of that row: blocks never land in the
\* wrong place and no garbage is taken for a result.
RowsInPlace == \A r \in Rows : C[r] \in {Zero, r}

\* Every message fits the buffer it is received in: master and workers agree on
\* the size of every block, so MPI never aborts the job.
MessagesFit == job = "running"

\* Nothing is used before it is there: a worker has the master's number when it
\* receives its rows, the master has all rows when it validates.
ValidatesAll == pc \in {"validate", "done"} => \A r \in Rows : C[r] = r

\* The processes do not block each other for ever, whatever MPI buffers, and the
\* master finds no errors.
Finishes == <>(verdict = "No errors." /\ \A w \in Workers : wpc[w] = "done")

\* The master's C and verdict implement the abstract product.
Product == INSTANCE RowProduct
ImplementsProduct == Product!Spec

\* masterValidateResults() compares the product of every run, in both modes of
\* the usage message, with the master's own: a run ends with its message.
RunIsValidated == <>(verdict # "none")
=============================================================================
