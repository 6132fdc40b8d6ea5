--------------------------- MODULE MpiPeerProofs ---------------------------
(***************************************************************************)
(* Lab5/mpi-peer.c: the blocks of all workers cover the matrix without     *)
(* overlap, and when the worker gets the number it was meant to get, every *)
(* message fits and the product is right, for every N and every number of  *)
(* workers.                                                                *)
(***************************************************************************)
EXTENDS MpiPeer, TLAPS

LEMMA Division ==
  /\ block_size \in Nat
  /\ block_size * W =< N
  /\ N < (block_size + 1) * W
  BY PeerAssumption DEF block_size

LEMMA Blocks ==
  /\ block_size \in Nat /\ last_worker_block_size \in Nat
  /\ (W - 1) * block_size \in Nat /\ (W - 1) * block_size + last_worker_block_size = N
  /\ block_size =< last_worker_block_size
  BY Division, PeerAssumption DEF last_worker_block_size

\* A block begins and ends within the matrix, and before the next one begins.
LEMMA BlockBounds ==
  \A w \in Workers :
    /\ FirstA(w) \in Nat /\ BlockSize(w) \in 0..N /\ FirstA(w) + BlockSize(w) =< N
    /\ \A v \in Workers : w < v => FirstA(w) + BlockSize(w) =< FirstA(v)
<1> SUFFICES ASSUME NEW w \in Workers
             PROVE  /\ FirstA(w) \in Nat /\ BlockSize(w) \in 0..N /\ FirstA(w) + BlockSize(w) =< N
                    /\ \A v \in Workers : w < v => FirstA(w) + BlockSize(w) =< FirstA(v)
  OBVIOUS
<1> DEFINE b == block_size
<1>1. w \in Int /\ 1 =< w /\ w =< W /\ W \in Int /\ b \in Nat /\ N \in Nat
  BY Blocks, PeerAssumption DEF Workers
<1>2. CASE w = W
  <2>1. FirstA(w) = (W - 1) * b /\ BlockSize(w) = last_worker_block_size
    BY <1>2 DEF FirstA, BlockSize
  <2>2. QED
    BY <1>1, <1>2, <2>1, Blocks DEF Workers
<1>3. CASE w < W
  <2>1. FirstA(w) = (w - 1) * b /\ BlockSize(w) = b
    BY <1>1, <1>3 DEF FirstA, BlockSize
  <2>2. (w - 1) * b \in Nat /\ (w - 1) * b + b = w * b
    BY <1>1
  <2>3. ASSUME NEW v \in Int, w < v PROVE w * b =< (v - 1) * b
    BY <1>1, <2>3
  <2>4. w * b =< (W - 1) * b
    <3>1. (W - 1) * b - w * b = (W - 1 - w) * b
      BY <1>1
    <3>2. (W - 1 - w) * b >= 0
      BY <1>1, <1>3
    <3>3. QED
      BY <1>1, <3>1, <3>2
  <2>5. FirstA(w) + BlockSize(w) =< N /\ BlockSize(w) =< N
    BY <1>1, <2>1, <2>2, <2>4, Blocks
  <2>6. ASSUME NEW v \in Workers, w < v PROVE FirstA(w) + BlockSize(w) =< FirstA(v)
    BY <1>1, <2>1, <2>2, <2>3, <2>6 DEF FirstA, Workers
  <2>7. QED
    BY <1>1, <2>1, <2>2, <2>5, <2>6
<1>4. QED
  BY <1>1, <1>2, <1>3

\* Every row belongs to the block of a worker, also when there are fewer rows
\* than workers: then all of them are the last worker's.
LEMMA BlocksCover ==
  \A r \in Rows : \E w \in Workers : r - FirstA(w) \in 0..(BlockSize(w) - 1)
<1> SUFFICES ASSUME NEW r \in Rows
             PROVE  \E w \in Workers : r - FirstA(w) \in 0..(BlockSize(w) - 1)
  OBVIOUS
<1> DEFINE b == block_size
<1>1. r \in Nat /\ r < N /\ b \in Nat /\ W \in Nat /\ W >= 1
  BY Blocks, PeerAssumption DEF Rows
<1>2. CASE r >= (W - 1) * b
  <2>1. FirstA(W) = (W - 1) * b /\ BlockSize(W) = last_worker_block_size /\ W \in Workers
    BY <1>1 DEF FirstA, BlockSize, Workers
  <2>2. r - FirstA(W) \in 0..(BlockSize(W) - 1)
    BY <1>1, <1>2, <2>1, Blocks
  <2>3. QED
    BY <2>1, <2>2
<1>3. CASE r < (W - 1) * b
  <2>1. b > 0
    BY <1>1, <1>3
  <2>2. PICK q \in Nat : q * b =< r /\ r < (q + 1) * b
    <3>1. /\ r \div b \in Nat
          /\ (r \div b) * b =< r /\ r < (r \div b + 1) * b
      BY <1>1, <2>1
    <3>2. QED
      BY <3>1
  <2>3. q + 1 < W
    BY <1>1, <1>3, <2>1, <2>2
  <2>4. q + 1 \in Workers /\ FirstA(q + 1) = q * b /\ BlockSize(q + 1) = b
    BY <1>1, <2>3 DEF FirstA, BlockSize, Workers
  <2>5. QED
    BY <1>1, <2>2, <2>4
<1>4. QED
  BY <1>1, <1>2, <1>3, Blocks

----------------------------------------------------------------------------
USE PeerAssumption DEF msgVars, mstVars, wrkVars, Post, Take, Waiting, Abort

\* What a worker holds after it received its rows, and what it computed from them.
RowsOf(w, n) == [k \in 1..n |-> IF k =< BlockSize(w) THEN FirstA(w) + k - 1 ELSE Garbage]

LEMMA RowsTypes ==
  \A w \in Workers, n \in 0..N : RowsOf(w, n) \in Seq({Garbage} \union Rows)
<1> SUFFICES ASSUME NEW w \in Workers, NEW n \in 0..N
             PROVE  RowsOf(w, n) \in Seq({Garbage} \union Rows)
  OBVIOUS
<1>1. n \in Nat
  OBVIOUS
<1>2. ASSUME NEW k \in 1..n
      PROVE  (IF k =< BlockSize(w) THEN FirstA(w) + k - 1 ELSE Garbage) \in {Garbage} \union Rows
  BY <1>1, BlockBounds DEF Rows
<1>3. QED
  BY <1>1, <1>2 DEF RowsOf

LEMMA InitTypes == Init => TypeOK
<1> SUFFICES ASSUME Init PROVE TypeOK
  OBVIOUS
<1>1. rows \in [Workers -> Seq({Garbage} \union Rows)]
  BY DEF Init
<1>2. posted \in [Tags -> SUBSET Workers] /\ taken \in [Tags -> SUBSET Workers]
  BY DEF Init
<1>3. C \in [Rows -> {Zero, Garbage} \union Rows]
  BY DEF Init
<1>4. i \in 1..(W + 1) /\ slot \in 0..N
  BY DEF Init
<1>5. payload \in [Workers -> 0..N] /\ bsize \in [Workers -> 0..N]
  BY DEF Init
<1>6. wpc \in [Workers -> Tags \union {"wait", "done"}] /\ pc \in Tags \union {"validate", "done"}
  BY DEF Init, Tags
<1>7. QED
  BY <1>1, <1>2, <1>3, <1>4, <1>5, <1>6 DEF Init, TypeOK

LEMMA StepTypes == TypeOK /\ [Next]_vars => TypeOK'
<1>0. SUFFICES ASSUME TypeOK, [Next]_vars PROVE TypeOK'
  OBVIOUS
<1> USE DEF TypeOK
<1>a. i \in Int /\ 1 =< i /\ i =< W + 1 /\ W \in Int
  <2>1. i \in 1..(W + 1)
    BY <1>0
  <2>2. QED
    BY <2>1
<1>1. CASE BcastB
  <2>1. posted' \in [Tags -> SUBSET Workers]
    BY <1>0, <1>1 DEF BcastB, Tags
  <2>2. i' \in 1..(W + 1)
    BY <1>1 DEF BcastB
  <2>3. QED
    BY <1>0, <1>1, <2>1, <2>2 DEF BcastB
<1>2. CASE SendSize
  <2>1. i \in Workers /\ i' \in 1..(W + 1)
    <3>1. i =< W /\ i' = i + 1
      BY <1>2 DEF SendSize
    <3>2. QED
      BY <1>a, <3>1 DEF Workers
  <2>2. posted' \in [Tags -> SUBSET Workers]
    BY <1>0, <1>2, <2>1 DEF SendSize, Tags
  <2>3. slot' \in 0..N /\ payload' \in [Workers -> 0..N]
    BY <1>0, <1>2, <2>1, BlockBounds DEF SendSize, SizeSent
  <2>4. QED
    BY <1>0, <1>2, <2>1, <2>2, <2>3 DEF SendSize
<1>3. CASE SendBlock
  <2>1. i \in Workers /\ i' \in 1..(W + 1)
    <3>1. i =< W /\ i' = i + 1
      BY <1>3 DEF SendBlock
    <3>2. QED
      BY <1>a, <3>1 DEF Workers
  <2>2. posted' \in [Tags -> SUBSET Workers]
    BY <1>0, <1>3, <2>1 DEF SendBlock, Tags
  <2>3. QED
    BY <1>0, <1>3, <2>1, <2>2 DEF SendBlock
<1>4. CASE EndPhase
  <2>1. pc' \in Tags \union {"validate", "done"} /\ i' \in 1..(W + 1)
    BY <1>4 DEF EndPhase, AfterPhase, Tags
  <2>2. QED
    BY <1>0, <1>4, <2>1 DEF EndPhase
<1>5. CASE PostRecv
  <2>1. i' \in 1..(W + 1)
    <3>1. i =< W /\ i' = i + 1
      BY <1>5 DEF PostRecv
    <3>2. QED
      BY <1>a, <3>1
  <2>2. QED
    BY <1>0, <1>5, <2>1 DEF PostRecv
<1>6. ASSUME NEW w \in Workers, TakeResult(w) PROVE TypeOK'
  <2>1. taken' \in [Tags -> SUBSET Workers]
    BY <1>0, <1>6 DEF TakeResult, Tags
  <2>2. i' \in 1..(W + 1)
    <3>1. i' = i \/ (i = w /\ i' = i + 1)
      BY <1>6 DEF TakeResult
    <3>2. QED
      BY <1>a, <3>1 DEF Workers
  <2>3. C' \in [Rows -> {Zero, Garbage} \union Rows]
    <3>1. CASE Len(rows[w]) > BlockSize(w)
      BY <1>0, <1>6, <3>1 DEF TakeResult
    <3>2. CASE ~(Len(rows[w]) > BlockSize(w))
      <4>1. rows[w] \in Seq({Garbage} \union Rows)
        BY <1>0
      <4>2. ASSUME NEW r \in Rows, r - FirstC(w) \in 0..(Len(rows[w]) - 1)
            PROVE  rows[w][r - FirstC(w) + 1] \in {Garbage} \union Rows
        BY <4>1, <4>2 DEF Rows
      <4>3. C' = [r \in Rows |-> IF r - FirstC(w) \in 0..(Len(rows[w]) - 1)
                                    THEN rows[w][r - FirstC(w) + 1] ELSE C[r]]
        BY <1>6, <3>2 DEF TakeResult
      <4>4. C \in [Rows -> {Zero, Garbage} \union Rows]
        BY <1>0
      <4>5. QED
        BY <4>2, <4>3, <4>4
    <3>3. QED
      BY <3>1, <3>2
  <2>4. job' \in {"running", "aborted"}
    BY <1>6 DEF TakeResult
  <2>5. QED
    BY <1>0, <1>6, <2>1, <2>2, <2>3, <2>4 DEF TakeResult
<1>7. CASE EndResults
  <2>1. pc' \in Tags \union {"validate", "done"} /\ i' \in 1..(W + 1)
    BY <1>7 DEF EndResults
  <2>2. QED
    BY <1>0, <1>7, <2>1 DEF EndResults
<1>8. CASE Validate
  BY <1>0, <1>8 DEF Validate
<1>9. ASSUME NEW w \in Workers, RecvB(w) PROVE TypeOK'
  <2>1. taken' \in [Tags -> SUBSET Workers]
    BY <1>0, <1>9 DEF RecvB, Tags
  <2>2. wpc' \in [Workers -> Tags \union {"wait", "done"}]
    BY <1>0, <1>9 DEF RecvB, AfterRecv, Tags
  <2>3. QED
    BY <1>0, <1>9, <2>1, <2>2 DEF RecvB
<1>9a. ASSUME NEW w \in Workers, SendResult(w) PROVE TypeOK'
  <2>1. posted' \in [Tags -> SUBSET Workers]
    BY <1>0, <1>9a DEF SendResult, Tags
  <2>2. wpc' \in [Workers -> Tags \union {"wait", "done"}]
    BY <1>0, <1>9a DEF SendResult
  <2>3. QED
    BY <1>0, <1>9a, <2>1, <2>2 DEF SendResult
<1>9b. ASSUME NEW w \in Workers, Finish(w) PROVE TypeOK'
  <2>1. wpc' \in [Workers -> Tags \union {"wait", "done"}]
    BY <1>0, <1>9b DEF Finish
  <2>2. QED
    BY <1>0, <1>9b, <2>1 DEF Finish
<1>10. ASSUME NEW w \in Workers, RecvSize(w) PROVE TypeOK'
  <2>1. taken' \in [Tags -> SUBSET Workers]
    BY <1>0, <1>10 DEF RecvSize, Tags
  <2>2. wpc' \in [Workers -> Tags \union {"wait", "done"}]
    BY <1>0, <1>10 DEF RecvSize, AfterRecv, Tags
  <2>3. bsize' \in [Workers -> 0..N]
    BY <1>0, <1>10 DEF RecvSize
  <2>4. QED
    BY <1>0, <1>10, <2>1, <2>2, <2>3 DEF RecvSize
<1>11. ASSUME NEW w \in Workers, RecvBlock(w) PROVE TypeOK'
  <2>1. taken' \in [Tags -> SUBSET Workers]
    BY <1>0, <1>11 DEF RecvBlock, Tags
  <2>2. wpc' \in [Workers -> Tags \union {"wait", "done"}]
    BY <1>0, <1>11 DEF RecvBlock, AfterRecv, Tags
  <2>3. rows' = rows \/ rows' = [rows EXCEPT ![w] = RowsOf(w, bsize[w])]
    BY <1>11 DEF RecvBlock, RowsOf
  <2>4. rows' \in [Workers -> Seq({Garbage} \union Rows)]
    <3>1. RowsOf(w, bsize[w]) \in Seq({Garbage} \union Rows)
      BY <1>0, RowsTypes
    <3>2. rows \in [Workers -> Seq({Garbage} \union Rows)]
      BY <1>0
    <3>3. QED
      BY <2>3, <3>1, <3>2
  <2>5. job' \in {"running", "aborted"}
    BY <1>11 DEF RecvBlock
  <2>6. QED
    BY <1>0, <1>11, <2>1, <2>2, <2>4, <2>5 DEF RecvBlock
<1>12. CASE UNCHANGED vars
  BY <1>0, <1>12 DEF vars
<1>13. QED
  BY <1>0, <1>1, <1>2, <1>3, <1>4, <1>5, <1>6, <1>7, <1>8, <1>9, <1>9a, <1>9b, <1>10, <1>11, <1>12
     DEF Next, Master, Worker

----------------------------------------------------------------------------
\* When the number in the stack slot cannot be wrong: each send has returned
\* before the next round, MPI copies the number at once, or there is only one.
Agreed ==
  \A s \in Setups : ~s.async \/ "size" \in s.eager \/ last_worker_block_size = block_size

\* Whoever has not yet received its number will find it.
SizesAgree ==
  /\ \A w \in posted["size"] : payload[w] = BlockSize(w)
  /\ "size" \notin eager => \A w \in posted["size"] \ taken["size"] : slot = BlockSize(w)
  /\ \A w \in Workers : wpc[w] \in {"block", "result", "wait", "done"} => bsize[w] = BlockSize(w)

\* MPI_Send goes on to the next worker when the one before has its number.
InTurn ==
  /\ pc = "bcast" => posted["size"] = {}
  /\ pc = "size" => posted["size"] = 1..(i - 1)
  /\ pc = "size" /\ ~async /\ "size" \notin eager => 1..(i - 2) \subseteq taken["size"]

RowsRight ==
  /\ \A w \in Workers : wpc[w] \in {"result", "wait", "done"} => rows[w] = RowsOf(w, BlockSize(w))
  /\ \A w \in posted["result"] : wpc[w] \in {"wait", "done"}

ProductRight ==
  /\ RowsInPlace
  /\ \A w \in taken["result"] : \A r \in Rows :
       r - FirstC(w) \in 0..(BlockSize(w) - 1) => C[r] = r
  /\ pc \in {"validate", "done"} => taken["result"] = Workers
  /\ verdict # "wrong" /\ (pc # "done" => verdict = "none")

PeerInv ==
  TypeOK /\ job = "running" /\ SizesAgree /\ InTurn /\ RowsRight /\ ProductRight

LEMMA RowsLength ==
  \A w \in Workers : Len(RowsOf(w, BlockSize(w))) = BlockSize(w)
  BY BlockBounds DEF RowsOf

\* The receive of a block or of a result never finds the buffer too short.
LEMMA StepFits == PeerInv /\ [Next]_vars => job' = "running"
<1>0. SUFFICES ASSUME PeerInv, [Next]_vars PROVE job' = "running"
  OBVIOUS
<1>1. ASSUME NEW w \in Workers, RecvBlock(w) PROVE job' = "running"
  <2>1. bsize[w] = BlockSize(w) /\ BlockSize(w) \in Int
    BY <1>0, <1>1, BlockBounds DEF PeerInv, SizesAgree, RecvBlock
  <2>2. QED
    BY <1>1, <2>1 DEF RecvBlock
<1>2. ASSUME NEW w \in Workers, TakeResult(w) PROVE job' = "running"
  <2>1. w \in posted["result"]
    BY <1>2 DEF TakeResult
  <2>2. rows[w] = RowsOf(w, BlockSize(w))
    BY <1>0, <2>1 DEF PeerInv, RowsRight
  <2>3. Len(rows[w]) = BlockSize(w) /\ BlockSize(w) \in Int
    BY <2>2, RowsLength, BlockBounds
  <2>4. QED
    BY <1>2, <2>3 DEF TakeResult
<1>3. job = "running"
  BY <1>0 DEF PeerInv
<1>4. QED
  BY <1>0, <1>1, <1>2, <1>3
     DEF Next, Master, Worker, BcastB, SendSize, SendBlock, EndPhase, PostRecv, EndResults,
         Validate, RecvB, RecvSize, SendResult, Finish, vars

\* In a round of the first loop nobody is still waiting for an older number,
\* unless it is the same number.
LEMMA NobodyWaits ==
  PeerInv /\ Agreed /\ SendSize /\ "size" \notin eager =>
    \A w \in posted["size"] \ taken["size"] : BlockSize(w) = BlockSize(i)
<1>0. SUFFICES ASSUME PeerInv, Agreed, SendSize, "size" \notin eager,
                      NEW w \in posted["size"] \ taken["size"]
               PROVE  BlockSize(w) = BlockSize(i)
  OBVIOUS
<1>1. CASE last_worker_block_size = block_size
  BY <1>1 DEF BlockSize
<1>2. CASE "size" \in eager
  BY <1>0, <1>2
<1>3. CASE ~async
  <2>1. posted["size"] = 1..(i - 1) /\ 1..(i - 2) \subseteq taken["size"] /\ i \in 1..(W + 1)
    BY <1>0, <1>3 DEF PeerInv, InTurn, SendSize, TypeOK
  <2>2. w \in 1..(i - 1) /\ w \notin 1..(i - 2) /\ i \in Int
    BY <2>1
  <2>3. w = i - 1 /\ i > 1
    BY <2>2
  <2>4. Complete("size", i - 1)
    BY <1>0, <1>3, <2>3 DEF SendSize, MaySend
  <2>5. QED
    BY <1>0, <2>3, <2>4 DEF Complete
<1>4. [async |-> async, eager |-> eager] \in Setups
  BY <1>0 DEF PeerInv, TypeOK
<1>5. QED
  BY <1>0, <1>1, <1>2, <1>3, <1>4 DEF Agreed

LEMMA StepSizesAgree == PeerInv /\ Agreed /\ [Next]_vars => SizesAgree'
<1>0. SUFFICES ASSUME PeerInv, Agreed, [Next]_vars PROVE SizesAgree'
  OBVIOUS
<1>1. CASE SendSize
  <2>1. /\ slot' = BlockSize(i) /\ payload' = [payload EXCEPT ![i] = BlockSize(i)]
        /\ posted' = [posted EXCEPT !["size"] = @ \union {i}]
        /\ UNCHANGED <<async, eager, taken, wpc, bsize>>
    BY <1>1 DEF SendSize, SizeSent
  <2>2. /\ payload \in [Workers -> 0..N] /\ posted \in [Tags -> SUBSET Workers]
        /\ SizesAgree
    BY <1>0 DEF PeerInv, TypeOK
  <2>3. posted'["size"] = posted["size"] \union {i}
    BY <2>1, <2>2 DEF Tags
  <2>4. ASSUME NEW w \in posted'["size"] PROVE payload'[w] = BlockSize(w)
    <3>1. i \in Workers /\ w \in Workers
      <4>1. posted["size"] \subseteq Workers
        BY <2>2 DEF Tags
      <4>2. i \in 1..(W + 1) /\ i =< W
        BY <1>0, <1>1 DEF PeerInv, TypeOK, SendSize
      <4>3. i \in Workers
        BY <4>2 DEF Workers
      <4>4. QED
        BY <2>3, <2>4, <4>1, <4>3
    <3>2. QED
      BY <2>1, <2>2, <2>3, <2>4, <3>1 DEF SizesAgree
  <2>5. ASSUME "size" \notin eager', NEW w \in posted'["size"] \ taken'["size"]
        PROVE  slot' = BlockSize(w)
    BY <1>0, <1>1, <2>1, <2>3, <2>5, NobodyWaits
  <2>6. QED
    BY <2>1, <2>2, <2>4, <2>5 DEF SizesAgree
<1>2. ASSUME NEW w \in Workers, RecvSize(w) PROVE SizesAgree'
  <2>1. /\ taken' = [taken EXCEPT !["size"] = @ \union {w}]
        /\ wpc' = [wpc EXCEPT ![w] = "block"]
        /\ bsize' = [bsize EXCEPT ![w] = IF "size" \in eager THEN payload[w] ELSE slot]
        /\ w \in posted["size"] \ taken["size"]
        /\ UNCHANGED <<async, eager, posted, payload, slot>>
    BY <1>2 DEF RecvSize, AfterRecv
  <2>2. /\ wpc \in [Workers -> Tags \union {"wait", "done"}] /\ bsize \in [Workers -> 0..N]
        /\ taken \in [Tags -> SUBSET Workers] /\ SizesAgree
    BY <1>0 DEF PeerInv, TypeOK
  <2>3. bsize'[w] = BlockSize(w)
    BY <2>1, <2>2 DEF SizesAgree
  <2>4. taken'["size"] = taken["size"] \union {w}
    BY <2>1, <2>2 DEF Tags
  <2>5. ASSUME NEW v \in Workers, wpc'[v] \in {"block", "result", "wait", "done"}
        PROVE  bsize'[v] = BlockSize(v)
    BY <2>1, <2>2, <2>3, <2>5 DEF SizesAgree
  <2>6. QED
    BY <2>1, <2>2, <2>4, <2>5 DEF SizesAgree
<1>3. ASSUME NEW w \in Workers, RecvB(w) \/ RecvBlock(w) \/ SendResult(w) \/ Finish(w)
      PROVE SizesAgree'
  <2>1. /\ UNCHANGED <<async, eager, payload, slot, bsize>>
        /\ posted'["size"] = posted["size"] /\ taken'["size"] = taken["size"]
    <3>1. posted \in [Tags -> SUBSET Workers] /\ taken \in [Tags -> SUBSET Workers]
      BY <1>0 DEF PeerInv, TypeOK
    <3>2. CASE RecvB(w) \/ RecvBlock(w)
      BY <3>1, <3>2 DEF RecvB, RecvBlock, Tags
    <3>3. CASE SendResult(w) \/ Finish(w)
      BY <3>1, <3>3 DEF SendResult, Finish, Tags
    <3>4. QED
      BY <1>3, <3>2, <3>3
  <2>2. \A v \in Workers : wpc'[v] \in {"block", "result", "wait", "done"} =>
          wpc[v] \in {"block", "result", "wait", "done"}
    BY <1>0, <1>3 DEF RecvB, RecvBlock, SendResult, Finish, PeerInv, TypeOK, AfterRecv
  <2>3. SizesAgree
    BY <1>0 DEF PeerInv
  <2>4. QED
    BY <2>1, <2>2, <2>3 DEF SizesAgree
<1>4. CASE BcastB \/ SendBlock \/ EndPhase \/ PostRecv \/ EndResults \/ Validate
           \/ (\E w \in Workers : TakeResult(w)) \/ UNCHANGED vars
  <2>1. UNCHANGED <<async, eager, payload, slot, bsize, wpc>>
    <3>1. CASE \E w \in Workers : TakeResult(w)
      BY <3>1 DEF TakeResult
    <3>2. CASE UNCHANGED vars
      BY <3>2 DEF vars
    <3>3. CASE BcastB \/ SendBlock
      BY <3>3 DEF BcastB, SendBlock
    <3>4. CASE EndPhase \/ PostRecv \/ EndResults \/ Validate
      BY <3>4 DEF EndPhase, PostRecv, EndResults, Validate
    <3>5. QED
      BY <1>4, <3>1, <3>2, <3>3, <3>4
  <2>2. posted'["size"] = posted["size"] /\ taken'["size"] = taken["size"]
    <3>0. posted \in [Tags -> SUBSET Workers] /\ taken \in [Tags -> SUBSET Workers]
      BY <1>0 DEF PeerInv, TypeOK
    <3>1. CASE \E w \in Workers : TakeResult(w)
      BY <3>0, <3>1 DEF TakeResult, Tags
    <3>2. CASE UNCHANGED vars
      BY <3>2 DEF vars
    <3>3. CASE BcastB \/ SendBlock
      BY <3>0, <3>3 DEF BcastB, SendBlock, Tags
    <3>4. CASE EndPhase \/ PostRecv \/ EndResults \/ Validate
      BY <3>4 DEF EndPhase, PostRecv, EndResults, Validate
    <3>5. QED
      BY <1>4, <3>1, <3>2, <3>3, <3>4
  <2>3. SizesAgree
    BY <1>0 DEF PeerInv
  <2>4. QED
    BY <2>1, <2>2, <2>3 DEF SizesAgree
<1>5. QED
  BY <1>0, <1>1, <1>2, <1>3, <1>4 DEF Next, Master, Worker

LEMMA StepInTurn == PeerInv /\ [Next]_vars => InTurn'
<1>0. SUFFICES ASSUME PeerInv, [Next]_vars PROVE InTurn'
  OBVIOUS
<1>1. /\ posted \in [Tags -> SUBSET Workers] /\ taken \in [Tags -> SUBSET Workers]
      /\ i \in 1..(W + 1) /\ W \in Nat /\ InTurn
  BY <1>0 DEF PeerInv, TypeOK
<1>2. i \in Int
  BY <1>1
<1>3. CASE BcastB
  <2>1. pc' = "bcast" /\ posted'["size"] = posted["size"] /\ pc = "bcast"
    BY <1>1, <1>3 DEF BcastB, Tags
  <2>2. QED
    BY <1>1, <2>1 DEF InTurn
<1>4. CASE SendSize
  <2>1. /\ pc = "size" /\ pc' = "size" /\ i' = i + 1 /\ posted'["size"] = posted["size"] \union {i}
        /\ i > 1 /\ ~async => Complete("size", i - 1)
        /\ UNCHANGED <<taken, async, eager>>
    BY <1>1, <1>4 DEF SendSize, MaySend, Tags
  <2>2. posted["size"] = 1..(i - 1)
    BY <1>1, <2>1 DEF InTurn
  <2>3. posted'["size"] = 1..(i' - 1)
    BY <1>1, <2>1, <2>2
  <2>4. ASSUME ~async, "size" \notin eager PROVE 1..(i' - 2) \subseteq taken["size"]
    <3>1. 1..(i - 2) \subseteq taken["size"]
      BY <1>1, <2>1, <2>4 DEF InTurn
    <3>2. i > 1 => i - 1 \in taken["size"]
      BY <2>1, <2>4 DEF Complete
    <3>3. \A k \in 1..(i' - 2) : k \in 1..(i - 2) \/ (i > 1 /\ k = i - 1)
      BY <1>2, <2>1
    <3>4. QED
      BY <3>1, <3>2, <3>3
  <2>5. QED
    BY <2>1, <2>3, <2>4 DEF InTurn
<1>5. CASE EndPhase
  <2>1. posted' = posted /\ i' = 1 /\ pc' = AfterPhase[pc] /\ pc \in {"bcast", "size", "block"}
    BY <1>5 DEF EndPhase
  <2>2. pc' # "bcast" /\ (pc' = "size" => pc = "bcast")
    BY <2>1 DEF AfterPhase
  <2>3. 1..(i' - 1) = {} /\ 1..(i' - 2) = {}
    BY <2>1
  <2>4. QED
    BY <1>1, <2>1, <2>2, <2>3 DEF InTurn
<1>6. CASE SendBlock \/ PostRecv \/ EndResults \/ Validate \/ (\E w \in Workers : TakeResult(w))
  <2>1. pc' \notin {"bcast", "size"}
    BY <1>6 DEF SendBlock, PostRecv, EndResults, Validate, TakeResult
  <2>2. QED
    BY <2>1 DEF InTurn
<1>7. ASSUME NEW w \in Workers, Worker(w) PROVE InTurn'
  <2>1. UNCHANGED <<pc, i, async, eager>>
    BY <1>7 DEF Worker, RecvB, RecvSize, RecvBlock, SendResult, Finish
  <2>2. posted'["size"] = posted["size"] /\ taken["size"] \subseteq taken'["size"]
    BY <1>1, <1>7 DEF Worker, RecvB, RecvSize, RecvBlock, SendResult, Finish, Tags
  <2>3. QED
    BY <1>1, <2>1, <2>2 DEF InTurn
<1>8. CASE UNCHANGED vars
  BY <1>1, <1>8 DEF vars, InTurn
<1>9. QED
  BY <1>0, <1>3, <1>4, <1>5, <1>6, <1>7, <1>8 DEF Next, Master

LEMMA StepRowsRight == PeerInv /\ [Next]_vars => RowsRight'
<1>0. SUFFICES ASSUME PeerInv, [Next]_vars PROVE RowsRight'
  OBVIOUS
<1>1. /\ posted \in [Tags -> SUBSET Workers] /\ RowsRight
      /\ wpc \in [Workers -> Tags \union {"wait", "done"}]
      /\ rows \in [Workers -> Seq({Garbage} \union Rows)]
  BY <1>0 DEF PeerInv, TypeOK
<1>2. ASSUME NEW w \in Workers, RecvBlock(w) PROVE RowsRight'
  <2>1. bsize[w] = BlockSize(w) /\ BlockSize(w) \in Int
    BY <1>0, <1>2, BlockBounds DEF PeerInv, SizesAgree, RecvBlock
  <2>2. /\ wpc[w] = "block" /\ wpc' = [wpc EXCEPT ![w] = "result"] /\ posted' = posted
        /\ rows' = [rows EXCEPT ![w] = RowsOf(w, BlockSize(w))]
    BY <1>2, <2>1 DEF RecvBlock, RowsOf, AfterRecv
  <2>3. QED
    BY <1>1, <2>2 DEF RowsRight
<1>3. ASSUME NEW w \in Workers, SendResult(w) PROVE RowsRight'
  <2>1. /\ wpc[w] = "result" /\ wpc' = [wpc EXCEPT ![w] = "wait"] /\ rows' = rows
        /\ posted'["result"] = posted["result"] \union {w}
    BY <1>1, <1>3 DEF SendResult, Tags
  <2>2. QED
    BY <1>1, <2>1 DEF RowsRight
<1>4. ASSUME NEW w \in Workers, Finish(w) PROVE RowsRight'
  BY <1>1, <1>4 DEF RowsRight, Finish
<1>5. ASSUME NEW w \in Workers, RecvB(w) \/ RecvSize(w) PROVE RowsRight'
  <2>1. /\ \E l \in {"size", "block"} : wpc' = [wpc EXCEPT ![w] = l]
        /\ wpc[w] \in {"bcast", "size"} /\ UNCHANGED <<rows, posted>>
    BY <1>5 DEF RecvB, RecvSize, AfterRecv
  <2>2. QED
    BY <1>1, <2>1 DEF RowsRight
<1>6. CASE Master
  <2>1. UNCHANGED <<rows, wpc>>
    BY <1>6 DEF Master, BcastB, SendSize, SendBlock, EndPhase, PostRecv, EndResults, Validate, TakeResult
  <2>2. posted'["result"] = posted["result"]
    <3>1. CASE BcastB \/ SendSize \/ SendBlock
      BY <1>1, <3>1 DEF BcastB, SendSize, SendBlock, Tags
    <3>2. CASE EndPhase \/ PostRecv \/ EndResults \/ Validate \/ (\E w \in Workers : TakeResult(w))
      BY <3>2 DEF EndPhase, PostRecv, EndResults, Validate, TakeResult
    <3>3. QED
      BY <1>6, <3>1, <3>2 DEF Master
  <2>3. QED
    BY <1>1, <2>1, <2>2 DEF RowsRight
<1>7. CASE UNCHANGED vars
  BY <1>1, <1>7 DEF vars, RowsRight
<1>8. QED
  BY <1>0, <1>2, <1>3, <1>4, <1>5, <1>6, <1>7 DEF Next, Worker

\* The result of a worker fills exactly its block.
LEMMA Filled ==
  PeerInv => \A w \in Workers : TakeResult(w) =>
    /\ \A r \in Rows : C'[r] = IF r - FirstC(w) \in 0..(BlockSize(w) - 1) THEN r ELSE C[r]
    /\ taken'["result"] = taken["result"] \union {w}
    /\ UNCHANGED <<pc, verdict>>
<1>0. SUFFICES ASSUME PeerInv, NEW w \in Workers, TakeResult(w)
               PROVE  /\ \A r \in Rows : C'[r] = IF r - FirstC(w) \in 0..(BlockSize(w) - 1) THEN r ELSE C[r]
                      /\ taken'["result"] = taken["result"] \union {w}
                      /\ UNCHANGED <<pc, verdict>>
  OBVIOUS
<1>1. rows[w] = RowsOf(w, BlockSize(w))
  BY <1>0 DEF PeerInv, RowsRight, TakeResult
<1>2. Len(rows[w]) = BlockSize(w) /\ BlockSize(w) \in Nat /\ FirstA(w) \in Nat
  BY <1>1, RowsLength, BlockBounds
<1>3. C' = [r \in Rows |-> IF r - FirstC(w) \in 0..(Len(rows[w]) - 1)
                             THEN rows[w][r - FirstC(w) + 1] ELSE C[r]]
  BY <1>0, <1>2 DEF TakeResult
<1>4. FirstC(w) = FirstA(w)
  BY DEF FirstC, FirstA
<1>5. ASSUME NEW r \in Rows, r - FirstC(w) \in 0..(BlockSize(w) - 1)
      PROVE  rows[w][r - FirstC(w) + 1] = r
  <2>1. r \in Int
    BY DEF Rows
  <2>2. r - FirstA(w) + 1 \in 1..BlockSize(w) /\ r - FirstA(w) + 1 =< BlockSize(w)
    BY <1>2, <1>4, <1>5, <2>1
  <2>3. rows[w][r - FirstA(w) + 1] = FirstA(w) + (r - FirstA(w) + 1) - 1
    BY <1>1, <2>2 DEF RowsOf
  <2>4. QED
    BY <1>2, <1>4, <2>1, <2>3
<1>6. taken \in [Tags -> SUBSET Workers]
  BY <1>0 DEF PeerInv, TypeOK
<1>7. QED
  BY <1>0, <1>2, <1>3, <1>5, <1>6 DEF TakeResult, Tags

LEMMA StepProductRight == PeerInv /\ [Next]_vars => ProductRight'
<1>0. SUFFICES ASSUME PeerInv, [Next]_vars PROVE ProductRight'
  OBVIOUS
<1>1. ProductRight /\ taken \in [Tags -> SUBSET Workers]
  BY <1>0 DEF PeerInv, TypeOK
<1>2. ASSUME NEW w \in Workers, TakeResult(w) PROVE ProductRight'
  <2>1. /\ \A r \in Rows : C'[r] = IF r - FirstC(w) \in 0..(BlockSize(w) - 1) THEN r ELSE C[r]
        /\ taken'["result"] = taken["result"] \union {w}
        /\ UNCHANGED <<pc, verdict>> /\ pc = "result"
    BY <1>0, <1>2, Filled DEF TakeResult
  <2>2. QED
    BY <1>1, <2>1 DEF ProductRight, RowsInPlace
<1>3. CASE EndResults
  BY <1>1, <1>3 DEF EndResults, ProductRight, RowsInPlace
<1>4. CASE Validate
  <2>1. \A r \in Rows : C[r] = r
    <3>1. taken["result"] = Workers
      BY <1>1, <1>4 DEF Validate, ProductRight
    <3>2. \A w \in Workers : FirstC(w) = FirstA(w)
      BY DEF FirstC, FirstA
    <3>3. QED
      BY <1>1, <3>1, <3>2, BlocksCover DEF ProductRight
  <2>2. /\ verdict' = "No errors." /\ UNCHANGED <<C, taken>>
        /\ taken["result"] = Workers /\ pc' = "done"
    BY <1>1, <1>4, <2>1 DEF Validate, ProductRight
  <2>3. QED
    BY <1>1, <2>2 DEF ProductRight, RowsInPlace
<1>5. CASE BcastB \/ SendSize \/ SendBlock \/ EndPhase \/ PostRecv
  <2>1. UNCHANGED <<C, taken, verdict>>
    BY <1>5 DEF BcastB, SendSize, SendBlock, EndPhase, PostRecv
  <2>2. pc' \notin {"validate", "done"} /\ pc # "done"
    BY <1>5 DEF BcastB, SendSize, SendBlock, EndPhase, PostRecv, AfterPhase
  <2>3. QED
    BY <1>1, <2>1, <2>2 DEF ProductRight, RowsInPlace
<1>6. ASSUME NEW w \in Workers, Worker(w) PROVE ProductRight'
  <2>1. UNCHANGED <<C, pc, verdict>>
    BY <1>6 DEF Worker, RecvB, RecvSize, RecvBlock, SendResult, Finish
  <2>2. taken'["result"] = taken["result"]
    BY <1>1, <1>6 DEF Worker, RecvB, RecvSize, RecvBlock, SendResult, Finish, Tags
  <2>3. QED
    BY <1>1, <2>1, <2>2 DEF ProductRight, RowsInPlace
<1>7. CASE UNCHANGED vars
  BY <1>1, <1>7 DEF vars, ProductRight, RowsInPlace
<1>8. QED
  BY <1>0, <1>2, <1>3, <1>4, <1>5, <1>6, <1>7 DEF Next, Master

----------------------------------------------------------------------------
LEMMA InitInv == Init => PeerInv
<1>0. SUFFICES ASSUME Init PROVE PeerInv
  OBVIOUS
<1>1. posted["size"] = {} /\ posted["result"] = {} /\ taken["result"] = {}
  BY <1>0 DEF Init, Tags
<1>2. SizesAgree
  BY <1>0, <1>1 DEF Init, SizesAgree
<1>3. InTurn
  BY <1>0, <1>1 DEF Init, InTurn
<1>4. RowsRight
  BY <1>0, <1>1 DEF Init, RowsRight
<1>5. ProductRight
  BY <1>0, <1>1 DEF Init, ProductRight, RowsInPlace
<1>6. QED
  BY <1>0, <1>2, <1>3, <1>4, <1>5, InitTypes DEF Init, PeerInv

LEMMA StepInv == Agreed /\ PeerInv /\ [Next]_vars => PeerInv'
<1>0. SUFFICES ASSUME Agreed, PeerInv, [Next]_vars PROVE PeerInv'
  OBVIOUS
<1>1. TypeOK'
  BY <1>0, StepTypes DEF PeerInv
<1>2. QED
  BY <1>0, <1>1, StepFits, StepSizesAgree, StepInTurn, StepRowsRight, StepProductRight
     DEF PeerInv

LEMMA InvHolds == ASSUME Agreed PROVE Spec => []PeerInv
<1>1. PeerInv /\ [Next]_vars => PeerInv'
  BY StepInv
<1>2. QED
  BY <1>1, InitInv, PTL DEF Spec

\* The state of the job has its types, in every mode and whatever MPI buffers,
\* also when the job is aborted.
THEOREM TypeCorrect == Spec => []TypeOK
  BY InitTypes, StepTypes, PTL DEF Spec

\* The rows masterCalculateOnSlaves() puts in C are where they belong, for every
\* matrix size and number of workers, when a number cannot change in its slot
\* while it is under way.
THEOREM ProductInPlace == ASSUME Agreed PROVE Spec => []RowsInPlace
<1>1. PeerInv => RowsInPlace
  BY DEF PeerInv, ProductRight
<1>2. QED
  BY <1>1, InvHolds, PTL

\* Under the same condition no receive finds its buffer too short: MPI never
\* aborts the job.
THEOREM NeverAborts == ASSUME Agreed PROVE Spec => []MessagesFit
<1>1. PeerInv => MessagesFit
  BY DEF PeerInv, MessagesFit
<1>2. QED
  BY <1>1, InvHolds, PTL

LEMMA WholeWhenValidated == PeerInv => ValidatesAll
<1>1. SUFFICES ASSUME PeerInv, pc \in {"validate", "done"} PROVE \A r \in Rows : C[r] = r
  BY DEF ValidatesAll
<1>2. taken["result"] = Workers
  BY <1>1 DEF PeerInv, ProductRight
<1>3. \A w \in Workers : FirstC(w) = FirstA(w)
  BY DEF FirstC, FirstA
<1>4. QED
  BY <1>1, <1>2, <1>3, BlocksCover DEF PeerInv, ProductRight

\* Under the same condition masterValidateResults() never runs before every row
\* is there, also with fewer rows than workers.
THEOREM ValidationComplete == ASSUME Agreed PROVE Spec => []ValidatesAll
  BY WholeWhenValidated, InvHolds, PTL
----------------------------------------------------------------------------
(* The job implements RowProduct                                           *)

LEMMA InitProduct == Init => Product!Init
  BY DEF Init, Product!Init, Rows, Product!Rows

LEMMA StepProduct == PeerInv /\ [Next]_vars => [Product!Next]_(Product!vars)
<1>0. SUFFICES ASSUME PeerInv, [Next]_vars PROVE [Product!Next]_(Product!vars)
  OBVIOUS
<1>1. ProductRight /\ C \in [Rows -> {Zero, Garbage} \union Rows] /\ Product!Rows = Rows
  BY <1>0 DEF PeerInv, TypeOK, Rows, Product!Rows
<1>2. ASSUME NEW w \in Workers, TakeResult(w) PROVE Product!Fill
  <2> DEFINE S == {r \in Rows : r - FirstC(w) \in 0..(BlockSize(w) - 1)}
  <2>1. /\ \A r \in Rows : C'[r] = IF r \in S THEN r ELSE C[r]
        /\ verdict' = verdict /\ pc = "result"
    BY <1>0, <1>2, Filled DEF TakeResult
  <2>2. verdict = "none"
    BY <1>1, <2>1 DEF ProductRight
  <2>3. C' \in [Rows -> {Zero, Garbage} \union Rows]
    <3>1. TypeOK'
      BY <1>0, StepTypes DEF PeerInv
    <3>2. QED
      BY <3>1 DEF TypeOK
  <2>4. C' = [r \in Rows |-> IF r \in S THEN r ELSE C[r]]
    BY <2>1, <2>3
  <2>5. S \in SUBSET Product!Rows
    BY <1>1
  <2> HIDE DEF S
  <2>6. QED
    BY <1>1, <2>1, <2>2, <2>4, <2>5 DEF Product!Fill
<1>3. CASE Validate
  <2>1. verdict = "none" /\ UNCHANGED C
    BY <1>1, <1>3 DEF Validate, ProductRight
  <2>2. \A r \in Rows : C[r] = r
    BY <1>0, <1>3, WholeWhenValidated DEF Validate, ValidatesAll
  <2>3. verdict' = "No errors."
    BY <1>3, <2>2 DEF Validate
  <2>4. QED
    BY <1>1, <2>1, <2>2, <2>3 DEF Product!Next, Product!Declare
<1>4. CASE BcastB \/ SendSize \/ SendBlock \/ EndPhase \/ PostRecv \/ EndResults
  BY <1>4 DEF BcastB, SendSize, SendBlock, EndPhase, PostRecv, EndResults, Product!vars
<1>5. ASSUME NEW w \in Workers, Worker(w) PROVE UNCHANGED Product!vars
  BY <1>5 DEF Worker, RecvB, RecvSize, RecvBlock, SendResult, Finish, mstVars, Product!vars
<1>6. CASE UNCHANGED vars
  BY <1>6 DEF vars, mstVars, Product!vars
<1>7. QED
  BY <1>0, <1>2, <1>3, <1>4, <1>5, <1>6 DEF Next, Master, Product!Next

\* masterCalculateOnSlaves() and masterValidateResults() do what RowProduct says
\* of C and of what is printed: rows are filled with their own values only, and
\* "No errors." is said once, of a whole product.
THEOREM JobComputesProduct == ASSUME Agreed PROVE Spec => ImplementsProduct
<1>1. PeerInv /\ [Next]_vars => [Product!Next]_(Product!vars)
  BY StepProduct
<1>2. QED
  BY <1>1, InitProduct, InvHolds, PTL DEF Spec, ImplementsProduct, Product!Spec
=============================================================================
