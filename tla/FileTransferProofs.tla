------------------------- MODULE FileTransferProofs -------------------------
(***************************************************************************)
(* Proofs about FileTransfer for every file size, block size, buffer size  *)
(* and set of faults.                                                      *)
(***************************************************************************)
EXTENDS FileTransfer, TLAPS

\* TypeOK needs the order of the positions: a block has a length of 0..BUFFSIZE
\* only while fpos =< size, and a run is written only when something has arrived.
\* A read() that fails is the last one, and is no calm weather.
Order ==
  /\ Conservation
  /\ blk = -1 => /\ ~calm /\ len =< Stack
                 /\ pc["snd"] \notin {"main", "accept", "stray", "open", "read"}
  /\ pc["snd"] \in {"main", "accept", "stray", "open", "read"} /\ err["snd"] = "none" => left = 0
  /\ pc["snd"] \in {"main", "accept", "stray"} => fd["snd"] = "none"
  /\ fd["snd"] # "closed" => fin = "no"

Inv1 == TypeOK /\ Order

BeforeData == {"main", "accept", "stray", "open"}

\* The sender's count lags behind the stream by what send() has handed over of
\* the block it has not returned from, and a short block was read at the end.
SenderCount ==
  /\ pc["snd"] \in BeforeData \union {"read"} =>
       total["snd"] = sent /\ said["snd"] # "done"
  /\ pc["snd"] = "send" =>
       /\ total["snd"] + len = sent + left /\ said["snd"] # "done"
       /\ blk < BUFFSIZE /\ blk # -1 => fpos = size
  /\ said["snd"] = "done" =>
       /\ pc["snd"] \in {"close", "done", "killed"}
       /\ total["snd"] = sent /\ (blk # -1 => fpos = size)
       /\ left = 0 \/ err["snd"] # "none"

\* Unless the disk fails, what is written is the stream from its first byte.
FileIsStream ==
  ~full =>
    /\ file = Old \/ \A i \in 1..Len(file) : file[i] = i
    /\ pc["rcv"] = "recv" \/ said["rcv"] = "done" => Len(file) = recvd /\ total["rcv"] = recvd

\* Until the receiver opens the destination nothing has been received; while it
\* receives, the destination holds bytes received so far, in order.
ReceiverFile ==
  /\ pc["rcv"] \in BeforeData =>
       /\ recvd = 0 /\ total["rcv"] = 0 /\ said["rcv"] # "done"
       /\ file = Old \/ file = <<>>
  /\ said["rcv"] = "done" => pc["rcv"] \in {"close", "done", "killed"}
  /\ pc["rcv"] = "recv" => file # Old
  /\ file = Old \/ \A i \in 1..Len(file) : file[i] \in 1..recvd
  /\ DestinationInOrder
  /\ FileIsStream

\* What the program writes, and what was there, are sequences of bytes.
LEMMA FileTypes ==
  /\ Old \in Seq(Nat) /\ <<>> \in Seq(Nat)
  /\ \A n \in Nat, k \in Nat : [i \in 1..n |-> k + i] \in Seq(Nat)
<1>1. Old \in Seq(Nat) /\ <<>> \in Seq(Nat)
  BY DEF Old
<1>2. ASSUME NEW n \in Nat, NEW k \in Nat PROVE [i \in 1..n |-> k + i] \in Seq(Nat)
  OBVIOUS
<1>3. QED
  BY <1>1, <1>2

LEMMA InitInv1 == Init => Inv1
<1> SUFFICES ASSUME Init PROVE Inv1
  OBVIOUS
<1>1. file \in Seq(Nat)
  BY FileTypes DEF Init
<1>2. size \in Nat
  BY ConstantsAssumption DEF Init
<1>3. ControlTypes
  BY DEF Init, ControlTypes, Role
<1>4. DataTypes
  BY <1>2, ConstantsAssumption DEF Init, DataTypes, Role
<1>5. ReportTypes
  BY <1>1 DEF Init, ReportTypes, Role
<1>6. Order
  BY <1>2, ConstantsAssumption DEF Init, Order, Conservation, Reach, Role
<1>7. QED
  BY <1>3, <1>4, <1>5, <1>6 DEF Inv1, TypeOK

USE ConstantsAssumption DEF mainVars, sndVars, strVars, netVars, Goto, Say, Role, Peer, Reach

LEMMA StepInv1 == Inv1 /\ [Next]_vars => Inv1'
<1> SUFFICES ASSUME Inv1, [Next]_vars PROVE Inv1'
  OBVIOUS
<1> USE DEF Inv1, TypeOK, ControlTypes, DataTypes, ReportTypes, Order, Conservation
<1>1. ASSUME NEW p \in Role, Listen(p) PROVE Inv1'
  BY <1>1 DEF Listen, createListener, bindAddr, bindSocket
<1>2. ASSUME NEW p \in Role, Connect(p) PROVE Inv1'
  <2>1. ControlTypes'
    <3>1. fd' \in [Role -> {"none", "bad", "open", "closed"}]
      BY <1>2 DEF Connect
    <3>2. QED
      BY <3>1, <1>2 DEF Connect
  <2>2. DataTypes'
    BY <1>2 DEF Connect
  <2>3. ReportTypes'
    BY <1>2 DEF Connect
  <2>4. Order'
    BY <1>2 DEF Connect
  <2>5. QED
    BY <2>1, <2>2, <2>3, <2>4
<1>3. ASSUME NEW p \in Role, Accept(p) PROVE Inv1'
  BY <1>3 DEF Accept
<1>4. CASE OpenSource
  BY <1>4 DEF OpenSource
<1>5. CASE ReadBlock
  <2>1. CASE blk' = BlockLen /\ len' = BlockLen /\ fpos' = fpos + BlockLen
    BY <1>5, <2>1 DEF ReadBlock, BlockLen, Least
  <2>2. CASE May("read") /\ blk' = -1 /\ len' \in 1..Stack /\ fpos' = fpos
    <3>1. ~calm
      BY <2>2 DEF May
    <3>2. /\ pc["snd"] = "read" /\ pc' = [pc EXCEPT !["snd"] = "send"] /\ left' = len'
          /\ UNCHANGED <<mainVars, there, fd, netVars, strVars, total, said, file>>
      BY <1>5 DEF ReadBlock
    <3>3. blk' = -1 /\ len' \in 1..Stack /\ fpos' = fpos
      BY <2>2
    <3>4. TypeOK'
      BY <3>2, <3>3
    <3>5. blk # -1 /\ sent =< fpos /\ (err["snd"] = "none" => sent = fpos)
      BY <3>2
    <3>6. Reach' = fpos + len' /\ len' \in Nat /\ fpos \in Nat /\ sent \in Nat
      BY <3>3
    <3>7. sent' =< Reach' /\ (err'["snd"] = "none" => Reach' = sent' + left')
      BY <3>2, <3>5, <3>6
    <3>8. Conservation'
      <4>1. /\ recvd' =< arrived' /\ arrived' =< sent' /\ fpos' =< size'
            /\ sent' - recvd' =< SockBuf /\ (fin' = "arrived" => arrived' = sent')
        BY <3>2, <3>3
      <4>2. QED
        BY <3>7, <4>1
    <3>9. pc'["snd"] = "send" /\ fd' = fd /\ fin' = fin /\ calm' = calm /\ len' =< Stack
      BY <3>2, <3>3
    <3>10. Order'
      <4>1. fd'["snd"] # "closed" => fin' = "no"
        BY <3>9
      <4>2. QED
        BY <3>1, <3>8, <3>9, <4>1, Zenon
    <3>11. QED
      BY <3>4, <3>10
  <2>3. QED
    BY <1>5, <2>1, <2>2 DEF ReadBlock
<1>6. CASE SendPart
  BY <1>6 DEF SendPart, Room
<1>7. CASE SendRest
  BY <1>7 DEF SendRest, AfterSend, Room
<1>8. CASE SendShort
  BY <1>8 DEF SendShort, AfterSend
<1>9. CASE SendFails
  BY <1>9 DEF SendFails
<1>10. CASE SendKilled
  BY <1>10 DEF SendKilled
<1>11. CASE OpenDest
  <2>1. ControlTypes'
    <3>1. there' \in [Role -> BOOLEAN]
      BY <1>11 DEF OpenDest
    <3>2. \E l \in {"recv", "close"} : pc' = [pc EXCEPT !["rcv"] = l]
      BY <1>11 DEF OpenDest
    <3>3. UNCHANGED <<fd, conn, link, err, fin>>
      BY <1>11 DEF OpenDest
    <3>4. QED
      BY <3>1, <3>2, <3>3
  <2>2. DataTypes'
    BY <1>11 DEF OpenDest
  <2>3. file' \in Seq(Nat)
    BY <1>11, FileTypes DEF OpenDest
  <2>4. ReportTypes'
    BY <1>11, <2>3 DEF OpenDest
  <2>5. Order'
    <3>1. /\ pc'["snd"] = pc["snd"]
          /\ UNCHANGED <<fd, err, fin, conn, sent, arrived, recvd, fpos, left, blk, len, size, calm>>
      BY <1>11 DEF OpenDest
    <3>2. QED
      BY <3>1
  <2>6. QED
    BY <2>1, <2>2, <2>4, <2>5
<1>12. CASE RecvData
  <2>1. RecvLen \in Nat /\ recvd + RecvLen =< arrived
    BY <1>12 DEF RecvData, RecvLen, Least
  <2>2. PICK n \in Nat : file' = file \o Run(n)
    <3>1. CASE file' = file \o Run(RecvLen)
      BY <3>1, <2>1
    <3>2. CASE \E k \in 0..(RecvLen - 1) : file' = file \o Run(k)
      <4>1. PICK k \in 0..(RecvLen - 1) : file' = file \o Run(k)
        BY <3>2
      <4>2. k \in Nat
        BY <2>1
      <4>3. QED
        BY <4>1, <4>2
    <3>3. Write(RecvLen)
      BY <1>12 DEF RecvData
    <3>4. \/ file' = file \o Run(RecvLen)
          \/ \E k \in 0..(RecvLen - 1) : file' = file \o Run(k)
      BY <3>3, Zenon DEF Write
    <3>5. QED
      BY <3>1, <3>2, <3>4
  <2>3. file' \in Seq(Nat)
    BY <2>2, FileTypes DEF Run
  <2>4. QED
    BY <1>12, <2>1, <2>3 DEF RecvData, AfterRecv
<1>13. CASE RecvEnd
  BY <1>13 DEF RecvEnd
<1>14. CASE RecvFails
  BY <1>14 DEF RecvFails
<1>15. ASSUME NEW p \in Role, Close(p) PROVE Inv1'
  BY <1>15 DEF Close, CloseSocket
<1>16. ASSUME NEW p \in Role, Kill(p) PROVE Inv1'
  BY <1>16 DEF Kill, CloseSocket
<1>17. CASE Deliver
  BY <1>17 DEF Deliver
<1>18. CASE DeliverFin
  BY <1>18 DEF DeliverFin
<1>19. ASSUME NEW p \in Role, NEW e \in {"reset", "timeout"}, SockError(p, e) PROVE Inv1'
  BY <1>19 DEF SockError
<1>20. CASE Break
  BY <1>20 DEF Break
<1>21. CASE UNCHANGED vars
  BY <1>21 DEF vars
<1>22. QED
  BY <1>1, <1>2, <1>3, <1>4, <1>5, <1>6, <1>7, <1>8, <1>9, <1>10, <1>11, <1>12,
     <1>13, <1>14, <1>15, <1>16, <1>17, <1>18, <1>19, <1>20, <1>21
     DEF Next, Main, Sender, Receiver, Network, Reset, GiveUp, Rejected

----------------------------------------------------------------------------
\* Only the sender's own actions touch its count, and an error never goes away.
LEMMA StepSenderCount == Inv1 /\ SenderCount /\ [Next]_vars => SenderCount'
<1>0. SUFFICES ASSUME Inv1, SenderCount, [Next]_vars PROVE SenderCount'
  OBVIOUS
<1> USE DEF Inv1, TypeOK, ControlTypes, DataTypes, ReportTypes, Order, Conservation,
            SenderCount, BeforeData
<1>1. ASSUME NEW p \in Role, Listen(p) PROVE SenderCount'
  BY <1>0, <1>1 DEF Listen, createListener, bindAddr, bindSocket
<1>2. ASSUME NEW p \in Role, Connect(p) PROVE SenderCount'
  BY <1>0, <1>2 DEF Connect
<1>3. ASSUME NEW p \in Role, Accept(p) PROVE SenderCount'
  BY <1>0, <1>3 DEF Accept
<1>4. CASE OpenSource
  BY <1>0, <1>4 DEF OpenSource
<1>5. CASE ReadBlock
  BY <1>0, <1>5 DEF ReadBlock, BlockLen, Least
<1>6. CASE SendPart
  <2>1. /\ pc["snd"] = "send" /\ Room \in Int
        /\ sent' = sent + Room /\ left' = left - Room
        /\ UNCHANGED <<pc, said, total, fpos, size, blk, len>>
    BY <1>0, <1>6 DEF SendPart, Room
  <2>2. /\ total["snd"] \in Int /\ len \in Int /\ left \in Int /\ sent \in Int
        /\ total["snd"] + len = sent + left
    BY <1>0, <2>1
  <2>3. total["snd"] + len = sent' + left'
    BY <2>1, <2>2
  <2>4. QED
    BY <1>0, <2>1, <2>3
<1>7. CASE SendRest
  <2>1. /\ pc["snd"] = "send" /\ err["snd"] = "none" /\ sent' = sent + left /\ left' = 0
        /\ total'["snd"] = total["snd"] + len
        /\ UNCHANGED <<fpos, size, blk, err>>
    BY <1>0, <1>7 DEF SendRest
  <2>2. \/ pc'["snd"] = "read" /\ said' = said
        \/ blk < BUFFSIZE /\ pc'["snd"] = "close"
    BY <1>0, <1>7 DEF SendRest, AfterSend
  <2>3. /\ total["snd"] \in Int /\ len \in Int /\ left \in Int /\ sent \in Int
        /\ total["snd"] + len = sent + left /\ said["snd"] # "done"
        /\ blk < BUFFSIZE /\ blk # -1 => fpos = size
    BY <1>0, <2>1
  <2>4. total'["snd"] = sent'
    BY <2>1, <2>3
  <2>5. CASE pc'["snd"] = "read" /\ said' = said
    BY <2>3, <2>4, <2>5
  <2>6. CASE blk < BUFFSIZE /\ pc'["snd"] = "close"
    BY <2>1, <2>3, <2>4, <2>6
  <2>7. QED
    BY <2>2, <2>5, <2>6
<1>8. CASE SendShort
  <2>1. /\ pc["snd"] = "send" /\ err["snd"] # "none" /\ total'["snd"] = total["snd"] + len - left
        /\ UNCHANGED <<fpos, sent, left, size, blk, len, err>>
    BY <1>0, <1>8 DEF SendShort
  <2>2. \/ pc'["snd"] = "read" /\ said' = said
        \/ blk < BUFFSIZE /\ pc'["snd"] = "close"
    BY <1>0, <1>8 DEF SendShort, AfterSend
  <2>3. total["snd"] + len - left = sent /\ said["snd"] # "done"
    <3>1. total["snd"] + len = sent + left /\ said["snd"] # "done"
      BY <1>0, <2>1
    <3>2. total["snd"] \in Int /\ len \in Int /\ left \in Int /\ sent \in Int
      BY <1>0
    <3>3. QED
      BY <3>1, <3>2
  <2>4. CASE pc'["snd"] = "read" /\ said' = said
    BY <2>1, <2>3, <2>4
  <2>5. CASE blk < BUFFSIZE /\ pc'["snd"] = "close"
    BY <1>0, <2>1, <2>3, <2>5
  <2>6. QED
    BY <2>2, <2>4, <2>5
<1>9. CASE SendFails
  BY <1>0, <1>9 DEF SendFails
<1>10. CASE SendKilled
  BY <1>0, <1>10 DEF SendKilled
<1>11. CASE OpenDest
  <2>1. /\ pc'["snd"] = pc["snd"] /\ said'["snd"] = said["snd"]
        /\ UNCHANGED <<total, sent, fpos, size, blk, len, left, err>>
    BY <1>0, <1>11 DEF OpenDest
  <2>2. QED
    BY <1>0, <2>1
<1>12. CASE RecvData
  <2>1. /\ pc'["snd"] = pc["snd"] /\ said'["snd"] = said["snd"]
        /\ total'["snd"] = total["snd"]
        /\ UNCHANGED <<sent, fpos, size, blk, len, left, err>>
    BY <1>0, <1>12 DEF RecvData, AfterRecv
  <2>2. QED
    BY <1>0, <2>1
<1>13. CASE RecvEnd
  BY <1>0, <1>13 DEF RecvEnd
<1>14. CASE RecvFails
  BY <1>0, <1>14 DEF RecvFails
<1>15. ASSUME NEW p \in Role, Close(p) PROVE SenderCount'
  BY <1>0, <1>15 DEF Close, CloseSocket
<1>16. ASSUME NEW p \in Role, Kill(p) PROVE SenderCount'
  BY <1>0, <1>16 DEF Kill, CloseSocket
<1>17. CASE Deliver
  BY <1>0, <1>17 DEF Deliver
<1>18. CASE DeliverFin
  BY <1>0, <1>18 DEF DeliverFin
<1>19. ASSUME NEW p \in Role, NEW e \in {"reset", "timeout"}, SockError(p, e)
       PROVE SenderCount'
  BY <1>0, <1>19 DEF SockError
<1>20. CASE Break
  BY <1>0, <1>20 DEF Break
<1>21. CASE UNCHANGED vars
  BY <1>0, <1>21 DEF vars
<1>22. QED
  BY <1>0, <1>1, <1>2, <1>3, <1>4, <1>5, <1>6, <1>7, <1>8, <1>9, <1>10, <1>11, <1>12,
     <1>13, <1>14, <1>15, <1>16, <1>17, <1>18, <1>19, <1>20, <1>21
     DEF Next, Main, Sender, Receiver, Network, Reset, GiveUp, Rejected

----------------------------------------------------------------------------
\* An action that leaves the receiver's program, counters and file alone.
LEMMA ReceiverIdle ==
  /\ ReceiverFile /\ full' = full
  /\ pc'["rcv"] = pc["rcv"] /\ said'["rcv"] = said["rcv"] /\ total'["rcv"] = total["rcv"]
  /\ recvd' = recvd /\ file' = file
  => ReceiverFile'
  BY DEF ReceiverFile, DestinationInOrder, FileIsStream, BeforeData

\* An action after which the receiver is at the label l and has written nothing.
LEMMA ReceiverLeaves ==
  ASSUME NEW l \in {"accept", "stray", "open", "close", "done", "exit", "killed"},
         ReceiverFile,
         pc'["rcv"] = l, said'["rcv"] = said["rcv"] \/ said'["rcv"] = "failed",
         l \in BeforeData => pc["rcv"] \in BeforeData /\ total'["rcv"] = total["rcv"],
         said'["rcv"] = "done" => total'["rcv"] = total["rcv"] /\ l \in {"done", "killed"},
         recvd' = recvd, file' = file, full' = full
  PROVE  ReceiverFile'
  BY DEF ReceiverFile, DestinationInOrder, FileIsStream, BeforeData

\* Where the bytes are after n bytes of the stream from position r are appended.
LEMMA AppendParts ==
  ASSUME NEW f \in Seq(Nat), NEW r \in Nat, NEW n \in Nat,
         NEW g, g = f \o [i \in 1..n |-> r + i]
  PROVE  /\ g \in Seq(Nat) /\ Len(g) = Len(f) + n
         /\ \A i \in 1..Len(f) : g[i] = f[i]
         /\ \A i \in (Len(f) + 1)..Len(g) : g[i] = r + (i - Len(f))
<1> DEFINE run == [i \in 1..n |-> r + i]
<1>1. run \in Seq(Nat) /\ Len(run) = n
  OBVIOUS
<1>2. g \in Seq(Nat) /\ Len(g) = Len(f) + n
  BY <1>1
<1>3. QED
  BY <1>1, <1>2

\* The destination stays in order, for what was there came from before r.
LEMMA AppendRun ==
  ASSUME NEW f \in Seq(Nat), NEW r \in Nat, NEW n \in Nat,
         \A i \in 1..Len(f) : f[i] \in 1..r,
         \A i, j \in 1..Len(f) : i < j => f[i] < f[j],
         NEW g, g = f \o [i \in 1..n |-> r + i]
  PROVE  /\ g \in Seq(Nat)
         /\ \A i \in 1..Len(g) : g[i] \in 1..(r + n)
         /\ \A i, j \in 1..Len(g) : i < j => g[i] < g[j]
<1>1. /\ g \in Seq(Nat) /\ Len(g) = Len(f) + n
      /\ \A i \in 1..Len(f) : g[i] = f[i]
      /\ \A i \in (Len(f) + 1)..Len(g) : g[i] = r + (i - Len(f))
  BY AppendParts
<1>2. ASSUME NEW i \in 1..Len(g) PROVE g[i] \in 1..(r + n)
  <2>1. CASE i \in 1..Len(f)
    BY <1>1, <2>1
  <2>2. CASE i \in (Len(f) + 1)..Len(g)
    BY <1>1, <2>2
  <2>3. QED
    BY <1>1, <2>1, <2>2
<1>3. ASSUME NEW i \in 1..Len(g), NEW j \in 1..Len(g), i < j PROVE g[i] < g[j]
  <2>1. CASE j \in 1..Len(f)
    BY <1>1, <1>3, <2>1
  <2>2. CASE i \in 1..Len(f) /\ j \in (Len(f) + 1)..Len(g)
    BY <1>1, <2>2
  <2>3. CASE i \in (Len(f) + 1)..Len(g)
    BY <1>1, <1>3, <2>3
  <2>4. QED
    BY <1>1, <1>3, <2>1, <2>2, <2>3
<1>4. QED
  BY <1>1, <1>2, <1>3

LEMMA StepReceiverFile == Inv1 /\ ReceiverFile /\ [Next]_vars => ReceiverFile'
<1>0. SUFFICES ASSUME Inv1, ReceiverFile, [Next]_vars PROVE ReceiverFile'
  OBVIOUS
<1> USE DEF Inv1, TypeOK, ControlTypes, DataTypes, ReportTypes
<1>1. ASSUME NEW p \in Role, Listen(p) PROVE ReceiverFile'
  <2>1. CASE p = "rcv"
    <3>1. PICK l \in {"accept", "stray", "exit"} : pc'["rcv"] = l
      BY <1>0, <1>1, <2>1 DEF Listen, createListener, bindAddr, bindSocket
    <3>2. /\ pc["rcv"] \in BeforeData /\ said'["rcv"] = said["rcv"]
          /\ total'["rcv"] = total["rcv"] /\ recvd' = recvd /\ file' = file /\ full' = full
      BY <1>0, <1>1, <2>1 DEF Listen, createListener, bindAddr, bindSocket, BeforeData
    <3>3. said["rcv"] # "done"
      BY <1>0, <3>2 DEF ReceiverFile, BeforeData
    <3>4. QED
      BY <1>0, <3>1, <3>2, <3>3, ReceiverLeaves
  <2>2. CASE p = "snd"
    BY <1>0, <1>1, <2>2, ReceiverIdle DEF Listen, createListener, bindAddr, bindSocket
  <2>3. QED
    BY <2>1, <2>2
<1>2. ASSUME NEW p \in Role, Connect(p) PROVE ReceiverFile'
  <2>1. CASE p = "rcv"
    BY <1>0, <1>2, <2>1, ReceiverLeaves DEF Connect, BeforeData, ReceiverFile
  <2>2. CASE p = "snd"
    BY <1>0, <1>2, <2>2, ReceiverIdle DEF Connect
  <2>3. QED
    BY <2>1, <2>2
<1>3. ASSUME NEW p \in Role, Accept(p) PROVE ReceiverFile'
  <2>1. CASE p = "rcv"
    <3>1. PICK l \in {"open", "exit"} : pc'["rcv"] = l
      BY <1>0, <1>3, <2>1 DEF Accept
    <3>2. /\ pc["rcv"] \in BeforeData /\ said'["rcv"] = said["rcv"]
          /\ total'["rcv"] = total["rcv"] /\ recvd' = recvd /\ file' = file /\ full' = full
      BY <1>0, <1>3, <2>1 DEF Accept, BeforeData
    <3>3. said["rcv"] # "done"
      BY <1>0, <3>2 DEF ReceiverFile, BeforeData
    <3>4. QED
      BY <1>0, <3>1, <3>2, <3>3, ReceiverLeaves
  <2>2. CASE p = "snd"
    BY <1>0, <1>3, <2>2, ReceiverIdle DEF Accept
  <2>3. QED
    BY <2>1, <2>2
<1>4. CASE Sender
  <2>1. /\ pc'["rcv"] = pc["rcv"] /\ said'["rcv"] = said["rcv"] /\ total'["rcv"] = total["rcv"]
        /\ recvd' = recvd /\ file' = file /\ full' = full
    BY <1>0, <1>4 DEF Sender, OpenSource, ReadBlock, SendPart, SendRest, SendShort, SendFails,
                      SendKilled, AfterSend
  <2>2. QED
    BY <1>0, <2>1, ReceiverIdle
<1>5. CASE OpenDest
  <2>1. CASE pc'["rcv"] = "recv" /\ file' = <<>> /\ said'["rcv"] = said["rcv"]
    BY <1>0, <1>5, <2>1 DEF OpenDest, ReceiverFile, BeforeData, Old, DestinationInOrder,
                            FileIsStream
  <2>2. CASE pc'["rcv"] = "close" /\ said'["rcv"] = "failed" /\ file' = file
    BY <1>0, <1>5, <2>2, ReceiverLeaves DEF OpenDest, BeforeData
  <2>3. QED
    BY <1>0, <1>5, <2>1, <2>2 DEF OpenDest
<1>6. CASE RecvData
  <2>1. /\ pc["rcv"] = "recv" /\ recvd' = recvd + RecvLen
        /\ total'["rcv"] = total["rcv"] + RecvLen
        /\ Write(RecvLen)
    BY <1>0, <1>6 DEF RecvData
  <2>2. (pc'["rcv"] = "recv" /\ said'["rcv"] = said["rcv"]) \/ pc'["rcv"] = "close"
    BY <1>0, <1>6 DEF RecvData, AfterRecv
  <2>3. RecvLen \in Nat
    BY <1>0, <1>6 DEF RecvData, RecvLen, Least
  <2>4. PICK n \in 0..RecvLen : file' = file \o Run(n) /\ (n = RecvLen \/ full)
    <3>1. CASE file' = file \o Run(RecvLen)
      BY <2>3, <3>1
    <3>2. CASE full /\ \E k \in 0..(RecvLen - 1) : file' = file \o Run(k)
      <4>1. PICK k \in 0..(RecvLen - 1) : file' = file \o Run(k)
        BY <3>2
      <4>2. k \in 0..RecvLen
        BY <2>3
      <4>3. QED
        BY <3>2, <4>1, <4>2
    <3>3. QED
      BY <2>1, <3>1, <3>2, Zenon DEF Write
  <2>5. /\ file \in Seq(Nat) /\ recvd \in Nat /\ n \in Nat
        /\ \A i \in 1..Len(file) : file[i] \in 1..recvd
        /\ \A i, j \in 1..Len(file) : i < j => file[i] < file[j]
    BY <1>0, <2>1, <2>3 DEF ReceiverFile, DestinationInOrder
  <2>6. /\ Len(file') \in Nat
        /\ \A i \in 1..Len(file') : file'[i] \in 1..(recvd + n)
        /\ \A i, j \in 1..Len(file') : i < j => file'[i] < file'[j]
    <3>1. file' = file \o [i \in 1..n |-> recvd + i]
      BY <2>4 DEF Run
    <3>2. file' \in Seq(Nat)
      BY <2>5, <3>1, AppendRun
    <3>3. Len(file') \in Nat
      BY <3>2
    <3>4. \A i \in 1..Len(file') : file'[i] \in 1..(recvd + n)
      BY <2>5, <3>1, AppendRun
    <3>5. \A i, j \in 1..Len(file') : i < j => file'[i] < file'[j]
      BY <2>5, <3>1, AppendRun
    <3>6. QED
      BY <3>3, <3>4, <3>5
  <2>7. \A i \in 1..Len(file') : file'[i] \in 1..(recvd + RecvLen)
    BY <2>3, <2>5, <2>6
  <2>8. file' # Old
    <3>1. SUFFICES ASSUME file' = Old PROVE FALSE
      OBVIOUS
    <3>2. Len(file') = 1 /\ file'[1] = 0
      BY <3>1 DEF Old
    <3>3. 0 \in 1..(recvd + n)
      BY <2>6, <3>2
    <3>4. QED
      BY <2>5, <3>3
  <2>9. DestinationInOrder'
    BY <2>6 DEF DestinationInOrder
  <2>10. ASSUME ~full
         PROVE  /\ \A i \in 1..Len(file') : file'[i] = i
                /\ Len(file') = recvd' /\ total'["rcv"] = recvd'
    <3>1. /\ \A i \in 1..Len(file) : file[i] = i
          /\ Len(file) = recvd /\ total["rcv"] = recvd /\ n = RecvLen
      BY <1>0, <2>1, <2>4, <2>10 DEF ReceiverFile, FileIsStream
    <3>2. /\ file' \in Seq(Nat) /\ Len(file') = Len(file) + n
          /\ \A i \in 1..Len(file) : file'[i] = file[i]
          /\ \A i \in (Len(file) + 1)..Len(file') : file'[i] = recvd + (i - Len(file))
      <4>1. file' = file \o [i \in 1..n |-> recvd + i]
        BY <2>4 DEF Run
      <4>2. file \in Seq(Nat) /\ recvd \in Nat /\ n \in Nat
        BY <2>5
      <4>3. QED
        BY <4>1, <4>2, AppendParts
    <3>3. ASSUME NEW i \in 1..Len(file') PROVE file'[i] = i
      <4>1. CASE i \in 1..Len(file)
        BY <3>1, <3>2, <4>1
      <4>2. CASE i \in (Len(file) + 1)..Len(file')
        BY <2>5, <3>1, <3>2, <4>2
      <4>3. QED
        BY <2>5, <3>2, <4>1, <4>2
    <3>4. Len(file') = recvd' /\ total'["rcv"] = recvd'
      BY <2>1, <3>1, <3>2
    <3>5. QED
      BY <3>3, <3>4
  <2>11. FileIsStream'
    BY <1>6, <2>10 DEF RecvData, FileIsStream
  <2>12. QED
    BY <1>0, <2>1, <2>2, <2>7, <2>8, <2>9, <2>11 DEF ReceiverFile, BeforeData
<1>7. CASE RecvEnd
  BY <1>0, <1>7, ReceiverLeaves DEF RecvEnd, ReceiverFile, BeforeData
<1>8. CASE RecvFails
  BY <1>0, <1>8, ReceiverLeaves DEF RecvFails, BeforeData
<1>9. ASSUME NEW p \in Role, Close(p) PROVE ReceiverFile'
  <2>1. CASE p = "rcv"
    BY <1>0, <1>9, <2>1, ReceiverLeaves DEF Close, BeforeData
  <2>2. CASE p = "snd"
    BY <1>0, <1>9, <2>2, ReceiverIdle DEF Close
  <2>3. QED
    BY <2>1, <2>2
<1>10. ASSUME NEW p \in Role, Kill(p) PROVE ReceiverFile'
  <2>1. CASE p = "rcv"
    BY <1>0, <1>10, <2>1, ReceiverLeaves DEF Kill, BeforeData
  <2>2. CASE p = "snd"
    BY <1>0, <1>10, <2>2, ReceiverIdle DEF Kill
  <2>3. QED
    BY <2>1, <2>2
<1>11. CASE Network \/ Break \/ \E p \in Role : Rejected(p)
  BY <1>0, <1>11, ReceiverIdle DEF Network, Deliver, DeliverFin, Reset, GiveUp, Break,
                                   Rejected, SockError
<1>12. CASE UNCHANGED vars
  BY <1>0, <1>12, ReceiverIdle DEF vars
<1>13. QED
  BY <1>0, <1>1, <1>2, <1>3, <1>4, <1>5, <1>6, <1>7, <1>8, <1>9, <1>10, <1>11, <1>12
     DEF Next, Main, Receiver

----------------------------------------------------------------------------
IInv == Inv1 /\ SenderCount /\ ReceiverFile

LEMMA InitIInv == Init => IInv
<1> SUFFICES ASSUME Init PROVE IInv
  OBVIOUS
<1>1. Inv1
  BY InitInv1
<1>2. SenderCount
  BY DEF Init, SenderCount, BeforeData
<1>3. ReceiverFile
  BY DEF Init, ReceiverFile, BeforeData, DestinationInOrder, FileIsStream, Old
<1>4. QED
  BY <1>1, <1>2, <1>3 DEF IInv

LEMMA Invariance == Spec => []IInv
<1>1. IInv /\ [Next]_vars => IInv'
  BY StepInv1, StepSenderCount, StepReceiverFile DEF IInv
<1>2. QED
  BY InitIInv, <1>1, PTL DEF Spec

\* Every variable keeps its type; in particular the bookkeeping of sendFile() never
\* has more than a block, or what a failed read() makes send() find, under way.
THEOREM TypeCorrect == Spec => []TypeOK
<1>1. IInv => TypeOK
  BY DEF IInv, Inv1
<1>2. QED
  BY <1>1, Invariance, PTL

\* Whatever fails, no byte is received that was not sent, and the connection never
\* holds more than its buffers.  Nothing is sent that was not read, except that
\* after a failed read() the one send() that follows takes bytes from memory.
THEOREM PositionsOrdered == Spec => []Conservation
<1>1. IInv => Conservation
  BY DEF IInv, Inv1, Order
<1>2. QED
  BY <1>1, Invariance, PTL

\* "was sent (%d bytes)" of sendFile() names what the kernel accepted.  Unless
\* read() failed the file was read to its end, and unless the connection broke
\* under the last send() the kernel has all of it; a failed read() is reported as
\* "was sent" too, and then it is true of the number only.
THEOREM SentReports == Spec => []SentReportHonest
<1>1. IInv => SentReportHonest
  BY DEF IInv, Inv1, Order, Conservation, SenderCount, SentReportHonest, TypeOK, DataTypes
<1>2. QED
  BY <1>1, Invariance, PTL

\* recieveFile() never writes a byte twice or out of order, even on a full disk.
THEOREM DestinationOrdered == Spec => []DestinationInOrder
<1>1. IInv => DestinationInOrder
  BY DEF IInv, ReceiverFile
<1>2. QED
  BY <1>1, Invariance, PTL

\* Unless the disk fails the destination is a prefix of the source, however the
\* stream is cut and wherever either program stops, or if read() fails a prefix of
\* what was read and of a bounded number of bytes from memory; its length is the
\* number recieveFile() reports.
THEOREM DestinationPrefix == Spec => []DestinationIsPrefix
<1>1. IInv => DestinationIsPrefix
  <2>1. SUFFICES ASSUME IInv, ~full PROVE DestinationIsPrefix
    BY DEF DestinationIsPrefix
  <2>2. recvd \in Nat /\ recvd =< fpos + (IF blk = -1 THEN Stack ELSE 0)
    BY <2>1 DEF IInv, Inv1, Order, Conservation, Reach, TypeOK, DataTypes
  <2>3. ASSUME file # Old, NEW i \in 1..Len(file)
        PROVE  file[i] = i /\ i =< fpos + (IF blk = -1 THEN Stack ELSE 0)
    <3>1. file[i] = i /\ file[i] \in 1..recvd
      BY <2>1, <2>3 DEF IInv, ReceiverFile, FileIsStream
    <3>2. fpos + (IF blk = -1 THEN Stack ELSE 0) \in Nat
      BY <2>1 DEF IInv, Inv1, TypeOK, DataTypes
    <3>3. QED
      BY <2>2, <3>1, <3>2
  <2>4. QED
    BY <2>1, <2>3 DEF DestinationIsPrefix, IInv, ReceiverFile, FileIsStream
<1>2. QED
  BY <1>1, Invariance, PTL

----------------------------------------------------------------------------
(* FileTransfer implements FileCopy, whatever the environment does.  To    *)
(* the invariant it takes that the receiver has given no verdict while it  *)
(* can still receive, and that in calm weather data arrives and is         *)
(* received up to the end of a block or of the file.                       *)

EndsBlock(n) == n = size \/ \E k \in Nat : n = k * BUFFSIZE

\* The receiver's kernel and program stand at the end of a block when all is calm.
Blocks == calm => ~full /\ EndsBlock(arrived) /\ EndsBlock(recvd)

Verdict ==
  /\ pc["rcv"] \in {"main", "accept", "stray"} => said["rcv"] = "nothing"
  /\ pc["rcv"] \in {"open", "recv"} /\ fd["rcv"] = "open" => said["rcv"] = "nothing"

CopyInv == IInv /\ Blocks /\ Verdict

\* The end of a block as the code has it, by the remainder.
LEMMA Remainder ==
  ASSUME NEW a \in Nat, a % BUFFSIZE = 0
  PROVE  \E k \in Nat : a = k * BUFFSIZE
  BY SMTT(30)

\* The next end of a block.
LEMMA NextBlock == \A j \in Nat : (j + 1) * BUFFSIZE = j * BUFFSIZE + BUFFSIZE
  OBVIOUS

\* There is no end of a block less than a block after the end of a block.
LEMMA BlocksApart ==
  ASSUME NEW j \in Nat, NEW k \in Nat, j * BUFFSIZE < k * BUFFSIZE
  PROVE  j * BUFFSIZE + BUFFSIZE =< k * BUFFSIZE
<1>1. j < k
  <2>1. SUFFICES ASSUME k =< j PROVE k * BUFFSIZE =< j * BUFFSIZE
    OBVIOUS
  <2>2. PICK d \in Nat : j = k + d
    <3>1. j - k \in Nat /\ j = k + (j - k)
      BY <2>1
    <3>2. QED
      BY <3>1
  <2>3. j * BUFFSIZE = k * BUFFSIZE + d * BUFFSIZE /\ d * BUFFSIZE \in Nat
    BY <2>2
  <2>4. QED
    BY <2>3
<1>2. PICK d \in Nat : k = j + 1 + d
  <2>1. k - j - 1 \in Nat /\ k = j + 1 + (k - j - 1)
    BY <1>1
  <2>2. QED
    BY <2>1
<1>3. k * BUFFSIZE = j * BUFFSIZE + BUFFSIZE + d * BUFFSIZE /\ d * BUFFSIZE \in Nat
  BY <1>2
<1>4. QED
  BY <1>3

\* When all is calm a recv() takes a whole block, or the last bytes of the file.
LEMMA CalmRecv ==
  ASSUME Inv1, Blocks, calm, RecvData
  PROVE  /\ EndsBlock(recvd + RecvLen)
         /\ RecvLen < BUFFSIZE => recvd + RecvLen = size
<1> USE DEF Inv1, TypeOK, DataTypes, Order, Conservation
<1>1. /\ arrived > recvd /\ arrived \in Nat /\ recvd \in Nat /\ arrived =< size /\ size \in Nat
      /\ RecvLen = Least(BUFFSIZE, arrived - recvd)
  BY DEF RecvData, RecvLen, Reach
<1>2. PICK j \in Nat : recvd = j * BUFFSIZE
  BY <1>1 DEF Blocks, EndsBlock
<1>3. CASE arrived - recvd =< BUFFSIZE
  <2>1. RecvLen = arrived - recvd
    BY <1>1, <1>3 DEF Least
  <2>2. recvd + RecvLen = arrived
    BY <1>1, <2>1
  <2>3. ASSUME arrived # size PROVE RecvLen = BUFFSIZE
    <3>1. PICK k \in Nat : arrived = k * BUFFSIZE
      BY <2>3 DEF Blocks, EndsBlock
    <3>2. recvd + BUFFSIZE =< arrived
      BY <1>1, <1>2, <3>1, BlocksApart
    <3>3. QED
      BY <1>1, <1>3, <2>1, <3>2
  <2>4. EndsBlock(arrived)
    BY DEF Blocks
  <2>5. QED
    BY <2>2, <2>3, <2>4
<1>4. CASE arrived - recvd > BUFFSIZE
  <2>1. RecvLen = BUFFSIZE
    BY <1>1, <1>4 DEF Least
  <2>2. j + 1 \in Nat /\ recvd + BUFFSIZE = (j + 1) * BUFFSIZE
    BY <1>2, NextBlock
  <2>3. \E k \in Nat : recvd + BUFFSIZE = k * BUFFSIZE
    BY <2>2, Zenon
  <2>4. EndsBlock(recvd + BUFFSIZE)
    BY <2>3 DEF EndsBlock
  <2>5. QED
    BY <2>1, <2>4
<1>5. QED
  BY <1>1, <1>3, <1>4

LEMMA InitCopyInv == Init => CopyInv
<1> SUFFICES ASSUME Init PROVE CopyInv
  OBVIOUS
<1>1. IInv
  BY InitIInv
<1>2. EndsBlock(0)
  BY DEF EndsBlock
<1>3. Blocks
  BY <1>2 DEF Init, Blocks, May
<1>4. Verdict
  BY DEF Init, Verdict
<1>5. QED
  BY <1>1, <1>3, <1>4 DEF CopyInv

LEMMA StepBlocks == IInv /\ Blocks /\ [Next]_vars => Blocks'
<1>0. SUFFICES ASSUME IInv, Blocks, [Next]_vars PROVE Blocks'
  OBVIOUS
<1>1. CASE UNCHANGED <<mainVars, arrived, recvd>>
  BY <1>0, <1>1 DEF Blocks, EndsBlock
<1>2. CASE RecvData
  <2>1. UNCHANGED <<mainVars, arrived>> /\ recvd' = recvd + RecvLen
    BY <1>2 DEF RecvData
  <2>2. ASSUME calm PROVE EndsBlock(recvd + RecvLen)
    BY <1>0, <1>2, <2>2, CalmRecv DEF IInv
  <2>3. QED
    BY <1>0, <2>1, <2>2 DEF Blocks, EndsBlock
<1>3. CASE Deliver
  <2>1. UNCHANGED <<mainVars, recvd>> /\ arrived' \in Nat
    BY <1>0, <1>3 DEF Deliver, IInv, Inv1, TypeOK, DataTypes
  <2>2. calm => arrived' = size \/ arrived' % BUFFSIZE = 0
    BY <1>3 DEF Deliver
  <2>3. calm => EndsBlock(arrived')
    BY <2>1, <2>2, Remainder DEF EndsBlock
  <2>4. QED
    BY <1>0, <2>1, <2>3 DEF Blocks, EndsBlock
<1>4. QED
  BY <1>0, <1>1, <1>2, <1>3
     DEF Next, vars, Main, Listen, Connect, Accept, Close, Kill, Rejected, SockError, Sender,
         OpenSource, ReadBlock, SendPart, SendRest, SendShort, SendFails, SendKilled, Receiver,
         OpenDest, RecvEnd, RecvFails, Network, DeliverFin, Reset, GiveUp, Break

LEMMA StepVerdict == Inv1 /\ Verdict /\ [Next]_vars => Verdict'
<1>0. SUFFICES ASSUME Inv1, Verdict, [Next]_vars PROVE Verdict'
  OBVIOUS
<1> USE DEF Verdict, Inv1, TypeOK, ControlTypes, ReportTypes
<1>1. CASE UNCHANGED <<pc, fd, said>>
  BY <1>0, <1>1
<1>2. ASSUME NEW p \in Role, Listen(p) PROVE Verdict'
  BY <1>0, <1>2 DEF Listen, createListener
<1>3. ASSUME NEW p \in Role, Connect(p) PROVE Verdict'
  <2>1. CASE p = "rcv"
    BY <1>0, <1>3, <2>1 DEF Connect
  <2>2. CASE p = "snd"
    BY <1>0, <1>3, <2>2 DEF Connect
  <2>3. QED
    BY <2>1, <2>2
<1>4. ASSUME NEW p \in Role, Accept(p) PROVE Verdict'
  BY <1>0, <1>4 DEF Accept
<1>5. ASSUME NEW p \in Role, Close(p) \/ Kill(p) PROVE Verdict'
  BY <1>0, <1>5 DEF Close, Kill, CloseSocket
<1>6. CASE Sender
  BY <1>0, <1>6 DEF Sender, OpenSource, ReadBlock, SendPart, SendRest, SendShort, SendFails,
                    SendKilled, AfterSend
<1>7. CASE Receiver
  BY <1>0, <1>7 DEF Receiver, OpenDest, RecvData, RecvEnd, RecvFails, AfterRecv
<1>8. CASE Network \/ Break \/ \E p \in Role : Rejected(p)
  BY <1>0, <1>8 DEF Network, Deliver, DeliverFin, Reset, GiveUp, Break, Rejected, SockError
<1>9. QED
  BY <1>0, <1>1, <1>2, <1>3, <1>4, <1>5, <1>6, <1>7, <1>8 DEF Next, vars, Main

LEMMA CopyInvHolds == Spec => []CopyInv
<1>1. CopyInv /\ [Next]_vars => CopyInv'
  BY StepInv1, StepSenderCount, StepReceiverFile, StepBlocks, StepVerdict DEF CopyInv, IInv
<1>2. QED
  BY InitCopyInv, <1>1, PTL DEF Spec

----------------------------------------------------------------------------
LEMMA InitCopy == Init => Copy!Init
  BY DEF Init, Copy!Init, Old

\* A recv() appends the bytes it got, or on a full disk the first of them.
LEMMA RecvExtends == CopyInv /\ RecvData => Copy!Extend
<1>0. SUFFICES ASSUME CopyInv, RecvData PROVE Copy!Extend
  OBVIOUS
<1> USE DEF CopyInv, IInv, Inv1, TypeOK, DataTypes, ReportTypes, Order, Conservation
<1>1. /\ pc["rcv"] = "recv" /\ fd["rcv"] = "open" /\ said["rcv"] = "nothing"
      /\ recvd \in Nat /\ arrived \in Nat /\ size \in Nat /\ recvd < arrived /\ arrived =< Copy!Limit
      /\ Copy!Limit \in Nat
      /\ said \in [Role -> {"nothing", "failed", "done"}]
  BY <1>0 DEF RecvData, Verdict, Reach, Copy!Limit
<1>2. RecvLen \in Nat /\ recvd + RecvLen =< Copy!Limit
  BY <1>1 DEF RecvLen, Least
<1>3. PICK n \in 0..RecvLen : file' = file \o Run(n) /\ (n = RecvLen \/ full)
  <2>1. Write(RecvLen)
    BY <1>0 DEF RecvData
  <2>2. CASE file' = file \o Run(RecvLen)
    BY <1>2, <2>2
  <2>3. CASE full /\ \E k \in 0..(RecvLen - 1) : file' = file \o Run(k)
    <3>1. PICK k \in 0..(RecvLen - 1) : file' = file \o Run(k)
      BY <2>3
    <3>2. k \in 0..RecvLen
      BY <1>2
    <3>3. QED
      BY <2>3, <3>1, <3>2
  <2>4. QED
    BY <2>1, <2>2, <2>3, Zenon DEF Write
<1>4. recvd \in 0..Copy!Limit /\ recvd + n \in 0..Copy!Limit /\ recvd =< recvd + n
  BY <1>1, <1>2, <1>3
<1>5. \A i \in 1..Len(file) : file[i] \in 1..recvd
  BY <1>0, <1>1 DEF ReceiverFile
<1>6. recvd = Len(file) \/ full
  BY <1>0, <1>1 DEF ReceiverFile, FileIsStream
<1>7. file' = file \o [i \in 1..((recvd + n) - recvd) |-> recvd + i]
  <2>1. (recvd + n) - recvd = n
    BY <1>1, <1>3
  <2>2. QED
    BY <1>3, <2>1 DEF Run
<1>8. said'["rcv"] = "nothing" \/ (said'["rcv"] = "done" /\ (calm => recvd + n = size))
  <2>1. CASE RecvLen < BUFFSIZE
    <3>1. said'["rcv"] = "done"
      BY <1>0, <1>1, <2>1 DEF RecvData, AfterRecv
    <3>2. ASSUME calm PROVE recvd + n = size
      <4>1. recvd + RecvLen = size
        BY <1>0, <2>1, <3>2, CalmRecv
      <4>2. n = RecvLen
        BY <1>0, <1>3, <3>2 DEF Blocks
      <4>3. QED
        BY <4>1, <4>2
    <3>3. QED
      BY <3>1, <3>2
  <2>2. CASE ~(RecvLen < BUFFSIZE)
    BY <1>0, <1>1, <2>2 DEF RecvData, AfterRecv
  <2>3. QED
    BY <2>1, <2>2
<1>9. UNCHANGED <<calm, full, size, fpos, blk>>
  BY <1>0 DEF RecvData
<1>10. QED
  BY <1>1, <1>4, <1>5, <1>6, <1>7, <1>8, <1>9 DEF Copy!Extend, Copy!env

\* A read() that fails is where the source ends for the copy; one that does not
\* fail leaves the copy as it is.
LEMMA SourceEnds == CopyInv /\ ReadBlock => Copy!Next \/ UNCHANGED Copy!vars
<1>0. SUFFICES ASSUME CopyInv, ReadBlock PROVE Copy!Next \/ UNCHANGED Copy!vars
  OBVIOUS
<1> USE DEF CopyInv, IInv, Inv1, TypeOK, ControlTypes, DataTypes, Order, Conservation
<1>1. /\ UNCHANGED <<mainVars, said, file>> /\ pc["snd"] = "read" /\ blk # -1
      /\ fpos \in Nat /\ size \in Nat /\ fpos =< size
  BY <1>0 DEF ReadBlock
<1>2. CASE blk' = BlockLen
  <2>1. blk' # -1
    BY <1>1, <1>2 DEF BlockLen, Least
  <2>2. QED
    BY <1>1, <2>1 DEF Copy!vars, Copy!env
<1>3. CASE blk' = -1 /\ May("read") /\ fpos' = fpos
  <2>1. \A i \in 1..Len(file) : file[i] =< fpos
    <3>1. recvd \in Nat /\ recvd =< fpos
      BY <1>0, <1>1
    <3>2. file = Old \/ \A i \in 1..Len(file) : file[i] \in 1..recvd
      BY <1>0 DEF ReceiverFile
    <3>3. CASE file = Old
      BY <1>1, <3>3 DEF Old
    <3>4. CASE \A i \in 1..Len(file) : file[i] \in 1..recvd
      BY <1>1, <3>1, <3>4
    <3>5. QED
      BY <3>2, <3>3, <3>4
  <2>2. fpos \in 0..size
    BY <1>1
  <2>3. ~calm
    BY <1>3 DEF May
  <2>4. Copy!Lose
    BY <1>1, <1>3, <2>1, <2>2, <2>3 DEF Copy!Lose, Copy!env
  <2>5. QED
    BY <2>4 DEF Copy!Next
<1>4. QED
  BY <1>0, <1>2, <1>3 DEF ReadBlock

LEMMA StepCopy == CopyInv /\ [Next]_vars => [Copy!Next]_(Copy!vars)
<1>0. SUFFICES ASSUME CopyInv, [Next]_vars PROVE Copy!Next \/ UNCHANGED Copy!vars
  OBVIOUS
<1> USE DEF CopyInv, IInv, Inv1, TypeOK, ControlTypes, ReportTypes, Copy!vars, Copy!env
<1>1. CASE UNCHANGED <<mainVars, fpos, blk, said, file>>
  BY <1>1
<1>2. ASSUME NEW p \in Role, Connect(p) PROVE Copy!Next \/ UNCHANGED Copy!vars
  BY <1>0, <1>2 DEF Connect, Verdict, Copy!Next, Copy!Fail
<1>3. CASE Sender
  <2>1. CASE ReadBlock
    BY <1>0, <2>1, SourceEnds
  <2>2. CASE ~ReadBlock
    BY <1>0, <1>3, <2>2 DEF Sender, OpenSource, SendPart, SendRest, SendShort, SendFails,
                            SendKilled, AfterSend
  <2>3. QED
    BY <2>1, <2>2
<1>4. CASE OpenDest
  BY <1>0, <1>4 DEF OpenDest, ReceiverFile, BeforeData, Old, Copy!Next, Copy!Fail, Copy!Empty
<1>5. CASE RecvData
  BY <1>0, <1>5, RecvExtends DEF Copy!Next
<1>6. CASE RecvFails
  BY <1>0, <1>6 DEF RecvFails, ReceiverFile, Copy!Next, Copy!Fail
<1>7. QED
  BY <1>0, <1>1, <1>2, <1>3, <1>4, <1>5, <1>6
     DEF Next, vars, Main, Listen, Accept, Close, Kill, Rejected, SockError, Receiver, RecvEnd,
         Network, Deliver, DeliverFin, Reset, GiveUp, Break

\* Whatever fails, the pair of programs keeps the promise of a file copy: the
\* destination only ever grows by bytes further on in the source, has no gap
\* unless the disk is full, and is whole when recieveFile() says so in calm.
THEOREM TransferCopies == Spec => ImplementsCopy
<1>1. Init => Copy!Init
  BY InitCopy
<1>2. CopyInv /\ [Next]_vars => [Copy!Next]_(Copy!vars)
  BY StepCopy
<1>3. QED
  BY <1>1, <1>2, CopyInvHolds, PTL DEF Spec, ImplementsCopy, Copy!Spec

----------------------------------------------------------------------------
\* Before the handshake there is no network to break.
Unconnected ==
  /\ ~conn => /\ link = "up" /\ fin = "no"
             /\ \A p \in Role : err[p] = "none" /\ fd[p] \in {"none", "bad"}
  /\ \A p \in Role : pc[p] \in {"main", "accept", "stray"} => fd[p] = "none"

\* When all is calm, connected programs have a sound connection until they end, the
\* sender leaves its loop when all is sent, and the receiver when all is written.
Course ==
  calm /\ conn /\ there["snd"] =>
    /\ link = "up" /\ \A p \in Role : err[p] = "none"
    /\ \A p \in Role :
         \/ pc[p] = "accept"
         \/ pc[p] \in {"open", "read", "send", "recv", "close"} /\ fd[p] = "open"
         \/ pc[p] = "done"
    /\ fin # "no" => pc["snd"] = "done"
    /\ pc["snd"] \in {"close", "done"} => sent = size
    /\ pc["rcv"] \in {"close", "done"} => recvd = size /\ file = [i \in 1..size |-> i]

LEMMA StepUnconnected == Inv1 /\ Unconnected /\ [Next]_vars => Unconnected'
<1>0. SUFFICES ASSUME Inv1, Unconnected, [Next]_vars PROVE Unconnected'
  OBVIOUS
<1> USE DEF Unconnected, Inv1, TypeOK, ControlTypes, DataTypes
<1>1. CASE UNCHANGED <<pc, fd, conn, link, err, fin>>
  BY <1>0, <1>1
<1>2. ASSUME NEW p \in Role, Listen(p) PROVE Unconnected'
  BY <1>0, <1>2 DEF Listen, createListener
<1>3. ASSUME NEW p \in Role, Connect(p) PROVE Unconnected'
  BY <1>0, <1>3 DEF Connect
<1>4. ASSUME NEW p \in Role, Accept(p) PROVE Unconnected'
  BY <1>0, <1>4 DEF Accept
<1>5. ASSUME NEW p \in Role, Close(p) \/ Kill(p) PROVE Unconnected'
  BY <1>0, <1>5 DEF Close, Kill, CloseSocket
<1>6. CASE Sender
  BY <1>0, <1>6 DEF Sender, OpenSource, ReadBlock, SendPart, SendRest, SendShort, SendFails,
                    SendKilled, AfterSend
<1>7. CASE Receiver
  BY <1>0, <1>7 DEF Receiver, OpenDest, RecvData, RecvEnd, RecvFails, AfterRecv
<1>8. CASE Network \/ Break \/ \E p \in Role : Rejected(p)
  BY <1>0, <1>8 DEF Network, Deliver, DeliverFin, Reset, GiveUp, Break, Rejected, SockError
<1>9. QED
  BY <1>0, <1>1, <1>2, <1>3, <1>4, <1>5, <1>6, <1>7, <1>8 DEF Next, vars, Main

\* A file that is as long as the source and a prefix of it is the source.
LEMMA WholePrefix ==
  ASSUME NEW f \in Seq(Nat), NEW n \in Nat, Len(f) = n, \A i \in 1..Len(f) : f[i] = i
  PROVE  f = [i \in 1..n |-> i]
  OBVIOUS

\* The recv() that ends the loop in calm writes the last byte of the file.
LEMMA LastRecv ==
  ASSUME CopyInv, CopyInv', RecvData, calm, RecvLen < BUFFSIZE
  PROVE  recvd' = size /\ file' = [i \in 1..size |-> i]
<1> USE DEF CopyInv, IInv, Inv1, TypeOK, ControlTypes, DataTypes, ReportTypes
<1>1. ~full /\ UNCHANGED <<full, size>> /\ recvd' = recvd + RecvLen /\ Write(RecvLen)
  BY DEF RecvData, Blocks
<1>2. recvd' = size
  BY <1>1, CalmRecv
<1>3. said'["rcv"] = "done"
  BY DEF RecvData, AfterRecv
<1>4. Len(file') = size /\ (file' = Old \/ \A i \in 1..Len(file') : file'[i] = i)
  BY <1>1, <1>2, <1>3 DEF ReceiverFile, FileIsStream
<1>5. file' # Old
  <2>1. RecvLen \in Nat /\ RecvLen > 0 /\ recvd \in Nat /\ file \in Seq(Nat)
    BY DEF RecvData, RecvLen, Least
  <2>2. file' = file \o [i \in 1..RecvLen |-> recvd + i]
    BY <1>1, Zenon DEF Write, Run
  <2> HIDE DEF CopyInv
  <2>3. /\ Len(file') = Len(file) + RecvLen
        /\ \A i \in (Len(file) + 1)..Len(file') : file'[i] = recvd + (i - Len(file))
    BY <2>1, <2>2, AppendParts
  <2>4. Len(file') \in (Len(file) + 1)..Len(file') /\ Len(file) \in Nat
    BY <2>1, <2>3
  <2>5. file'[Len(file')] = recvd + RecvLen
    BY <2>1, <2>3, <2>4
  <2>6. SUFFICES ASSUME file' = Old PROVE FALSE
    OBVIOUS
  <2>7. Len(file') = 1 /\ file'[1] = 0
    BY <2>6 DEF Old
  <2>8. QED
    BY <2>1, <2>5, <2>7
<1>6. file' \in Seq(Nat) /\ size \in Nat
  OBVIOUS
<1>7. QED
  BY <1>2, <1>4, <1>5, <1>6, WholePrefix

LEMMA StepCourse == CopyInv /\ CopyInv' /\ Unconnected /\ Course /\ [Next]_vars => Course'
<1>0. SUFFICES ASSUME CopyInv, CopyInv', Unconnected, Course, [Next]_vars,
                      calm', conn', there'["snd"]
               PROVE  Course'
  BY DEF Course
<1>1. calm /\ calm' = calm /\ size' = size /\ there["snd"] /\ there'["snd"]
  <2>1. there' = there \/ there' = [there EXCEPT !["rcv"] = TRUE]
    BY <1>0 DEF Next, vars, Main, Listen, Connect, Accept, Close, Kill, Rejected, SockError, Sender,
       OpenSource, ReadBlock, SendPart, SendRest, SendShort, SendFails, SendKilled, Receiver,
       OpenDest, RecvData, RecvEnd, RecvFails, Network, Deliver, DeliverFin, Reset, GiveUp, Break
  <2>2. UNCHANGED mainVars
    BY <1>0 DEF Next, vars, Main, Listen, Connect, Accept, Close, Kill, Rejected, SockError, Sender,
       OpenSource, ReadBlock, SendPart, SendRest, SendShort, SendFails, SendKilled, Receiver,
       OpenDest, RecvData, RecvEnd, RecvFails, Network, Deliver, DeliverFin, Reset, GiveUp, Break
  <2>3. there \in [Role -> BOOLEAN]
    BY <1>0 DEF CopyInv, IInv, Inv1, TypeOK, ControlTypes
  <2>4. QED
    BY <1>0, <2>1, <2>2, <2>3
<1>2. /\ pc \in [Role -> {"main", "accept", "stray", "open", "read", "send", "recv", "close",
                         "done", "exit", "killed"}]
      /\ fd \in [Role -> {"none", "bad", "open", "closed"}]
      /\ err \in [Role -> {"none", "reset", "timeout"}]
      /\ server \in Role /\ sent \in Nat /\ recvd \in Nat /\ arrived \in Nat /\ size \in Nat
      /\ recvd =< arrived /\ arrived =< sent /\ sent =< size /\ blk # -1
  BY <1>0, <1>1 DEF CopyInv, IInv, Inv1, TypeOK, ControlTypes, DataTypes, Order, Conservation
<1>3. ~May("sys") /\ ~May("kill") /\ ~May("drop") /\ ~May("reject")
  BY <1>1 DEF May
<1> USE DEF Course
<1>4. ASSUME NEW p \in Role, Listen(p) PROVE Course'
  BY <1>0, <1>1, <1>2, <1>3, <1>4 DEF Listen, Unconnected
<1>5. ASSUME NEW p \in Role, Connect(p) PROVE Course'
  <2>1. UNCHANGED <<link, err, fin>> /\ pc' = [pc EXCEPT ![p] = "open"] /\ pc[p] = "main" /\ p # server
    BY <1>5 DEF Connect
  <2>2. ~conn
    BY <1>0, <1>1, <1>2, <2>1
  <2>3. pc[server] = "accept" /\ fd' = [fd EXCEPT ![p] = "open"]
    BY <1>0, <1>5, <2>2 DEF Connect
  <2>4. QED
    BY <1>0, <1>1, <1>2, <2>1, <2>2, <2>3 DEF Unconnected
<1>6. ASSUME NEW p \in Role, Accept(p) PROVE Course'
  BY <1>0, <1>1, <1>2, <1>3, <1>6 DEF Accept
<1>7. ASSUME NEW p \in Role, Close(p) \/ Kill(p) PROVE Course'
  <2>1. Close(p)
    BY <1>3, <1>7 DEF Kill
  <2>2. /\ pc[p] = "close" /\ pc' = [pc EXCEPT ![p] = "done"]
        /\ fd' = [fd EXCEPT ![p] = IF fd[p] = "open" THEN "closed" ELSE fd[p]]
        /\ fin' = IF p = "snd" /\ fd[p] = "open" THEN "sent" ELSE fin
        /\ UNCHANGED <<conn, link, err, sent, recvd, file>>
    BY <2>1 DEF Close, CloseSocket
  <2>3. /\ pc'[p] = "done"
        /\ \A q \in Role : q # p => pc'[q] = pc[q] /\ fd'[q] = fd[q]
    BY <1>2, <2>2
  <2>4. QED
    BY <1>0, <1>1, <2>2, <2>3
<1>8. CASE SendRest
  <2>1. /\ sent' = sent + left /\ fd["snd"] = "open" /\ err["snd"] = "none"
        /\ UNCHANGED <<fd, netVars, conn, recvd, file, blk>> /\ pc["snd"] = "send"
    BY <1>8 DEF SendRest
  <2>2. blk < BUFFSIZE => sent' = size
    BY <1>0, <1>2, <2>1 DEF CopyInv, IInv, Inv1, Order, Conservation, SenderCount
  <2>3. pc' = [pc EXCEPT !["snd"] = IF blk < BUFFSIZE THEN "close" ELSE "read"]
    BY <1>8 DEF SendRest, AfterSend
  <2>4. QED
    BY <1>0, <1>1, <1>2, <2>1, <2>2, <2>3
<1>9. CASE OpenSource \/ ReadBlock \/ SendPart
  <2>1. CASE OpenSource
    BY <1>0, <1>1, <1>2, <1>3, <2>1 DEF OpenSource
  <2>2. CASE ReadBlock
    BY <1>0, <1>1, <1>2, <2>2 DEF ReadBlock
  <2>3. CASE SendPart
    BY <1>0, <1>1, <1>2, <2>3 DEF SendPart
  <2>4. QED
    BY <1>9, <2>1, <2>2, <2>3
<1>10. CASE SendShort \/ SendFails \/ SendKilled
  BY <1>0, <1>1, <1>2, <1>10 DEF SendShort, SendFails, SendKilled
<1>11. CASE OpenDest
  BY <1>0, <1>1, <1>2, <1>3, <1>11 DEF OpenDest
<1>12. CASE RecvData
  <2>1. UNCHANGED <<fd, netVars, sent>> /\ pc["rcv"] = "recv" /\ conn
    BY <1>0, <1>12 DEF RecvData
  <2>2. CASE RecvLen < BUFFSIZE
    <3>1. recvd' = size /\ file' = [i \in 1..size |-> i]
      BY <1>0, <1>1, <1>12, <2>2, LastRecv
    <3>2. pc' = [pc EXCEPT !["rcv"] = "close"]
      BY <1>12, <2>2 DEF RecvData, AfterRecv
    <3>3. QED
      BY <1>0, <1>1, <1>2, <2>1, <3>1, <3>2
  <2>3. CASE ~(RecvLen < BUFFSIZE)
    BY <1>0, <1>1, <1>2, <1>12, <2>1, <2>3 DEF RecvData, AfterRecv
  <2>4. QED
    BY <2>2, <2>3
<1>13. CASE RecvEnd
  <2>1. arrived = recvd /\ fin = "arrived" /\ conn /\ pc["rcv"] = "recv"
        /\ UNCHANGED <<fd, netVars, sent, recvd, file>> /\ pc' = [pc EXCEPT !["rcv"] = "close"]
    BY <1>0, <1>13 DEF RecvEnd
  <2>2. sent = size /\ arrived = sent
    BY <1>0, <1>1, <2>1 DEF CopyInv, IInv, Inv1, Order, Conservation
  <2>3. file \in Seq(Nat) /\ Len(file) = size /\ \A i \in 1..Len(file) : file[i] = i
    BY <1>0, <1>1, <2>1, <2>2 DEF CopyInv, IInv, Inv1, TypeOK, ReportTypes, Blocks, ReceiverFile,
                                  FileIsStream
  <2>4. file = [i \in 1..size |-> i]
    BY <1>2, <2>3, WholePrefix
  <2>5. QED
    BY <1>0, <1>1, <1>2, <2>1, <2>2, <2>4
<1>14. CASE RecvFails
  BY <1>0, <1>1, <1>2, <1>14 DEF RecvFails
<1>15. CASE Network \/ Break \/ \E p \in Role : Rejected(p)
  <2>1. conn /\ link = "up"
    BY <1>0, <1>1, <1>15 DEF Network, Deliver, DeliverFin, Reset, GiveUp, Break, Rejected, SockError,
       Unconnected
  <2>2. fd["rcv"] = "closed" => recvd = size
    BY <1>0, <1>1, <1>2, <2>1 DEF Unconnected
  <2>3. CASE Deliver
    BY <1>0, <1>1, <2>1, <2>3 DEF Deliver
  <2>4. CASE DeliverFin
    BY <1>0, <1>1, <2>1, <2>4 DEF DeliverFin
  <2>5. CASE Reset
    BY <1>2, <2>2, <2>5 DEF Reset
  <2>6. CASE GiveUp \/ Break \/ \E p \in Role : Rejected(p)
    BY <1>3, <2>1, <2>6 DEF GiveUp, Break, Rejected
  <2>7. QED
    BY <1>15, <2>3, <2>4, <2>5, <2>6 DEF Network
<1>16. CASE UNCHANGED vars
  BY <1>0, <1>16 DEF vars
<1>17. QED
  BY <1>0, <1>4, <1>5, <1>6, <1>7, <1>8, <1>9, <1>10, <1>11, <1>12, <1>13, <1>14, <1>15, <1>16
     DEF Next, Main, Sender, Receiver

\* When nothing fails and blocks arrive whole, a connected receiver ends with the
\* whole file, for every size and block size: also when it is a multiple of the
\* block, or empty, and recieveFile() leaves its loop without a message.
THEOREM NothingIsLost == Spec => []NothingLost
<1>1. Init => Unconnected /\ Course
  BY DEF Init, Unconnected, Course
<1>2. CopyInv /\ CopyInv' /\ (Unconnected /\ Course) /\ [Next]_vars => (Unconnected /\ Course)'
  BY StepUnconnected, StepCourse DEF CopyInv, IInv
<1>3. Course => NothingLost
  BY DEF Course, NothingLost
<1>4. QED
  BY <1>1, <1>2, <1>3, CopyInvHolds, PTL DEF Spec
=============================================================================
