------------------------- MODULE OobTransferProofs -------------------------
(***************************************************************************)
(* Proofs about OobTransfer for every size of the file and of the buffer:  *)
(* what the receiver writes although urgent bytes are among the data.      *)
(***************************************************************************)
EXTENDS OobTransfer, TLAPS

----------------------------------------------------------------------------
(* Types                                                                   *)

\* Only the client becomes connected, and only once.
Roles ==
  /\ server \in Role /\ mpc \in [Role -> {"start", "accept", "stray", "running", "exit"}]
  /\ conn \in {"none", "up", "reset"}
  /\ \A p \in Role : p # server /\ mpc[p] = "start" => conn = "none"

\* The block in the buffer is the last that was read.
Source ==
  /\ size \in Sizes /\ size \in Nat /\ fpos \in 0..size
  /\ bytesToSend \in 0..BUFFSIZE /\ bytesToSend =< fpos /\ percent \in 0..100
  /\ spc \in {"open", "read", "send", "urgent", "key", "done", "crashed"}
  /\ sentBytes \in -1..BUFFSIZE

\* The receiver's kernel knows of an urgent byte only if it has come.
Net ==
  /\ stream \in Seq(Values) /\ arrived \in 0..Len(stream) /\ copied \in 0..arrived
  /\ mark \in 0..arrived /\ urgent \in {"none", "valid", "read"}
  /\ sigurg \in {"no", "pending", "due"}
  /\ urgent # "none" => mark \in 1..arrived

\* Bytes are counted when they are written.
Dest ==
  /\ rpc \in {"open", "setown", "recv", "key", "done"}
  /\ file \in Seq(Values) /\ totalReceivedBytes \in -1..Len(file) /\ printed \in Seq(Nat)
  /\ rpc \in {"open", "setown", "recv"} \/ conn # "reset" => totalReceivedBytes = Len(file)

Types == Roles /\ Source /\ Net /\ Dest

----------------------------------------------------------------------------
(* The bytes on their way                                                  *)

Oob(s, k) == s[k].oob

\* How much of the file has been given to the connection, if nothing has failed.
Position == IF spc = "send" THEN fpos - bytesToSend ELSE fpos

\* sendFile() is in its loop, and no send() has failed.
Loop == spc \in {"open", "read", "send"} \/ (spc = "urgent" /\ sentBytes # -1)

InOrder(s) ==
  \A k \in 1..Len(s) : ~Oob(s, k) => s[k].val > 0 /\ Before(s, k) = 1..(s[k].val - 1)

\* The same bytes of the file are among the first a of s and the first b of t.
Abreast(s, a, t, b) == Before(s, a + 1) = Before(t, b + 1)

\* The connection carries the bytes of the file in their order, and the file holds those
\* that were taken; what the kernel has marked is an urgent byte.
OrderInv ==
  /\ InOrder(stream) /\ InOrder(file)
  /\ Abreast(file, Len(file), stream, copied)
  /\ Loop => Before(stream, Len(stream) + 1) = 1..Position
  /\ urgent # "none" => Oob(stream, mark)

\* Where the data begin that the receiver has not taken.
Behind == IF copied < Len(stream) /\ Oob(stream, copied + 1) THEN copied + 1 ELSE copied

\* The receiver still takes bytes.
Active == rpc \in {"open", "setown", "recv"}

\* If the sender waits, at most one urgent byte is under way; it is the next to come, and
\* still has its mark when it has come.
OneUrgent ==
  \A m \in (copied + 1)..Len(stream) : Oob(stream, m) =>
    m = copied + 1 /\ (m > arrived \/ (mark = m /\ urgent # "none"))

\* The data behind it continue the file.
Continued ==
  /\ \A k \in (copied + 1)..Len(stream) : ~Oob(stream, k) =>
       stream[k] = Data(Len(file) + k - Behind)
  /\ Loop => Position = Len(file) + Len(stream) - Behind

PacedInv ==
  /\ \A k \in 1..Len(file) : file[k] = Data(k)
  /\ Active => OneUrgent /\ Continued

Inv == Types /\ OrderInv /\ (paced => PacedInv)

USE OobAssumption DEF mainVars, jobVars, sndVars, tcpVars, rcvVars, restVars

LEMMA Named ==
  /\ \A k \in Nat : Data(k) \in Values /\ Data(k).val = k /\ Data(k).oob = FALSE
  /\ \A v \in Nat : Urgent(v) \in Values /\ Urgent(v).oob = TRUE
  BY DEF Data, Urgent, Values

LEMMA Percentage ==
  ASSUME NEW n \in Nat, n > 0, NEW b \in 0..n
  PROVE  (b * 100) \div n \in 0..100
<1> DEFINE x == b * 100
           q == x \div n
<1>1. x \in Nat /\ x =< n * 100
  OBVIOUS
<1>2. q \in Int /\ n * q =< x /\ x < n * (q + 1)
  OBVIOUS
<1> HIDE DEF q, x
<1>3. q >= 0
  <2>1. ASSUME q =< -1 PROVE FALSE
    <3>1. n * (q + 1) =< n * 0
      BY <1>2, <2>1
    <3>2. QED
      BY <1>1, <1>2, <3>1
  <2>2. QED
    BY <1>2, <2>1
<1>4. q =< 100
  <2>1. ASSUME q >= 101 PROVE FALSE
    <3>1. n * q >= n * 101
      BY <1>2, <2>1
    <3>2. QED
      BY <1>1, <1>2, <3>1
  <2>2. QED
    BY <1>2, <2>1
<1>5. QED
  BY <1>2, <1>3, <1>4 DEF q, x

\* The n elements of s after the a-th.
LEMMA Concat ==
  ASSUME NEW S, NEW s \in Seq(S), NEW n \in Nat, NEW e \in [1..n -> S]
  PROVE  /\ s \o e \in Seq(S) /\ Len(s \o e) = Len(s) + n
         /\ \A k \in 1..Len(s) : (s \o e)[k] = s[k]
         /\ \A k \in 1..n : (s \o e)[Len(s) + k] = e[k]
<1>1. e \in Seq(S) /\ Len(e) = n
  OBVIOUS
<1>2. QED
  BY <1>1

LEMMA InitTypes == Init => Types
<1> SUFFICES ASSUME Init PROVE Types
  OBVIOUS
<1>1. <<>> \in Seq(Values) /\ <<>> \in Seq(Nat) /\ Len(<<>>) = 0
  OBVIOUS
<1>2. Roles
  BY DEF Init, Roles
<1>3. Source
  BY DEF Init, Source
<1>4. Net
  BY <1>1 DEF Init, Net
<1>5. Dest
  BY <1>1 DEF Init, Dest
<1>6. QED
  BY <1>2, <1>3, <1>4, <1>5 DEF Types

LEMMA StepRoles == Roles /\ [Next]_vars => Roles'
<1>0. SUFFICES ASSUME Roles, [Next]_vars PROVE Roles'
  OBVIOUS
<1>1. ASSUME NEW p \in Role, Listen(p) PROVE Roles'
  <2>1. UNCHANGED <<server, conn>> /\ p = server
        /\ \E next \in createListener : mpc' = [mpc EXCEPT ![p] = next]
    BY <1>1, Zenon DEF Listen
  <2>2. QED
    BY <1>0, <2>1 DEF Roles, createListener
<1>2. ASSUME NEW p \in Role, Connect(p) PROVE Roles'
  BY <1>0, <1>2 DEF Connect, Roles, Role
<1>3. ASSUME NEW p \in Role, Accept(p) PROVE Roles'
  BY <1>0, <1>3 DEF Accept, Roles, Role
<1>4. CASE UNCHANGED <<server, mpc, conn>>
  BY <1>0, <1>4 DEF Roles
<1>5. UNCHANGED <<server, mpc, conn>> \/ \E p \in Role : Main(p)
  BY <1>0, Zenon
     DEF Next, vars, Sender, OpenSource, Read, SendBlock, SendUrgent, Receiver, OpenDest, SetOwn,
         RecvData, RecvSkip, RecvEnd, RecvFails, SigUrg, Keys, SenderKey, ReceiverKey, Arrive
<1>6. QED
  BY <1>1, <1>2, <1>3, <1>4, <1>5 DEF Main

\* What fread() takes fits the buffer and what is left of the file.
LEMMA ShortRead ==
  ASSUME NEW s \in Nat, NEW f \in 0..s, NEW n \in 0..Least(BUFFSIZE, s - f)
  PROVE  n \in 0..BUFFSIZE /\ n \in 0..s /\ f + n \in 0..s /\ n =< f + n
<1>1. n \in 0..BUFFSIZE /\ n \in 0..(s - f)
  BY DEF Least
<1>2. QED
  BY <1>1

LEMMA StepSource == Source /\ [Next]_vars => Source'
<1>0. SUFFICES ASSUME Source, [Next]_vars PROVE Source'
  OBVIOUS
<1>1. CASE OpenSource
  <2>1. spc' \in {"read", "key"} /\ UNCHANGED <<size, fpos, bytesToSend, percent, sentBytes>>
    BY <1>1, Zenon DEF OpenSource
  <2>2. QED
    BY <1>0, <2>1 DEF Source
<1>2. CASE Read
  <2>1. /\ bytesToSend' \in 0..Least(BUFFSIZE, size - fpos) /\ fpos' = fpos + bytesToSend'
        /\ UNCHANGED <<size, sentBytes>>
        /\ \/ spc' = "crashed" /\ UNCHANGED percent
           \/ size # 0 /\ spc' = "send" /\ percent' = (bytesToSend' * 100) \div size
    BY <1>2 DEF Read, BlockLen
  <2>2. /\ bytesToSend' \in 0..BUFFSIZE /\ bytesToSend' \in 0..size /\ fpos' \in 0..size
        /\ bytesToSend' =< fpos'
    <3>1. size \in Nat /\ fpos \in 0..size
      BY <1>0 DEF Source
    <3>2. bytesToSend' \in 0..Least(BUFFSIZE, size - fpos) /\ fpos' = fpos + bytesToSend'
      BY <2>1
    <3>3. /\ bytesToSend' \in 0..BUFFSIZE /\ bytesToSend' \in 0..size
          /\ fpos + bytesToSend' \in 0..size /\ bytesToSend' =< fpos + bytesToSend'
      BY <3>1, <3>2, ShortRead
    <3>4. QED
      BY <3>2, <3>3
  <2>3. percent' \in 0..100
    <3>1. size \in Nat /\ percent \in 0..100
      BY <1>0 DEF Source
    <3>2. size > 0 => (bytesToSend' * 100) \div size \in 0..100
      BY <2>2, <3>1, Percentage
    <3>3. \/ percent' = percent
          \/ size > 0 /\ percent' = (bytesToSend' * 100) \div size
      BY <2>1, <3>1
    <3>4. QED
      BY <3>1, <3>2, <3>3, Zenon
  <2>4. QED
    BY <1>0, <2>1, <2>2, <2>3 DEF Source
<1>3. CASE SendBlock
  <2>1. /\ UNCHANGED <<size, fpos, bytesToSend, percent>> /\ spc' \in {"urgent", "crashed"}
        /\ sentBytes' \in {bytesToSend, sentBytes, -1}
    BY <1>3 DEF SendBlock, Killed
  <2>2. QED
    BY <1>0, <2>1 DEF Source
<1>4. CASE SendUrgent
  <2>1. /\ UNCHANGED <<size, fpos, bytesToSend, percent, sentBytes>>
        /\ spc' \in {"key", "read", "crashed"}
    BY <1>4 DEF SendUrgent, Killed, AfterUrgent
  <2>2. QED
    BY <1>0, <2>1 DEF Source
<1>5. CASE SenderKey
  BY <1>0, <1>5 DEF SenderKey, Source
<1>6. CASE UNCHANGED <<size, sndVars>>
  BY <1>0, <1>6 DEF Source
<1>7. \/ OpenSource \/ Read \/ SendBlock \/ SendUrgent \/ SenderKey
      \/ UNCHANGED <<size, sndVars>>
  BY <1>0, Zenon
     DEF Next, vars, Main, Listen, Connect, Accept, Sender, Receiver, OpenDest, SetOwn,
         RecvData, RecvSkip, RecvEnd, RecvFails, SigUrg, Keys, ReceiverKey, Arrive
<1>8. QED
  BY <1>1, <1>2, <1>3, <1>4, <1>5, <1>6, <1>7

\* What a send() puts behind the stream, if anything.
LEMMA BlockStep ==
  ASSUME Types, SendBlock
  PROVE  /\ stream' \in Seq(Values)
         /\ \A k \in 1..Len(stream) : stream'[k] = stream[k]
         /\ \/ stream' = stream /\ (sentBytes' = -1 \/ spc' = "crashed")
            \/ /\ Len(stream') = Len(stream) + bytesToSend /\ sentBytes' = bytesToSend
               /\ \A k \in 1..bytesToSend :
                    stream'[Len(stream) + k] = Data(fpos - bytesToSend + k)
         /\ spc' \in {"urgent", "crashed"} /\ spc = "send"
         /\ UNCHANGED <<fpos, bytesToSend>>
<1> DEFINE block == [k \in 1..bytesToSend |-> Data(fpos - bytesToSend + k)]
<1>1. stream \in Seq(Values) /\ bytesToSend \in Nat /\ fpos \in Nat /\ bytesToSend =< fpos
  BY DEF Types, Net, Source
<1>2. block \in [1..bytesToSend -> Values]
  <2>1. \A k \in 1..bytesToSend : fpos - bytesToSend + k \in Nat
    BY <1>1
  <2>2. QED
    BY <2>1, Named
<1> HIDE DEF block
<1>3. /\ stream \o block \in Seq(Values) /\ Len(stream \o block) = Len(stream) + bytesToSend
      /\ \A k \in 1..Len(stream) : (stream \o block)[k] = stream[k]
      /\ \A k \in 1..bytesToSend : (stream \o block)[Len(stream) + k] = block[k]
  BY <1>1, <1>2, Concat
<1>4. /\ spc' \in {"urgent", "crashed"} /\ spc = "send" /\ UNCHANGED <<fpos, bytesToSend>>
      /\ \/ stream' = stream \o block /\ sentBytes' = bytesToSend
         \/ stream' = stream /\ (sentBytes' = -1 \/ spc' = "crashed")
  BY DEF SendBlock, Killed, block
<1>5. \A k \in 1..bytesToSend : block[k] = Data(fpos - bytesToSend + k)
  BY DEF block
<1>6. QED
  BY <1>1, <1>3, <1>4, <1>5

LEMMA UrgentStep ==
  ASSUME Types, SendUrgent
  PROVE  /\ stream' \in Seq(Values)
         /\ \A k \in 1..Len(stream) : stream'[k] = stream[k]
         /\ \/ stream' = stream
            \/ /\ conn = "up" /\ Len(stream') = Len(stream) + 1
               /\ stream'[Len(stream) + 1] = Urgent(percent)
         /\ spc = "urgent" /\ spc' \in {"key", "read", "crashed"}
         /\ spc' = "read" => sentBytes # -1
         /\ UNCHANGED <<fpos, bytesToSend, sentBytes>>
<1>1. stream \in Seq(Values) /\ Urgent(percent) \in Values
  BY Named DEF Types, Net, Source
<1>2. /\ spc = "urgent" /\ spc' \in {"key", "read", "crashed"} /\ (spc' = "read" => sentBytes # -1)
      /\ UNCHANGED <<fpos, bytesToSend, sentBytes>>
      /\ stream' = stream \/ (conn = "up" /\ stream' = Append(stream, Urgent(percent)))
  BY DEF SendUrgent, Killed, AfterUrgent
<1>3. QED
  BY <1>1, <1>2

\* What recv() may return has arrived.
LEMMA RecvStep ==
  ASSUME Types, RecvData
  PROVE  /\ Start \in Nat /\ Got \in 1..BUFFSIZE /\ Start + Got =< arrived
         /\ arrived =< Len(stream)
         /\ file' \in Seq(Values) /\ Len(file') = Len(file) + Got
         /\ \A k \in 1..Len(file) : file'[k] = file[k]
         /\ \A k \in 1..Got : file'[Len(file) + k] = stream[Start + k]
         /\ copied' = Start + Got /\ urgent' = IF AtMark THEN "none" ELSE urgent
<1>1. /\ arrived \in 0..Len(stream) /\ copied \in 0..arrived /\ mark \in 0..arrived
      /\ Len(stream) \in Nat /\ stream \in Seq(Values) /\ file \in Seq(Values)
  BY DEF Types, Net, Dest
<1>2. Got > 0 /\ file' = file \o Written(Got) /\ copied' = Start + Got
      /\ urgent' = IF AtMark THEN "none" ELSE urgent
  BY DEF RecvData
<1>3. Start \in Nat /\ Stop =< arrived /\ Stop \in Int
  BY <1>1 DEF Start, Stop, AtMark
<1>4. Got \in 1..BUFFSIZE /\ Got =< Stop - Start
  BY <1>2, <1>3 DEF Got, Least
<1>5. Start + Got =< arrived
  BY <1>1, <1>3, <1>4
<1>6. /\ Written(Got) \in [1..Got -> Values]
      /\ \A k \in 1..Got : Written(Got)[k] = stream[Start + k]
  <2>1. \A k \in 1..Got : Start + k \in 1..Len(stream)
    BY <1>1, <1>3, <1>4, <1>5
  <2>2. QED
    BY <1>1, <2>1 DEF Written
<1> DEFINE block == Written(Got)
<1>7. Got \in Nat /\ block \in [1..Got -> Values] /\ \A k \in 1..Got : block[k] = stream[Start + k]
  BY <1>4, <1>6
<1> HIDE DEF block
<1>8. /\ file \o block \in Seq(Values) /\ Len(file \o block) = Len(file) + Got
      /\ \A k \in 1..Len(file) : (file \o block)[k] = file[k]
      /\ \A k \in 1..Got : (file \o block)[Len(file) + k] = block[k]
  BY <1>1, <1>7, Concat
<1>9. file' = file \o block
  BY <1>2 DEF block
<1>10. QED
  BY <1>1, <1>2, <1>3, <1>4, <1>5, <1>7, <1>8, <1>9

LEMMA StepNet == Types /\ [Next]_vars => Net'
<1>0. SUFFICES ASSUME Types, [Next]_vars PROVE Net'
  OBVIOUS
<1>1. Net /\ Source
  BY <1>0 DEF Types
<1>2. CASE SendBlock
  <2>1. /\ stream' \in Seq(Values)
        /\ stream' = stream \/ Len(stream') = Len(stream) + bytesToSend
    BY <1>0, <1>2, BlockStep, Zenon
  <2>2. bytesToSend \in Nat /\ UNCHANGED tcpVars
    BY <1>1, <1>2 DEF Source, SendBlock
  <2>3. QED
    BY <1>1, <2>1, <2>2 DEF Net
<1>3. CASE SendUrgent
  <2>1. stream' \in Seq(Values) /\ Len(stream') >= Len(stream) /\ UNCHANGED tcpVars
    BY <1>0, <1>1, <1>3, UrgentStep DEF SendUrgent
  <2>2. QED
    BY <1>1, <2>1 DEF Net
<1>4. CASE RecvData
  <2>1. copied' \in 0..arrived /\ urgent' \in {urgent, "none"} /\ UNCHANGED <<stream, arrived, mark>>
        /\ sigurg' \in {sigurg, "due"}
    BY <1>0, <1>4, RecvStep DEF RecvData, Returns
  <2>2. QED
    BY <1>1, <2>1 DEF Net
<1>5. CASE RecvSkip
  BY <1>1, <1>5 DEF RecvSkip, AtMark, Net
<1>6. CASE RecvEnd
  BY <1>1, <1>6 DEF RecvEnd, Returns, Net
<1>7. CASE SigUrg
  BY <1>1, <1>7 DEF SigUrg, Net
<1>8. CASE Arrive
  <2>1. /\ arrived < Len(stream) /\ arrived' = arrived + 1 /\ UNCHANGED stream
        /\ \/ mark' = arrived + 1 /\ urgent' = "valid" /\ sigurg' \in {"pending", sigurg}
              /\ copied' = IF AtMark THEN copied + 1 ELSE copied
           \/ UNCHANGED <<mark, urgent, copied, sigurg>>
    BY <1>8 DEF Arrive
  <2>2. QED
    BY <1>1, <2>1 DEF Net
<1>9. CASE UNCHANGED <<stream, tcpVars>>
  BY <1>1, <1>9 DEF Net
<1>10. \/ SendBlock \/ SendUrgent \/ RecvData \/ RecvSkip \/ RecvEnd \/ SigUrg \/ Arrive
       \/ UNCHANGED <<stream, tcpVars>>
  BY <1>0, Zenon
     DEF Next, vars, Main, Listen, Connect, Accept, Sender, OpenSource, Read, Receiver, OpenDest,
         SetOwn, RecvFails, Keys, SenderKey, ReceiverKey
<1>11. QED
  BY <1>2, <1>3, <1>4, <1>5, <1>6, <1>7, <1>8, <1>9, <1>10

LEMMA StepDest == Types /\ [Next]_vars => Dest'
<1>0. SUFFICES ASSUME Types, [Next]_vars PROVE Dest'
  OBVIOUS
<1>1. Dest /\ Roles /\ Net
  BY <1>0 DEF Types
<1>2. ASSUME NEW p \in Role, Main(p) PROVE Dest'
  <2>1. UNCHANGED rcvVars /\ (conn' = conn \/ conn = "none" \/ conn = "up")
    BY <1>1, <1>2 DEF Main, Listen, Connect, Accept, Roles
  <2>2. QED
    BY <1>1, <2>1 DEF Dest
<1>3. CASE OpenDest
  BY <1>1, <1>3 DEF OpenDest, Dest
<1>4. CASE SetOwn
  BY <1>1, <1>4 DEF SetOwn, Dest
<1>5. CASE RecvData
  <2>1. /\ rpc = "recv" /\ totalReceivedBytes' = totalReceivedBytes + Got /\ UNCHANGED <<conn, printed>>
        /\ rpc' \in {"key", "recv"}
    BY <1>5 DEF RecvData, AfterRecv
  <2>2. QED
    BY <1>0, <1>1, <1>5, <2>1, RecvStep DEF Dest
<1>6. CASE RecvSkip
  BY <1>1, <1>6 DEF RecvSkip, Dest
<1>7. CASE RecvEnd
  BY <1>1, <1>7 DEF RecvEnd, AfterEnd, Dest
<1>8. CASE RecvFails
  BY <1>1, <1>8 DEF RecvFails, AfterEnd, Dest
<1>9. CASE SigUrg
  <2>1. printed' \in Seq(Nat)
    BY <1>1, <1>9 DEF SigUrg, Junk, Net, Dest
  <2>2. QED
    BY <1>1, <1>9, <2>1 DEF SigUrg, Dest
<1>10. CASE ReceiverKey
  BY <1>1, <1>10 DEF ReceiverKey, Dest
<1>11. CASE UNCHANGED <<conn, rcvVars>>
  BY <1>1, <1>11 DEF Dest
<1>12. \/ \E p \in Role : Main(p)
       \/ OpenDest \/ SetOwn \/ RecvData \/ RecvSkip \/ RecvEnd \/ RecvFails \/ SigUrg \/ ReceiverKey
       \/ UNCHANGED <<conn, rcvVars>>
  BY <1>0, Zenon
     DEF Next, vars, Sender, OpenSource, Read, SendBlock, SendUrgent, Receiver, Keys, SenderKey,
         Arrive
<1>13. QED
  BY <1>2, <1>3, <1>4, <1>5, <1>6, <1>7, <1>8, <1>9, <1>10, <1>11, <1>12

LEMMA StepTypes == Types /\ [Next]_vars => Types'
  BY StepRoles, StepSource, StepNet, StepDest DEF Types

----------------------------------------------------------------------------
(* Before                                                                  *)

LEMMA BeforeIs ==
  ASSUME NEW s, NEW k, NEW v
  PROVE  v \in Before(s, k) <=> \E j \in 1..(k - 1) : ~Oob(s, j) /\ s[j].val = v
  BY Zenon DEF Before, Oob

\* The n elements of s behind the a-th are those of t behind the b-th.
Chunk(s, a, t, b, n) == \A j \in 1..n : s[a + j] = t[b + j]

LEMMA ChunkGrows ==
  ASSUME NEW s, NEW t, NEW a \in Nat, NEW b \in Nat, NEW n \in Nat,
         Before(s, a + 1) \subseteq Before(t, b + 1), Chunk(s, a, t, b, n)
  PROVE  \A m \in 0..n : Before(s, a + m + 1) \subseteq Before(t, b + m + 1)
<1> SUFFICES ASSUME NEW m \in 0..n, NEW v \in Before(s, a + m + 1)
             PROVE  v \in Before(t, b + m + 1)
  OBVIOUS
<1>1. PICK j \in 1..(a + m + 1 - 1) : ~Oob(s, j) /\ s[j].val = v
  BY BeforeIs
<1>2. CASE j =< a
  <2>1. j \in 1..(a + 1 - 1)
    BY <1>2
  <2>2. v \in Before(s, a + 1)
    BY <1>1, <2>1, BeforeIs
  <2>3. PICK i \in 1..(b + 1 - 1) : ~Oob(t, i) /\ t[i].val = v
    BY <2>2, BeforeIs
  <2>4. i \in 1..(b + m + 1 - 1)
    OBVIOUS
  <2>5. QED
    BY <2>3, <2>4, BeforeIs
<1>3. CASE j > a
  <2>1. j - a \in 1..n /\ a + (j - a) = j /\ b + (j - a) \in 1..(b + m + 1 - 1)
    BY <1>3
  <2>2. s[j] = t[b + (j - a)]
    BY <2>1 DEF Chunk
  <2>3. ~Oob(t, b + (j - a)) /\ t[b + (j - a)].val = v
    BY <1>1, <2>2, Zenon DEF Oob
  <2>4. QED
    BY <2>1, <2>3, BeforeIs
<1>4. QED
  BY <1>2, <1>3

\* A chunk that is copied to where the same bytes are before it.
LEMMA BeforeChunk ==
  ASSUME NEW s, NEW t, NEW a \in Nat, NEW b \in Nat, NEW n \in Nat,
         Abreast(s, a, t, b), Chunk(s, a, t, b, n)
  PROVE  \A m \in 0..n : Abreast(s, a + m, t, b + m)
<1>1. Chunk(t, b, s, a, n)
  BY Zenon DEF Chunk
<1>2. Before(s, a + 1) \subseteq Before(t, b + 1) /\ Before(t, b + 1) \subseteq Before(s, a + 1)
  BY DEF Abreast
<1>3. \A m \in 0..n : Before(s, a + m + 1) \subseteq Before(t, b + m + 1)
  BY <1>2, ChunkGrows, Zenon
<1>4. \A m \in 0..n : Before(t, b + m + 1) \subseteq Before(s, a + m + 1)
  BY <1>1, <1>2, ChunkGrows, Zenon
<1>5. QED
  BY <1>3, <1>4, Zenon DEF Abreast

LEMMA BeforeFirst == \A s : Before(s, 1) = {}
<1> SUFFICES ASSUME NEW s, NEW v \in Before(s, 1) PROVE FALSE
  OBVIOUS
<1>1. PICK j \in 1..(1 - 1) : ~Oob(s, j) /\ s[j].val = v
  BY BeforeIs
<1>2. QED
  OBVIOUS

LEMMA BeforePrefix ==
  ASSUME NEW s, NEW t, NEW n \in Nat, Chunk(s, 0, t, 0, n)
  PROVE  \A k \in 1..(n + 1) : Before(s, k) = Before(t, k)
<1>1. Abreast(s, 0, t, 0) /\ 0 \in Nat
  BY BeforeFirst DEF Abreast
<1>2. \A m \in 0..n : Abreast(s, 0 + m, t, 0 + m)
  BY <1>1, BeforeChunk, Zenon
<1> SUFFICES ASSUME NEW k \in 1..(n + 1) PROVE Before(s, k) = Before(t, k)
  OBVIOUS
<1> DEFINE m == k - 1
<1>3. m \in 0..n /\ 0 + m = m /\ m + 1 = k
  OBVIOUS
<1> HIDE DEF m
<1>4. Abreast(s, m, t, m)
  BY <1>2, <1>3
<1>5. QED
  BY <1>3, <1>4 DEF Abreast

LEMMA BeforeOob ==
  ASSUME NEW s, NEW k \in Nat, Oob(s, k)
  PROVE  Before(s, k + 1) = Before(s, k)
<1>1. ASSUME NEW v, v \in Before(s, k + 1) PROVE v \in Before(s, k)
  <2>1. PICK j \in 1..(k + 1 - 1) : ~Oob(s, j) /\ s[j].val = v
    BY <1>1, BeforeIs
  <2>2. j # k
    BY <2>1
  <2>3. j \in 1..(k - 1)
    BY <2>2
  <2>4. QED
    BY <2>1, <2>3, BeforeIs
<1>2. ASSUME NEW v, v \in Before(s, k) PROVE v \in Before(s, k + 1)
  <2>1. PICK j \in 1..(k - 1) : ~Oob(s, j) /\ s[j].val = v
    BY <1>2, BeforeIs
  <2>2. j \in 1..(k + 1 - 1)
    OBVIOUS
  <2>3. QED
    BY <2>1, <2>2, BeforeIs
<1>3. QED
  BY <1>1, <1>2

\* r is s with the n elements of t behind the b-th added.
Extends(r, s, t, b, n) ==
  Len(r) = Len(s) + n /\ Chunk(r, 0, s, 0, Len(s)) /\ Chunk(r, Len(s), t, b, n)

\* They are in order in t.
Ordered(t, b, n) ==
  \A j \in 1..n : ~Oob(t, b + j) =>
    t[b + j].val > 0 /\ Before(t, b + j) = 1..(t[b + j].val - 1)

\* What is copied from behind the same bytes stays in order.
LEMMA InOrderMore ==
  ASSUME NEW s \in Seq(Values), NEW r \in Seq(Values), NEW t, NEW b \in Nat, NEW n \in Nat,
         InOrder(s), Abreast(s, Len(s), t, b), Extends(r, s, t, b, n), Ordered(t, b, n)
  PROVE  InOrder(r) /\ Abreast(r, Len(r), t, b + n)
<1>0. Len(s) \in Nat /\ Len(r) = Len(s) + n /\ \A k \in 1..Len(s) : r[k] = s[k]
  BY DEF Extends, Chunk
<1>1. \A k \in 1..(Len(s) + 1) : Before(r, k) = Before(s, k)
  BY <1>0, BeforePrefix, Zenon DEF Extends
<1>2. Abreast(r, Len(s), t, b)
  BY <1>0, <1>1 DEF Abreast
<1>3. \A j \in 1..n : r[Len(s) + j] = t[b + j]
  BY DEF Extends, Chunk
<1>4. \A m \in 0..n : Abreast(r, Len(s) + m, t, b + m)
  BY <1>0, <1>2, BeforeChunk, Zenon DEF Extends
<1>5. ASSUME NEW k \in 1..Len(r), ~Oob(r, k)
      PROVE  r[k].val > 0 /\ Before(r, k) = 1..(r[k].val - 1)
  <2>1. CASE k =< Len(s)
    <3>1. k \in 1..Len(s) /\ k \in 1..(Len(s) + 1) /\ r[k] = s[k] /\ Before(r, k) = Before(s, k)
      BY <1>0, <1>1, <2>1
    <3>2. ~Oob(s, k)
      BY <1>5, <3>1, Zenon DEF Oob
    <3>3. QED
      BY <3>1, <3>2 DEF InOrder
  <2>2. CASE k > Len(s)
    <3> DEFINE j == k - Len(s)
    <3>1. j \in 1..n
      BY <1>0, <2>2
    <3> HIDE DEF j
    <3>2. Len(s) + j = k /\ Len(s) + (j - 1) + 1 = k /\ b + (j - 1) + 1 = b + j /\ j - 1 \in 0..n
      BY <1>0, <3>1 DEF j
    <3>3. Abreast(r, Len(s) + (j - 1), t, b + (j - 1))
      BY <1>4, <3>2
    <3>4. r[k] = t[b + j] /\ Before(r, k) = Before(t, b + j)
      BY <1>3, <3>1, <3>2, <3>3 DEF Abreast
    <3>5. ~Oob(t, b + j)
      BY <1>5, <3>4, Zenon DEF Oob
    <3>6. QED
      BY <3>1, <3>4, <3>5 DEF Ordered
  <2>3. QED
    BY <1>0, <2>1, <2>2
<1>6. Abreast(r, Len(r), t, b + n)
  BY <1>0, <1>4
<1>7. QED
  BY <1>5, <1>6 DEF InOrder

\* The source itself.
LEMMA BeforeSource ==
  ASSUME NEW f, \A k \in Nat : f[k] = Data(k)
  PROVE  /\ \A k \in Nat : ~Oob(f, k) /\ f[k].val = k
         /\ \A k \in Nat : Before(f, k + 1) = 1..k
<1>1. \A k \in Nat : ~Oob(f, k) /\ f[k].val = k
  <2> SUFFICES ASSUME NEW k \in Nat PROVE ~Oob(f, k) /\ f[k].val = k
    OBVIOUS
  <2>1. f[k].oob = FALSE /\ f[k].val = k
    BY Named
  <2>2. QED
    BY <2>1, Zenon DEF Oob
<1>2. ASSUME NEW k \in Nat PROVE Before(f, k + 1) = 1..k
  <2>1. ASSUME NEW v, v \in Before(f, k + 1) PROVE v \in 1..k
    <3>1. PICK j \in 1..(k + 1 - 1) : ~Oob(f, j) /\ f[j].val = v
      BY <2>1, BeforeIs
    <3>2. QED
      BY <1>1, <3>1
  <2>2. ASSUME NEW v \in 1..k PROVE v \in Before(f, k + 1)
    <3>1. v \in 1..(k + 1 - 1) /\ ~Oob(f, v) /\ f[v].val = v
      BY <1>1
    <3>2. QED
      BY <3>1, BeforeIs
  <2>3. QED
    BY <2>1, <2>2
<1>3. QED
  BY <1>1, <1>2

----------------------------------------------------------------------------
(* The bytes stay in order                                                 *)

\* OrderInv after a step.
LEMMA NewOrder ==
  ASSUME InOrder(stream'), InOrder(file'), Abreast(file', Len(file'), stream', copied'),
         Loop' => Before(stream', Len(stream') + 1) = 1..Position',
         urgent' # "none" => Oob(stream', mark')
  PROVE  OrderInv'
<1>1. InOrder(stream)' /\ InOrder(file)'
  BY DEF InOrder, Before, Oob
<1>2. Abreast(file, Len(file), stream, copied)'
  BY DEF Abreast, Before
<1>3. (Loop => Before(stream, Len(stream) + 1) = 1..Position)'
  BY DEF Before
<1>4. (urgent # "none" => Oob(stream, mark))'
  BY Zenon DEF Oob
<1>5. QED
  BY <1>1, <1>2, <1>3, <1>4, Zenon DEF OrderInv

LEMMA InitOrder == Init => OrderInv
<1> SUFFICES ASSUME Init PROVE OrderInv
  OBVIOUS
<1>1. stream = <<>> /\ file = <<>> /\ copied = 0 /\ fpos = 0 /\ urgent = "none" /\ spc = "open"
  BY DEF Init
<1>2. InOrder(stream) /\ InOrder(file)
  BY <1>1 DEF InOrder
<1>3. Len(file) = 0 /\ Len(stream) = 0 /\ Before(stream, 0 + 1) = {} /\ 1..0 = {} /\ 0 + 1 = 1
  BY <1>1, BeforeFirst
<1>4. Abreast(file, Len(file), stream, copied)
  BY <1>1, Zenon DEF Abreast
<1>5. Before(stream, Len(stream) + 1) = 1..Position
  BY <1>1, <1>3 DEF Position
<1>6. QED
  BY <1>1, <1>2, <1>4, <1>5 DEF OrderInv

\* An urgent byte that is skipped is not a byte of the file.
LEMMA SkipMark ==
  ASSUME Types, OrderInv, AtMark
  PROVE  Abreast(file, Len(file), stream, copied + 1)
<1>1. copied + 1 \in Nat /\ Oob(stream, copied + 1)
  BY DEF Types, Net, OrderInv, AtMark
<1>2. Before(stream, copied + 1 + 1) = Before(stream, copied + 1)
  BY <1>1, BeforeOob
<1>3. QED
  BY <1>2 DEF OrderInv, Abreast

LEMMA BlockOrder ==
  ASSUME Types, OrderInv, SendBlock
  PROVE  OrderInv'
<1>1. /\ stream \in Seq(Values) /\ Len(stream) \in Nat /\ copied \in 0..Len(stream)
      /\ fpos \in Nat /\ bytesToSend \in Nat /\ fpos - bytesToSend \in Nat
      /\ mark \in 0..Len(stream) /\ (urgent # "none" => mark \in 1..Len(stream))
  BY DEF Types, Net, Source
<1>2. /\ stream' \in Seq(Values) /\ \A k \in 1..Len(stream) : stream'[k] = stream[k]
      /\ \/ stream' = stream /\ (sentBytes' = -1 \/ spc' = "crashed")
         \/ /\ Len(stream') = Len(stream) + bytesToSend
            /\ \A k \in 1..bytesToSend :
                 stream'[Len(stream) + k] = Data(fpos - bytesToSend + k)
      /\ spc' \in {"urgent", "crashed"} /\ spc = "send" /\ fpos' = fpos
  BY BlockStep
<1>3. UNCHANGED <<file, copied, urgent, mark>>
  BY DEF SendBlock
<1>4. Chunk(stream', 0, stream, 0, Len(stream))
  BY <1>1, <1>2 DEF Chunk
<1>5. \A k \in 1..(Len(stream) + 1) : Before(stream', k) = Before(stream, k)
  BY <1>1, <1>4, BeforePrefix
<1>6. Abreast(file', Len(file'), stream', copied')
  BY <1>1, <1>3, <1>5 DEF OrderInv, Abreast
<1>7. urgent' # "none" => Oob(stream', mark')
  BY <1>1, <1>2, <1>3 DEF OrderInv, Oob
<1>8. InOrder(stream') /\ (Loop' => Before(stream', Len(stream') + 1) = 1..Position')
  <2>1. CASE stream' = stream /\ (sentBytes' = -1 \/ spc' = "crashed")
    BY <1>2, <2>1 DEF OrderInv, Loop
  <2>2. CASE /\ Len(stream') = Len(stream) + bytesToSend
             /\ \A k \in 1..bytesToSend :
                  stream'[Len(stream) + k] = Data(fpos - bytesToSend + k)
    <3> DEFINE f == [k \in Nat |-> Data(k)]
               b == fpos - bytesToSend
    <3>1. \A k \in Nat : f[k] = Data(k)
      OBVIOUS
    <3> HIDE DEF f
    <3>2. /\ \A k \in Nat : ~Oob(f, k) /\ f[k].val = k
          /\ \A k \in Nat : Before(f, k + 1) = 1..k
      BY <3>1, BeforeSource
    <3>3. Before(stream, Len(stream) + 1) = 1..b
      BY <1>2 DEF OrderInv, Loop, Position
    <3>4. b \in Nat /\ b + bytesToSend = fpos
      BY <1>1
    <3>5. Chunk(stream', Len(stream), f, b, bytesToSend)
      BY <2>2, <3>1, <3>4 DEF Chunk
    <3> HIDE DEF b
    <3>6. Abreast(stream, Len(stream), f, b)
      BY <3>2, <3>3, <3>4 DEF Abreast
    <3>7. Extends(stream', stream, f, b, bytesToSend)
      BY <1>4, <2>2, <3>5 DEF Extends
    <3>8. Ordered(f, b, bytesToSend)
      <4> SUFFICES ASSUME NEW j \in 1..bytesToSend
                   PROVE  f[b + j].val > 0 /\ Before(f, b + j) = 1..(f[b + j].val - 1)
        BY DEF Ordered
      <4>1. b + j \in Nat /\ b + j > 0 /\ b + j - 1 \in Nat /\ b + j - 1 + 1 = b + j
        BY <1>1, <3>4
      <4>2. f[b + j].val = b + j
        BY <3>2, <4>1
      <4>3. Before(f, b + j - 1 + 1) = 1..(b + j - 1)
        BY <3>2, <4>1
      <4>4. QED
        BY <4>1, <4>2, <4>3
    <3>9. InOrder(stream') /\ Abreast(stream', Len(stream'), f, b + bytesToSend)
      <4>1. InOrder(stream)
        BY DEF OrderInv
      <4>2. QED
        BY <1>1, <1>2, <3>4, <3>6, <3>7, <3>8, <4>1, InOrderMore, Zenon
    <3>10. Before(stream', Len(stream') + 1) = 1..fpos
      BY <1>1, <3>2, <3>4, <3>9 DEF Abreast
    <3>11. QED
      BY <1>2, <3>9, <3>10 DEF Position
  <2>3. QED
    BY <1>2, <2>1, <2>2
<1>9. QED
  <2>1. InOrder(file')
    BY <1>3, Zenon DEF OrderInv
  <2>2. QED
    BY <1>6, <1>7, <1>8, <2>1, NewOrder, Zenon

LEMMA UrgentOrder ==
  ASSUME Types, OrderInv, SendUrgent
  PROVE  OrderInv'
<1>1. /\ stream \in Seq(Values) /\ Len(stream) \in Nat /\ copied \in 0..Len(stream)
      /\ percent \in Nat /\ mark \in 0..Len(stream) /\ (urgent # "none" => mark \in 1..Len(stream))
  BY DEF Types, Net, Source
<1>2. /\ stream' \in Seq(Values) /\ \A k \in 1..Len(stream) : stream'[k] = stream[k]
      /\ \/ stream' = stream
         \/ Len(stream') = Len(stream) + 1 /\ stream'[Len(stream) + 1] = Urgent(percent)
      /\ spc = "urgent" /\ spc' \in {"key", "read", "crashed"} /\ (spc' = "read" => sentBytes # -1)
      /\ fpos' = fpos
  BY UrgentStep
<1>3. UNCHANGED <<file, copied, urgent, mark>>
  BY DEF SendUrgent
<1>4. Chunk(stream', 0, stream, 0, Len(stream))
  BY <1>1, <1>2 DEF Chunk
<1>5. \A k \in 1..(Len(stream) + 1) : Before(stream', k) = Before(stream, k)
  BY <1>1, <1>4, BeforePrefix
<1>6. Abreast(file', Len(file'), stream', copied')
  BY <1>1, <1>3, <1>5 DEF OrderInv, Abreast
<1>7. urgent' # "none" => Oob(stream', mark')
  BY <1>1, <1>2, <1>3 DEF OrderInv, Oob
<1>8. /\ InOrder(stream')
      /\ Before(stream', Len(stream') + 1) = Before(stream, Len(stream) + 1)
  <2>1. CASE stream' = stream
    BY <2>1 DEF OrderInv
  <2>2. CASE Len(stream') = Len(stream) + 1 /\ stream'[Len(stream) + 1] = Urgent(percent)
    <3>1. Oob(stream', Len(stream) + 1)
      <4>1. Urgent(percent).oob = TRUE
        BY <1>1, Named
      <4>2. QED
        BY <2>2, <4>1, Zenon DEF Oob
    <3>2. Abreast(stream, Len(stream), stream', Len(stream))
      BY <1>1, <1>5 DEF Abreast
    <3>3. Extends(stream', stream, stream', Len(stream), 1)
      BY <1>4, <2>2 DEF Extends, Chunk
    <3>4. Ordered(stream', Len(stream), 1)
      BY <3>1 DEF Ordered
    <3>5. InOrder(stream') /\ Abreast(stream', Len(stream'), stream', Len(stream) + 1)
      <4>1. InOrder(stream) /\ 1 \in Nat
        BY DEF OrderInv
      <4>2. QED
        BY <1>1, <1>2, <3>2, <3>3, <3>4, <4>1, InOrderMore, Zenon
    <3>6. Before(stream', Len(stream) + 1 + 1) = Before(stream', Len(stream) + 1)
      BY <1>1, <3>1, BeforeOob
    <3>7. QED
      BY <1>1, <1>5, <2>2, <3>5, <3>6
  <2>3. QED
    BY <1>2, <2>1, <2>2
<1>9. Loop' => Before(stream', Len(stream') + 1) = 1..Position'
  BY <1>2, <1>8 DEF OrderInv, Loop, Position
<1>10. QED
  <2>1. InOrder(file')
    BY <1>3, Zenon DEF OrderInv
  <2>2. QED
    BY <1>6, <1>7, <1>8, <1>9, <2>1, NewOrder, Zenon

LEMMA RecvOrder ==
  ASSUME Types, OrderInv, RecvData
  PROVE  OrderInv'
<1>1. /\ stream \in Seq(Values) /\ Len(stream) \in Nat /\ copied \in Nat
      /\ arrived \in Nat /\ mark \in Nat /\ file \in Seq(Values) /\ Len(file) \in Nat
  BY DEF Types, Net, Dest
<1>2. /\ Start \in Nat /\ Got \in 1..BUFFSIZE /\ Start + Got =< Len(stream)
      /\ file' \in Seq(Values) /\ Len(file') = Len(file) + Got
      /\ \A k \in 1..Len(file) : file'[k] = file[k]
      /\ \A k \in 1..Got : file'[Len(file) + k] = stream[Start + k]
      /\ copied' = Start + Got /\ urgent' = IF AtMark THEN "none" ELSE urgent
  BY <1>1, RecvStep
<1>3. UNCHANGED <<stream, mark, spc, fpos, bytesToSend, sentBytes>>
  BY DEF RecvData
<1> DEFINE a == Start
           n == Got
<1>4. a \in Nat /\ n \in Nat /\ a + n =< Len(stream) /\ copied' = a + n
  BY <1>2
<1>5. Abreast(file, Len(file), stream, a)
  <2>1. CASE AtMark
    BY <2>1, SkipMark DEF Start
  <2>2. CASE ~AtMark
    BY <2>2 DEF Start, OrderInv
  <2>3. QED
    BY <2>1, <2>2
<1>6. Extends(file', file, stream, a, n)
  <2>1. Chunk(file', 0, file, 0, Len(file))
    BY <1>1, <1>2 DEF Chunk
  <2>2. Chunk(file', Len(file), stream, a, n)
    BY <1>2, Zenon DEF Chunk
  <2>3. QED
    BY <1>2, <2>1, <2>2 DEF Extends
<1> HIDE DEF a, n
<1>7. Ordered(stream, a, n)
  <2> SUFFICES ASSUME NEW j \in 1..n, ~Oob(stream, a + j)
               PROVE  stream[a + j].val > 0 /\ Before(stream, a + j) = 1..(stream[a + j].val - 1)
    BY DEF Ordered
  <2>1. a + j \in 1..Len(stream)
    BY <1>1, <1>4
  <2>2. QED
    BY <2>1 DEF OrderInv, InOrder
<1>8. InOrder(file') /\ Abreast(file', Len(file'), stream, a + n)
  <2>1. InOrder(file)
    BY DEF OrderInv
  <2>2. QED
    BY <1>1, <1>2, <1>4, <1>5, <1>6, <1>7, <2>1, InOrderMore, Zenon
<1>9. InOrder(stream') /\ Abreast(file', Len(file'), stream', copied')
  BY <1>3, <1>4, <1>8 DEF OrderInv
<1>10. Loop' => Before(stream', Len(stream') + 1) = 1..Position'
  BY <1>3 DEF OrderInv, Loop, Position
<1>11. urgent' # "none" => Oob(stream', mark')
  BY <1>2, <1>3 DEF OrderInv
<1>12. QED
  BY <1>8, <1>9, <1>10, <1>11, NewOrder, Zenon

LEMMA ArriveOrder ==
  ASSUME Types, OrderInv, Arrive
  PROVE  OrderInv'
<1>1. UNCHANGED <<stream, file, spc, fpos, bytesToSend, sentBytes>>
  BY DEF Arrive
<1>2. \/ /\ stream[arrived + 1].oob /\ mark' = arrived + 1
         /\ copied' = IF AtMark THEN copied + 1 ELSE copied
      \/ UNCHANGED <<mark, urgent, copied>>
  BY Zenon DEF Arrive
<1>3. Abreast(file', Len(file'), stream', copied')
  <2>1. Abreast(file, Len(file), stream, copied)
    BY DEF OrderInv
  <2>2. AtMark => Abreast(file, Len(file), stream, copied + 1)
    BY SkipMark
  <2>3. copied' = copied \/ (AtMark /\ copied' = copied + 1)
    BY <1>2
  <2>4. QED
    BY <1>1, <2>1, <2>2, <2>3
<1>4. urgent' # "none" => Oob(stream', mark')
  <2>1. urgent # "none" => Oob(stream, mark)
    BY DEF OrderInv
  <2>2. QED
    BY <1>1, <1>2, <2>1, Zenon DEF Oob
<1>5. InOrder(stream') /\ InOrder(file')
  BY <1>1 DEF OrderInv
<1>6. Loop' => Before(stream', Len(stream') + 1) = 1..Position'
  BY <1>1 DEF OrderInv, Loop, Position
<1>7. QED
  BY <1>3, <1>4, <1>5, <1>6, NewOrder, Zenon

\* Reading a block does not give it to the connection.
LEMMA LoopStep ==
  ASSUME Types, OpenSource \/ Read
  PROVE  Loop' => Loop /\ Position' = Position
<1>1. CASE OpenSource
  <2>1. UNCHANGED <<fpos, bytesToSend, sentBytes>> /\ spc = "open" /\ spc' \in {"read", "key"}
    BY <1>1, Zenon DEF OpenSource
  <2>2. QED
    BY <2>1 DEF Loop, Position
<1>2. CASE Read
  <2>1. spc = "read" /\ spc' \in {"send", "crashed"} /\ fpos' = fpos + bytesToSend'
    BY <1>2 DEF Read
  <2>2. fpos \in Nat /\ bytesToSend' \in Nat
    <3>1. Source'
      BY <1>2, StepSource DEF Types, Next, Sender
    <3>2. QED
      BY <3>1 DEF Types, Source
  <2>3. Loop /\ Position = fpos
    BY <2>1 DEF Loop, Position
  <2>4. Loop' => spc' = "send"
    BY <2>1 DEF Loop
  <2>5. spc' = "send" => Position' = fpos' - bytesToSend'
    BY DEF Position
  <2>6. fpos' - bytesToSend' = fpos
    <3>1. \A a, b \in Nat : (a + b) - b = a
      OBVIOUS
    <3>2. QED
      BY <2>1, <2>2, <3>1, Zenon
  <2>7. QED
    BY <2>3, <2>4, <2>5, <2>6, Zenon
<1>3. QED
  BY <1>1, <1>2

LEMMA StepOrder == Types /\ OrderInv /\ [Next]_vars => OrderInv'
<1>0. SUFFICES ASSUME Types, OrderInv, [Next]_vars PROVE OrderInv'
  OBVIOUS
<1>1. /\ InOrder(stream) /\ InOrder(file) /\ Abreast(file, Len(file), stream, copied)
      /\ Loop => Before(stream, Len(stream) + 1) = 1..Position
      /\ urgent # "none" => Oob(stream, mark)
  BY <1>0, Zenon DEF OrderInv
<1>2. ASSUME UNCHANGED <<stream, file, copied, mark>>,
             urgent' # "none" => urgent # "none",
             Loop' => Loop /\ Position' = Position
      PROVE  OrderInv'
  <2>1. /\ InOrder(stream') /\ InOrder(file') /\ Abreast(file', Len(file'), stream', copied')
        /\ urgent' # "none" => Oob(stream', mark')
    BY <1>1, <1>2
  <2>2. Loop' => Before(stream', Len(stream') + 1) = 1..Position'
    BY <1>1, <1>2
  <2>3. QED
    BY <2>1, <2>2, NewOrder, Zenon
<1>3. CASE SendBlock
  BY <1>0, <1>3, BlockOrder
<1>4. CASE SendUrgent
  BY <1>0, <1>4, UrgentOrder
<1>5. CASE RecvData
  BY <1>0, <1>5, RecvOrder
<1>6. CASE Arrive
  BY <1>0, <1>6, ArriveOrder
<1>7. CASE RecvSkip
  <2>1. /\ AtMark /\ copied' = copied + 1 /\ urgent' = "none"
        /\ UNCHANGED <<stream, file, spc, fpos, bytesToSend, sentBytes>>
    BY <1>7 DEF RecvSkip
  <2>2. Abreast(file', Len(file'), stream', copied') /\ InOrder(stream') /\ InOrder(file')
    BY <1>0, <1>1, <2>1, SkipMark
  <2>3. Loop' => Before(stream', Len(stream') + 1) = 1..Position'
    BY <1>1, <2>1 DEF Loop, Position
  <2>4. QED
    BY <2>1, <2>2, <2>3, NewOrder, Zenon
<1>8. CASE SigUrg
  <2>1. /\ UNCHANGED <<stream, file, copied, mark, spc, fpos, bytesToSend, sentBytes>>
        /\ urgent' # "none" => urgent # "none"
    BY <1>8 DEF SigUrg
  <2>2. QED
    BY <1>2, <2>1 DEF Loop, Position
<1>9. CASE OpenSource \/ Read
  <2>1. UNCHANGED <<stream, file, copied, mark, urgent>>
    BY <1>9 DEF OpenSource, Read
  <2>2. QED
    BY <1>0, <1>2, <1>9, <2>1, LoopStep
<1>10. CASE UNCHANGED <<stream, file, copied, mark, urgent, fpos, bytesToSend, sentBytes>>
            /\ (spc' = spc \/ spc' = "done")
  BY <1>2, <1>10 DEF Loop, Position
<1>11. QED
  <2>1. \/ SendBlock \/ SendUrgent \/ RecvData \/ Arrive \/ RecvSkip \/ SigUrg \/ OpenSource \/ Read
        \/ UNCHANGED <<stream, file, copied, mark, urgent, fpos, bytesToSend, sentBytes>>
           /\ (spc' = spc \/ spc' = "done")
    BY <1>0, Zenon
       DEF Next, vars, Main, Listen, Connect, Accept, Sender, Receiver, OpenDest, SetOwn, RecvEnd,
           RecvFails, Keys, SenderKey, ReceiverKey
  <2>2. QED
    BY <1>3, <1>4, <1>5, <1>6, <1>7, <1>8, <1>9, <1>10, <2>1

----------------------------------------------------------------------------
(* A sender that waits                                                     *)

\* PacedInv after a step.
LEMMA NewPaced ==
  ASSUME \A k \in 1..Len(file') : file'[k] = Data(k),
         NEW b, b = IF copied' < Len(stream') /\ Oob(stream', copied' + 1) THEN copied' + 1
                                                                          ELSE copied',
         Active' =>
           /\ \A m \in (copied' + 1)..Len(stream') : Oob(stream', m) =>
                m = copied' + 1 /\ (m > arrived' \/ (mark' = m /\ urgent' # "none"))
           /\ \A k \in (copied' + 1)..Len(stream') : ~Oob(stream', k) =>
                stream'[k] = Data(Len(file') + k - b)
           /\ Loop' => Position' = Len(file') + Len(stream') - b
  PROVE  PacedInv'
<1>1. Behind' = b
  BY Zenon DEF Behind, Oob
<1>2. Active' => OneUrgent'
  BY Zenon DEF OneUrgent, Oob
<1>3. Active' => Continued'
  BY <1>1, Zenon DEF Continued, Data, Oob
<1>4. \A k \in 1..Len(file') : file'[k] = Data(k)'
  BY Zenon DEF Data
<1>5. QED
  BY <1>2, <1>3, <1>4, Zenon DEF PacedInv

LEMMA InitPaced == Init => PacedInv
<1> SUFFICES ASSUME Init PROVE PacedInv
  OBVIOUS
<1>1. stream = <<>> /\ file = <<>> /\ copied = 0 /\ fpos = 0 /\ spc = "open"
  BY DEF Init
<1>2. Len(stream) = 0 /\ Len(file) = 0
  BY <1>1
<1>3. OneUrgent
  BY <1>1, <1>2 DEF OneUrgent
<1>4. Behind = 0 /\ Position = 0
  BY <1>1, <1>2 DEF Behind, Position
<1>5. Continued
  BY <1>1, <1>2, <1>4 DEF Continued
<1>6. QED
  BY <1>2, <1>3, <1>5 DEF PacedInv

\* A block that is sent continues what is under way.
LEMMA BlockPaced ==
  ASSUME Types, PacedInv, SendBlock
  PROVE  PacedInv'
<1>1. /\ stream \in Seq(Values) /\ Len(stream) \in Nat /\ copied \in 0..Len(stream)
      /\ fpos \in Nat /\ bytesToSend \in Nat /\ fpos - bytesToSend \in Nat /\ Len(file) \in Nat
  BY DEF Types, Net, Source, Dest
<1>2. /\ stream' \in Seq(Values) /\ \A k \in 1..Len(stream) : stream'[k] = stream[k]
      /\ \/ stream' = stream /\ (sentBytes' = -1 \/ spc' = "crashed")
         \/ /\ Len(stream') = Len(stream) + bytesToSend
            /\ \A k \in 1..bytesToSend :
                 stream'[Len(stream) + k] = Data(fpos - bytesToSend + k)
      /\ spc' \in {"urgent", "crashed"} /\ spc = "send" /\ fpos' = fpos
  BY BlockStep
<1>3. UNCHANGED <<file, arrived, copied, urgent, mark>> /\ (Active' => Active)
  BY DEF SendBlock, Active
<1>4. \A k \in 1..Len(file') : file'[k] = Data(k)
  BY <1>3 DEF PacedInv
<1>5. CASE stream' = stream /\ (sentBytes' = -1 \/ spc' = "crashed")
  <2>1. ~Loop'
    BY <1>2, <1>5 DEF Loop
  <2>2. Active' => /\ \A m \in (copied' + 1)..Len(stream') : Oob(stream', m) =>
                        m = copied' + 1 /\ (m > arrived' \/ (mark' = m /\ urgent' # "none"))
                   /\ \A k \in (copied' + 1)..Len(stream') : ~Oob(stream', k) =>
                        stream'[k] = Data(Len(file') + k - Behind)
    BY <1>3, <1>5 DEF PacedInv, OneUrgent, Continued
  <2>3. Behind = IF copied' < Len(stream') /\ Oob(stream', copied' + 1) THEN copied' + 1
                                                                       ELSE copied'
    BY <1>3, <1>5 DEF Behind
  <2>4. QED
    BY <1>4, <2>1, <2>2, <2>3, NewPaced, Zenon
<1>6. CASE /\ Len(stream') = Len(stream) + bytesToSend
           /\ \A k \in 1..bytesToSend :
                stream'[Len(stream) + k] = Data(fpos - bytesToSend + k)
  <2> DEFINE s == stream'
             n == Len(stream)
             x == fpos - bytesToSend
  <2>1. /\ n \in Nat /\ x \in Nat /\ Len(s) = n + bytesToSend /\ \A k \in 1..n : s[k] = stream[k]
        /\ \A j \in 1..bytesToSend : s[n + j] = Data(x + j)
    BY <1>1, <1>2, <1>6
  <2> HIDE DEF s, n, x
  <2>2. \A k \in 1..n : Oob(s, k) = Oob(stream, k)
    BY <2>1 DEF Oob
  <2>3. \A j \in 1..bytesToSend : ~Oob(s, n + j)
    <3> SUFFICES ASSUME NEW j \in 1..bytesToSend PROVE ~Oob(s, n + j)
      OBVIOUS
    <3>1. x + j \in Nat
      BY <1>1, <2>1
    <3>2. s[n + j].oob = FALSE
      BY <2>1, <3>1, Named
    <3>3. QED
      BY <3>2, Zenon DEF Oob
  <2>4. \A k \in 1..Len(s) : k =< n \/ (k - n \in 1..bytesToSend /\ n + (k - n) = k)
    BY <1>1, <2>1
  <2>5. Behind = IF copied < Len(s) /\ Oob(s, copied + 1) THEN copied + 1 ELSE copied
    <3>1. CASE copied < n
      <4>1. copied + 1 \in 1..n /\ copied < Len(s)
        BY <1>1, <2>1, <3>1
      <4>2. QED
        BY <2>2, <3>1, <4>1 DEF Behind, n
    <3>2. CASE copied = n
      <4>1. copied < Len(s) => ~Oob(s, copied + 1)
        BY <1>1, <2>1, <2>3, <3>2
      <4>2. Behind = copied
        BY <1>1, <3>2 DEF Behind, n
      <4>3. QED
        BY <4>1, <4>2
    <3>3. QED
      BY <1>1, <3>1, <3>2 DEF n
  <2>6. ASSUME Active
        PROVE  /\ \A m \in (copied + 1)..Len(s) : Oob(s, m) =>
                    m = copied + 1 /\ (m > arrived \/ (mark = m /\ urgent # "none"))
               /\ \A k \in (copied + 1)..Len(s) : ~Oob(s, k) => s[k] = Data(Len(file) + k - Behind)
               /\ fpos = Len(file) + Len(s) - Behind
    <3>1. OneUrgent /\ Continued
      BY <2>6 DEF PacedInv
    <3>2. x = Len(file) + n - Behind /\ Behind \in Nat
      BY <1>1, <1>2, <3>1 DEF Continued, Loop, Position, Behind, x, n
    <3>3. ASSUME NEW m \in (copied + 1)..Len(s), Oob(s, m)
          PROVE  m = copied + 1 /\ (m > arrived \/ (mark = m /\ urgent # "none"))
      <4>1. m \in 1..Len(s) /\ m =< n
        BY <1>1, <2>1, <2>3, <2>4, <3>3
      <4>2. m \in (copied + 1)..n /\ Oob(stream, m)
        BY <1>1, <2>2, <3>3, <4>1
      <4>3. QED
        BY <3>1, <4>2 DEF OneUrgent, n
    <3>4. ASSUME NEW k \in (copied + 1)..Len(s), ~Oob(s, k)
          PROVE  s[k] = Data(Len(file) + k - Behind)
      <4>1. CASE k =< n
        <5>1. k \in 1..n /\ k \in (copied + 1)..Len(stream)
          BY <1>1, <2>1, <4>1 DEF n
        <5>2. s[k] = stream[k] /\ ~Oob(stream, k)
          BY <2>1, <2>2, <3>4, <5>1
        <5>3. QED
          BY <3>1, <5>1, <5>2 DEF Continued
      <4>2. CASE k > n
        <5>1. k - n \in 1..bytesToSend /\ n + (k - n) = k
              /\ x + (k - n) = Len(file) + k - Behind
          BY <1>1, <2>1, <3>2, <4>2
        <5>2. s[n + (k - n)] = Data(x + (k - n))
          BY <2>1, <5>1
        <5>3. QED
          BY <5>1, <5>2
      <4>3. QED
        BY <1>1, <2>1, <4>1, <4>2
    <3>5. fpos = Len(file) + Len(s) - Behind
      BY <1>1, <2>1, <3>2 DEF x
    <3>6. QED
      BY <3>3, <3>4, <3>5
  <2>7. Loop' => Position' = fpos
    BY <1>2 DEF Position
  <2>8. QED
    BY <1>3, <1>4, <2>5, <2>6, <2>7, NewPaced DEF s
<1>7. QED
  BY <1>2, <1>5, <1>6

\* A step that takes nothing and sends nothing.
LEMMA SamePaced ==
  ASSUME PacedInv, UNCHANGED <<stream, file, copied>>, Active' => Active,
         Loop' => Loop /\ Position' = Position,
         Active' => \A m \in (copied + 1)..Len(stream) : Oob(stream, m) =>
                      m = copied + 1 /\ (m > arrived' \/ (mark' = m /\ urgent' # "none"))
  PROVE  PacedInv'
<1>1. \A k \in 1..Len(file') : file'[k] = Data(k)
  BY DEF PacedInv
<1>2. Behind = IF copied' < Len(stream') /\ Oob(stream', copied' + 1) THEN copied' + 1
                                                                     ELSE copied'
  BY DEF Behind
<1>3. ASSUME Active'
      PROVE  /\ \A m \in (copied' + 1)..Len(stream') : Oob(stream', m) =>
                  m = copied' + 1 /\ (m > arrived' \/ (mark' = m /\ urgent' # "none"))
             /\ \A k \in (copied' + 1)..Len(stream') : ~Oob(stream', k) =>
                  stream'[k] = Data(Len(file') + k - Behind)
             /\ Loop' => Position' = Len(file') + Len(stream') - Behind
  <2>1. Continued
    BY <1>3, Zenon DEF PacedInv
  <2>2. \A m \in (copied' + 1)..Len(stream') : Oob(stream', m) =>
          m = copied' + 1 /\ (m > arrived' \/ (mark' = m /\ urgent' # "none"))
    BY <1>3
  <2>3. \A k \in (copied' + 1)..Len(stream') : ~Oob(stream', k) =>
          stream'[k] = Data(Len(file') + k - Behind)
    BY <2>1 DEF Continued
  <2>4. Loop' => Position' = Len(file') + Len(stream') - Behind
    BY <2>1 DEF Continued
  <2>5. QED
    BY <2>2, <2>3, <2>4
<1>4. QED
  BY <1>1, <1>2, <1>3, NewPaced, Zenon

\* The pause: when the urgent byte is sent, the receiver has taken all that was sent.
LEMMA UrgentPaced ==
  ASSUME Types, paced, PacedInv, SendUrgent
  PROVE  PacedInv'
<1>1. /\ stream \in Seq(Values) /\ Len(stream) \in Nat /\ copied \in 0..arrived
      /\ arrived \in 0..Len(stream) /\ fpos \in Nat /\ Len(file) \in Nat
      /\ percent \in Nat /\ stream' \in Seq(Values)
  BY UrgentStep DEF Types, Net, Source, Dest
<1>2. /\ \A k \in 1..Len(stream) : stream'[k] = stream[k]
      /\ \/ stream' = stream
         \/ /\ conn = "up" /\ Len(stream') = Len(stream) + 1
            /\ stream'[Len(stream) + 1] = Urgent(percent)
      /\ spc = "urgent" /\ spc' \in {"key", "read", "crashed"} /\ (spc' = "read" => sentBytes # -1)
      /\ UNCHANGED <<fpos, bytesToSend, sentBytes>>
  BY UrgentStep, Zenon
<1>3. UNCHANGED <<file, arrived, copied, mark, urgent, rpc>> /\ (Active' => Active)
  BY DEF SendUrgent, Active
<1>4. Loop' => Loop /\ Position' = fpos /\ Position = fpos
  BY <1>2 DEF Loop, Position
<1>5. CASE stream' = stream
  <2>1. Active' => \A m \in (copied + 1)..Len(stream) : Oob(stream, m) =>
          m = copied + 1 /\ (m > arrived' \/ (mark' = m /\ urgent' # "none"))
    BY <1>3 DEF PacedInv, OneUrgent
  <2>2. QED
    BY <1>3, <1>4, <1>5, <2>1, SamePaced
<1>6. CASE /\ conn = "up" /\ Len(stream') = Len(stream) + 1
           /\ stream'[Len(stream) + 1] = Urgent(percent)
  <2> DEFINE s == stream'
             n == Len(stream)
             b == IF copied < Len(s) /\ Oob(s, copied + 1) THEN copied + 1 ELSE copied
  <2>1. n \in Nat /\ Len(s) = n + 1 /\ Oob(s, n + 1)
    <3>1. Urgent(percent).oob = TRUE
      BY <1>1, Named
    <3>2. Oob(s, n + 1)
      BY <1>6, <3>1, Zenon DEF Oob
    <3>3. QED
      BY <1>1, <1>6, <3>2
  <2>2. Active => copied = n
    BY <1>6 DEF SendUrgent, Wait, Active
  <2> HIDE DEF s, n
  <2>3. Active => b = n + 1
    BY <2>1, <2>2
  <2>4. Active => (Loop' => Position' = Len(file) + Len(s) - b)
    <3>1. ASSUME Active, Loop' PROVE fpos = Len(file) + Len(s) - b
      <4>1. Continued
        BY <3>1, Zenon DEF PacedInv
      <4>2. Behind = copied
        BY <1>1, <2>2, <3>1 DEF Behind, n
      <4>3. fpos = Len(file) + n - copied
        BY <1>4, <3>1, <4>1, <4>2 DEF Continued, n
      <4>4. QED
        BY <1>1, <2>1, <2>2, <2>3, <3>1, <4>3
    <3>2. QED
      BY <1>4, <3>1
  <2>5. Active => \A m \in (copied + 1)..Len(s) :
                    m = copied + 1 /\ m = n + 1 /\ (m > arrived \/ (mark = m /\ urgent # "none"))
    BY <1>1, <2>1, <2>2 DEF n
  <2>6. Active => \A k \in (copied + 1)..Len(s) : ~Oob(s, k) => s[k] = Data(Len(file) + k - b)
    BY <2>1, <2>5, Zenon
  <2>7. \A k \in 1..Len(file') : file'[k] = Data(k)
    BY <1>3 DEF PacedInv
  <2>8. b = IF copied' < Len(stream') /\ Oob(stream', copied' + 1) THEN copied' + 1 ELSE copied'
    BY <1>3 DEF s
  <2> HIDE DEF b
  <2>9. QED
    BY <1>3, <2>4, <2>5, <2>6, <2>7, <2>8, NewPaced DEF s
<1>7. QED
  BY <1>2, <1>5, <1>6

\* A recv() that begins behind an urgent byte, or at data.
LEMMA AtMarkPaced ==
  ASSUME Types, OrderInv, AtMark
  PROVE  Behind = copied + 1 /\ copied < arrived /\ arrived =< Len(stream)
<1>1. /\ arrived \in 0..Len(stream) /\ copied \in 0..arrived /\ mark \in 0..arrived
      /\ Len(stream) \in Nat
  BY DEF Types, Net
<1>2. Oob(stream, copied + 1) /\ mark = copied + 1
  BY DEF OrderInv, AtMark
<1>3. QED
  BY <1>1, <1>2 DEF Behind

LEMMA RecvPaced ==
  ASSUME Types, OrderInv, PacedInv, RecvData
  PROVE  PacedInv'
<1>1. /\ arrived \in 0..Len(stream) /\ copied \in 0..arrived /\ Len(stream) \in Nat
      /\ Len(file) \in Nat
  BY DEF Types, Net, Dest
<1>2. /\ Start \in Nat /\ Got \in 1..BUFFSIZE /\ Start + Got =< arrived
      /\ Len(file') = Len(file) + Got
      /\ \A k \in 1..Len(file) : file'[k] = file[k]
      /\ \A k \in 1..Got : file'[Len(file) + k] = stream[Start + k]
      /\ copied' = Start + Got
  BY RecvStep
<1>3. UNCHANGED <<stream, arrived, spc, fpos, bytesToSend, sentBytes>> /\ Active
  BY DEF RecvData, Active
<1>4. OneUrgent /\ Continued /\ \A k \in 1..Len(file) : file[k] = Data(k)
  BY <1>3, Zenon DEF PacedInv
<1>5. Start = Behind /\ Start \in {copied, copied + 1}
  <2>1. CASE AtMark
    BY <2>1, AtMarkPaced DEF Start
  <2>2. CASE ~AtMark
    <3>1. Start = copied /\ copied + 1 =< arrived
      BY <1>1, <1>2, <2>2 DEF Start
    <3>2. ~Oob(stream, copied + 1)
      <4>1. copied + 1 \in (copied + 1)..Len(stream) /\ ~(copied + 1 > arrived)
        BY <1>1, <3>1
      <4>2. ~(mark = copied + 1 /\ urgent # "none")
        BY <2>2 DEF AtMark
      <4>3. QED
        BY <1>4, <4>1, <4>2 DEF OneUrgent
    <3>3. QED
      BY <1>1, <3>1, <3>2 DEF Behind
  <2>3. QED
    BY <2>1, <2>2
<1> DEFINE a == Start
           n == Got
<1>6. /\ a \in Nat /\ n \in Nat /\ n > 0 /\ a + n =< arrived /\ copied' = a + n /\ a = Behind
      /\ a >= copied /\ Len(file') = Len(file) + n
      /\ \A k \in 1..n : file'[Len(file) + k] = stream[a + k]
  BY <1>1, <1>2, <1>5
<1> HIDE DEF a, n
<1>7. \A k \in (a + 1)..Len(stream) : ~Oob(stream, k)
  <2> SUFFICES ASSUME NEW k \in (a + 1)..Len(stream), Oob(stream, k) PROVE FALSE
    OBVIOUS
  <2>1. k \in (copied + 1)..Len(stream)
    BY <1>1, <1>6
  <2>2. k = copied + 1
    BY <1>4, <2>1 DEF OneUrgent
  <2>3. a = copied /\ copied < Len(stream) /\ Oob(stream, copied + 1)
    BY <1>1, <1>6, <2>2
  <2>4. QED
    BY <1>1, <1>6, <2>3 DEF Behind
<1>8. \A k \in (a + 1)..Len(stream) : stream[k] = Data(Len(file) + k - a)
  <2> SUFFICES ASSUME NEW k \in (a + 1)..Len(stream) PROVE stream[k] = Data(Len(file) + k - a)
    OBVIOUS
  <2>1. k \in (copied + 1)..Len(stream) /\ ~Oob(stream, k)
    BY <1>1, <1>6, <1>7
  <2>2. QED
    BY <1>4, <1>6, <2>1 DEF Continued
<1>9. \A k \in 1..Len(file') : file'[k] = Data(k)
  <2> SUFFICES ASSUME NEW k \in 1..Len(file') PROVE file'[k] = Data(k)
    OBVIOUS
  <2>1. CASE k =< Len(file)
    BY <1>1, <1>2, <1>4, <2>1
  <2>2. CASE k > Len(file)
    <3>1. /\ k - Len(file) \in 1..n /\ Len(file) + (k - Len(file)) = k
          /\ a + (k - Len(file)) \in (a + 1)..Len(stream)
          /\ Len(file) + (a + (k - Len(file))) - a = k
      BY <1>1, <1>6, <2>2
    <3>2. file'[Len(file) + (k - Len(file))] = stream[a + (k - Len(file))]
      BY <1>6, <3>1
    <3>3. stream[a + (k - Len(file))] = Data(Len(file) + (a + (k - Len(file))) - a)
      BY <1>8, <3>1
    <3>4. QED
      BY <3>1, <3>2, <3>3
  <2>3. QED
    BY <1>1, <1>6, <2>1, <2>2
<1> DEFINE b == a + n
<1>10. b = IF copied' < Len(stream') /\ Oob(stream', copied' + 1) THEN copied' + 1 ELSE copied'
  <2>1. a + n < Len(stream) => ~Oob(stream, a + n + 1)
    BY <1>1, <1>6, <1>7
  <2>2. QED
    BY <1>3, <1>6, <2>1
<1>11. \A m \in (copied' + 1)..Len(stream') :
         ~Oob(stream', m) /\ stream'[m] = Data(Len(file') + m - b)
  <2> SUFFICES ASSUME NEW m \in (a + n + 1)..Len(stream)
               PROVE  ~Oob(stream, m) /\ stream[m] = Data(Len(file') + m - b)
    BY <1>3, <1>6
  <2>1. m \in (a + 1)..Len(stream) /\ Len(file') + m - b = Len(file) + m - a
    BY <1>1, <1>6
  <2>2. QED
    BY <1>7, <1>8, <2>1
<1>12. Loop' => Position' = Len(file') + Len(stream') - b
  <2>1. Loop' => Loop /\ Position' = Position
    BY <1>3 DEF Loop, Position
  <2>2. Loop => Position = Len(file) + Len(stream) - a
    BY <1>4, <1>6 DEF Continued
  <2>3. Len(file') + Len(stream') - b = Len(file) + Len(stream) - a
    BY <1>1, <1>3, <1>6
  <2>4. QED
    BY <2>1, <2>2, <2>3
<1> HIDE DEF b
<1>13. QED
  BY <1>9, <1>10, <1>11, <1>12, NewPaced

LEMMA SkipPaced ==
  ASSUME Types, OrderInv, PacedInv, RecvSkip
  PROVE  PacedInv'
<1>1. /\ AtMark /\ copied' = copied + 1 /\ Active /\ copied \in Nat /\ Len(stream) \in Nat
      /\ UNCHANGED <<stream, file, spc, fpos, bytesToSend, sentBytes>>
  BY DEF RecvSkip, Active, Types, Net
<1>2. OneUrgent /\ Continued /\ \A k \in 1..Len(file) : file[k] = Data(k)
  BY <1>1, Zenon DEF PacedInv
<1>3. Behind = copied'
  BY <1>1, AtMarkPaced
<1>4. \A m \in (copied' + 1)..Len(stream) : ~Oob(stream, m) /\ m \in (copied + 1)..Len(stream)
  BY <1>1, <1>2 DEF OneUrgent
<1>5. copied' = IF copied' < Len(stream') /\ Oob(stream', copied' + 1) THEN copied' + 1
                                                                       ELSE copied'
  <2>1. copied' < Len(stream) => copied' + 1 \in (copied' + 1)..Len(stream)
    BY <1>1
  <2>2. QED
    BY <1>1, <1>4, <2>1
<1>6. /\ \A k \in (copied' + 1)..Len(stream') : ~Oob(stream', k) =>
           stream'[k] = Data(Len(file') + k - copied')
      /\ Loop' => Position' = Len(file') + Len(stream') - copied'
  BY <1>1, <1>2, <1>3, <1>4 DEF Continued, Loop, Position
<1>7. \A k \in 1..Len(file') : file'[k] = Data(k)
  BY <1>1, <1>2
<1>8. \A m \in (copied' + 1)..Len(stream') : ~Oob(stream', m)
  BY <1>1, <1>4
<1> DEFINE b == copied'
<1>9. /\ \A m \in (copied' + 1)..Len(stream') : ~Oob(stream', m)
      /\ \A k \in (copied' + 1)..Len(stream') : ~Oob(stream', k) =>
           stream'[k] = Data(Len(file') + k - b)
      /\ Loop' => Position' = Len(file') + Len(stream') - b
      /\ b = IF copied' < Len(stream') /\ Oob(stream', copied' + 1) THEN copied' + 1 ELSE copied'
  BY <1>5, <1>6, <1>8, Zenon
<1> HIDE DEF b
<1>10. QED
  BY <1>7, <1>9, NewPaced, Zenon

\* An urgent byte that arrives is the next the receiver comes to.
LEMMA ArrivePaced ==
  ASSUME Types, PacedInv, Arrive
  PROVE  PacedInv'
<1>1. /\ arrived \in 0..Len(stream) /\ copied \in 0..arrived /\ mark \in 0..arrived
      /\ Len(stream) \in Nat
  BY DEF Types, Net
<1>2. /\ UNCHANGED <<stream, file, spc, fpos, bytesToSend, sentBytes, rpc>>
      /\ arrived < Len(stream) /\ arrived' = arrived + 1
  BY DEF Arrive
<1>3. (Active' => Active) /\ (Loop' => Loop /\ Position' = Position)
  BY <1>2 DEF Active, Loop, Position
<1>4. CASE ~Active
  <2>1. ~Active' /\ \A k \in 1..Len(file') : file'[k] = Data(k)
    BY <1>2, <1>3, <1>4 DEF PacedInv
  <2>2. QED
    BY <2>1, Zenon DEF PacedInv, Data
<1>5. CASE Active
  <2>1. OneUrgent
    BY <1>5, Zenon DEF PacedInv
  <2>2. CASE stream[arrived + 1].oob
    <3>1. Oob(stream, arrived + 1) /\ mark' = arrived + 1 /\ urgent' = "valid"
          /\ copied' = IF AtMark THEN copied + 1 ELSE copied
      BY <2>2, Zenon DEF Arrive, Oob
    <3>2. arrived = copied
      <4>1. arrived + 1 \in (copied + 1)..Len(stream)
        BY <1>1, <1>2
      <4>2. arrived + 1 = copied + 1
        BY <2>1, <3>1, <4>1, Zenon DEF OneUrgent
      <4>3. QED
        BY <1>1, <4>2
    <3>3. copied' = copied
      BY <1>1, <3>1, <3>2 DEF AtMark
    <3>4. \A m \in (copied + 1)..Len(stream) : Oob(stream, m) => m = copied + 1 /\ mark' = m
      BY <2>1, <3>1, <3>2 DEF OneUrgent
    <3>5. QED
      BY <1>2, <1>3, <3>1, <3>3, <3>4, SamePaced
  <2>3. CASE ~stream[arrived + 1].oob
    <3>1. ~Oob(stream, arrived + 1) /\ UNCHANGED <<mark, urgent, copied>>
      BY <2>3, Zenon DEF Arrive, Oob
    <3>2. ASSUME NEW m \in (copied + 1)..Len(stream), Oob(stream, m)
          PROVE  m = copied + 1 /\ (m > arrived' \/ (mark' = m /\ urgent' # "none"))
      <4>1. m = copied + 1 /\ (m > arrived \/ (mark = m /\ urgent # "none"))
        BY <2>1, <3>2 DEF OneUrgent
      <4>2. m # arrived + 1
        BY <3>1, <3>2
      <4>3. QED
        BY <1>1, <1>2, <3>1, <4>1, <4>2
    <3>3. QED
      BY <1>2, <1>3, <3>1, <3>2, SamePaced
  <2>4. QED
    BY <2>2, <2>3
<1>6. QED
  BY <1>4, <1>5

LEMMA StepPaced ==
  ASSUME Types, OrderInv, paced, PacedInv, [Next]_vars
  PROVE  PacedInv'
<1>1. ASSUME UNCHANGED <<stream, file, copied, arrived, mark>>, Active' => Active,
             urgent # "none" => urgent' # "none",
             Loop' => Loop /\ Position' = Position
      PROVE  PacedInv'
  <2>1. Active' => \A m \in (copied + 1)..Len(stream) : Oob(stream, m) =>
          m = copied + 1 /\ (m > arrived' \/ (mark' = m /\ urgent' # "none"))
    BY <1>1 DEF PacedInv, OneUrgent
  <2>2. QED
    BY <1>1, <2>1, SamePaced
<1>2. CASE SendBlock
  BY <1>2, BlockPaced
<1>3. CASE SendUrgent
  BY <1>3, UrgentPaced
<1>4. CASE RecvData
  BY <1>4, RecvPaced
<1>5. CASE RecvSkip
  BY <1>5, SkipPaced
<1>6. CASE Arrive
  BY <1>6, ArrivePaced
<1>7. CASE SigUrg
  <2>1. /\ UNCHANGED <<stream, file, copied, arrived, mark, rpc, spc, fpos, bytesToSend, sentBytes>>
        /\ urgent # "none" => urgent' # "none"
    BY <1>7 DEF SigUrg
  <2>2. QED
    BY <1>1, <2>1 DEF Active, Loop, Position
<1>8. CASE OpenSource \/ Read
  <2>1. /\ UNCHANGED <<stream, file, copied, arrived, mark, urgent, rpc>>
        /\ Loop' => Loop /\ Position' = Position
    BY <1>8, LoopStep DEF OpenSource, Read
  <2>2. QED
    BY <1>1, <2>1 DEF Active
<1>9. CASE /\ UNCHANGED <<stream, file, copied, arrived, mark, urgent, fpos, bytesToSend, sentBytes>>
           /\ spc' \in {spc, "done"} /\ (rpc' = rpc \/ rpc \in {"open", "setown", "recv", "key"})
           /\ (rpc = "key" => rpc' \in {"key", "done"})
  BY <1>1, <1>9 DEF Active, Loop, Position
<1>10. \/ SendBlock \/ SendUrgent \/ RecvData \/ Arrive \/ RecvSkip \/ SigUrg \/ OpenSource \/ Read
       \/ /\ UNCHANGED <<stream, file, copied, arrived, mark, urgent, fpos, bytesToSend, sentBytes>>
          /\ spc' \in {spc, "done"} /\ (rpc' = rpc \/ rpc \in {"open", "setown", "recv", "key"})
          /\ (rpc = "key" => rpc' \in {"key", "done"})
  <2>1. \/ SendBlock \/ SendUrgent \/ RecvData \/ Arrive \/ RecvSkip \/ SigUrg \/ OpenSource \/ Read
        \/ UNCHANGED vars \/ (\E p \in Role : Main(p)) \/ SenderKey
        \/ OpenDest \/ SetOwn \/ RecvEnd \/ RecvFails \/ ReceiverKey
    BY Zenon DEF Next, Sender, Receiver, Keys
  <2>2. UNCHANGED vars \/ (\E p \in Role : Main(p)) \/ SenderKey =>
          /\ UNCHANGED <<stream, file, copied, arrived, mark, urgent, fpos, bytesToSend, sentBytes, rpc>>
          /\ spc' \in {spc, "done"}
    BY DEF vars, Main, Listen, Connect, Accept, SenderKey
  <2>3. OpenDest \/ SetOwn \/ RecvEnd \/ RecvFails \/ ReceiverKey =>
          /\ UNCHANGED <<stream, file, copied, arrived, mark, urgent, fpos, bytesToSend, sentBytes, spc>>
          /\ rpc \in {"open", "setown", "recv", "key"} /\ (rpc = "key" => rpc' \in {"key", "done"})
    BY DEF OpenDest, SetOwn, RecvEnd, RecvFails, ReceiverKey
  <2>4. QED
    BY <2>1, <2>2, <2>3
<1>11. QED
  BY <1>2, <1>3, <1>4, <1>5, <1>6, <1>7, <1>8, <1>9, <1>10

----------------------------------------------------------------------------
(* The theorems                                                            *)

Booleans == there \in [Role -> BOOLEAN] /\ paced \in BOOLEAN /\ fin \in BOOLEAN

\* The files and the pause do not change.
LEMMA StepBooleans == Booleans /\ [Next]_vars => Booleans'
<1> SUFFICES ASSUME Booleans, [Next]_vars PROVE Booleans'
  OBVIOUS
<1>1. UNCHANGED <<there, paced>>
  BY Zenon
     DEF Next, vars, Main, Listen, Connect, Accept, Sender, OpenSource, Read, SendBlock, SendUrgent,
         Receiver, OpenDest, SetOwn, RecvData, RecvSkip, RecvEnd, RecvFails, SigUrg, Keys, SenderKey,
         ReceiverKey, Arrive
<1>2. fin' = fin \/ fin' = TRUE
  BY Zenon
     DEF Next, vars, Main, Listen, Connect, Accept, Sender, OpenSource, Read, SendBlock, SendUrgent,
         Killed, Receiver, OpenDest, SetOwn, RecvData, RecvSkip, RecvEnd, RecvFails, SigUrg, Keys,
         SenderKey, ReceiverKey, Arrive
<1>3. QED
  BY <1>1, <1>2, Zenon DEF Booleans

LEMMA Invariance == Spec => [](Booleans /\ Inv)
<1>1. Init => Booleans /\ Inv
  <2>1. Init => Booleans
    BY Zenon DEF Init, Booleans
  <2>2. QED
    BY <2>1, InitTypes, InitOrder, InitPaced, Zenon DEF Inv
<1>2. Booleans /\ Inv /\ [Next]_vars => (Booleans /\ Inv)'
  <2> SUFFICES ASSUME Booleans, Inv, [Next]_vars PROVE (Booleans /\ Inv)'
    OBVIOUS
  <2>1. Booleans' /\ Types' /\ OrderInv'
    BY StepBooleans, StepTypes, StepOrder, Zenon DEF Inv
  <2>2. paced' => PacedInv'
    <3>1. paced' = paced
      BY Zenon
         DEF Next, vars, Main, Listen, Connect, Accept, Sender, OpenSource, Read, SendBlock,
             SendUrgent, Receiver, OpenDest, SetOwn, RecvData, RecvSkip, RecvEnd, RecvFails, SigUrg,
             Keys, SenderKey, ReceiverKey, Arrive
    <3>2. QED
      BY <3>1, StepPaced, Zenon DEF Inv
  <2>3. QED
    BY <2>1, <2>2, Zenon DEF Inv
<1>3. QED
  BY <1>1, <1>2, PTL DEF Spec

\* The type invariant of the sender, the receiver and the connection with its mark.
THEOREM TypeCorrect == Spec => []TypeOK
<1>1. Booleans /\ Inv => TypeOK
  <2> SUFFICES ASSUME Booleans, Inv PROVE TypeOK
    OBVIOUS
  <2>1. Roles /\ Source /\ Net /\ Dest
    BY Zenon DEF Inv, Types
  <2>2. QED
    BY <2>1, Zenon DEF Booleans, Roles, Source, Net, Dest, TypeOK
<1>2. QED
  BY <1>1, Invariance, PTL

\* However late recv() comes to the urgent bytes, the bytes of the file that fwrite()
\* stores follow each other as in the source.
THEOREM BytesInOrder == Spec => []DataInOrder
<1>1. Inv => DataInOrder
  BY Zenon DEF Inv, OrderInv, InOrder, Oob, DataInOrder
<1>2. QED
  BY <1>1, Invariance, PTL

\* If the sender's pause is long enough for the receiver, the file is a prefix of the
\* source, and unless the connection was reset, totalReceivedBytes is its length.
THEOREM OnlyDataWritten == Spec => []OnlyData
<1>1. Inv => OnlyData
  <2> SUFFICES ASSUME Inv, paced
               PROVE  /\ \A k \in 1..Len(file) : file[k] = Data(k)
                      /\ conn # "reset" => totalReceivedBytes = Len(file)
    BY Zenon DEF OnlyData
  <2>1. PacedInv /\ Dest
    BY Zenon DEF Inv, Types
  <2>2. QED
    BY <2>1, Zenon DEF PacedInv, Dest
<1>2. QED
  BY <1>1, Invariance, PTL
=============================================================================
