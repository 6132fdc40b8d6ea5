---------------------------- MODULE FileTransfer ----------------------------
(***************************************************************************)
(* lab3, the program "ns": one copy run with -s sends a file over TCP, one *)
(* copy run with -r receives it; either of them is the server (-l).  The   *)
(* module models main(), sendFile(), recieveFile() and the parts of        *)
(* sockcore.c they call, and, as an external component, what the code      *)
(* relies on TCP for: an ordered byte stream, cut into segments as the     *)
(* network likes, that may break.                                          *)
(*                                                                         *)
(* A byte is named by its place 1, 2, ... in the stream; 0 names a byte    *)
(* that was in the destination before.  As the stream is ordered, places   *)
(* are enough to describe it:                                              *)
(*    recvd =< arrived =< sent   and   fpos =< size                        *)
(* are the bytes taken by recv, arrived at the receiver's kernel, accepted *)
(* by the sender's kernel, and read from the sender's file.  Place i holds *)
(* byte i of the file while i =< fpos.  The stream goes on past fpos only  *)
(* when read() fails: sendFile() hands its -1 to send() as a length, and   *)
(* what follows in the stream comes from the program's stack.              *)
(***************************************************************************)
EXTENDS Integers, Sequences

CONSTANTS
  Sizes,        \* the sizes the sender's file may have
  BUFFSIZE,     \* bytes per read(), send() and recv()
  SockBuf,      \* bytes the connection holds between send() and recv()
  Stack,        \* bytes send() may find in memory when its length is -1
  Faults        \* what the environment may do, see FaultKinds

FaultKinds == {"sys",     \* bind, listen, accept or open fails
               "read",    \* read() fails: an error of the disk, or a directory
               "disk",    \* write() stores less than it is given
               "drop",    \* packets are dropped silently (firewall DROP)
               "reject",  \* packets are answered by an error (firewall REJECT)
               "kill"}    \* a program is killed

ASSUME ConstantsAssumption ==
  /\ Sizes \subseteq Nat
  /\ BUFFSIZE \in Nat \ {0}
  /\ SockBuf \in Nat \ {0}
  /\ Stack \in Nat \ {0}
  /\ Faults \subseteq FaultKinds

Role == {"snd", "rcv"}
Peer(p) == IF p = "snd" THEN "rcv" ELSE "snd"

VARIABLES
  server,   \* the role that was started with -l
  size,     \* length of the sender's file
  calm,     \* nothing fails in this behaviour, and data arrives in whole blocks
  full,     \* the receiver's disk may refuse data
  there,    \* there[p]: p's file exists
  pc,       \* where each program is
  fd,       \* client, the connected socket: "bad" is a negative descriptor
  conn,     \* the kernels have completed the handshake
  link,     \* the network between the two hosts
  err,      \* the error pending on each socket
  fin,      \* the sender's end of stream
  fpos, sent, arrived, recvd,
  blk,      \* bytesToSend
  len,      \* bytes the kernel can take in the current send()
  left,     \* bytes of these it has not accepted yet
  total,    \* totalSentBytes, totalReceivedBytes
  said,     \* the last message each program printed
  file      \* the destination on disk

mainVars == <<server, size, calm, full>>
sndVars  == <<fpos, blk, len, left>>
strVars  == <<sent, arrived, recvd>>
netVars  == <<conn, link, err, fin>>
vars == <<mainVars, there, pc, fd, netVars, sndVars, strVars, total, said, file>>

Old == <<0>>
May(fault) == fault \in Faults /\ ~calm
Least(a, b) == IF a < b THEN a ELSE b
Goto(p, l) == pc' = [pc EXCEPT ![p] = l]
Say(p, m)  == said' = [said EXCEPT ![p] = m]

Init ==
  /\ server \in Role /\ size \in Sizes
  /\ calm \in BOOLEAN /\ (calm => BUFFSIZE =< SockBuf)
  /\ full \in BOOLEAN /\ (full => May("disk"))
  /\ there \in [Role -> BOOLEAN]
  /\ pc = [p \in Role |-> "main"] /\ fd = [p \in Role |-> "none"]
  /\ conn = FALSE /\ link = "up" /\ fin = "no"
  /\ err = [p \in Role |-> "none"]
  /\ fpos = 0 /\ sent = 0 /\ arrived = 0 /\ recvd = 0
  /\ blk = 0 /\ len = 0 /\ left = 0
  /\ total = [p \in Role |-> 0] /\ said = [p \in Role |-> "nothing"]
  /\ file = IF there["rcv"] THEN Old ELSE <<>>

----------------------------------------------------------------------------
(* main(): becoming connected                                              *)

\* What the helpers return: bindAddr() refuses a port or an address that it
\* cannot read, bind() a port that is taken.
bindAddr   == IF May("sys") THEN {1, -1} ELSE {1}
bindSocket == IF May("sys") THEN {1, -1} ELSE {1}

\* createListener() exits if listen() fails, but takes the -1 of bindAddr() or
\* bindSocket() for a success: listen() then binds the socket to a port of the
\* system's choice, where nobody connects ("stray").
createListener(p) ==
  \/ \E addr \in bindAddr, bound \in bindSocket :
       Goto(p, IF addr = 1 /\ bound = 1 THEN "accept" ELSE "stray")
  \/ May("sys") /\ Goto(p, "exit")

\* The server insists that its file exists, whichever way it is to travel.
Listen(p) ==
  /\ pc[p] = "main" /\ p = server
  /\ IF there[p] THEN createListener(p) ELSE Goto(p, "exit")
  /\ UNCHANGED <<mainVars, there, fd, netVars, sndVars, strVars, total, said, file>>

\* connectToRemote() makes one attempt, even if bindAddr() failed.  main() does
\* not look at its result: a failed attempt leaves the negative descriptor in
\* client and goes on.
Connect(p) ==
  /\ pc[p] = "main" /\ p # server
  /\ Goto(p, "open")
  /\ \/ /\ pc[server] = "accept"
        /\ conn' = TRUE /\ fd' = [fd EXCEPT ![p] = "open"]
        /\ UNCHANGED said
     \/ /\ pc[server] # "accept" \/ -1 \in bindAddr
        /\ fd' = [fd EXCEPT ![p] = "bad"] /\ Say(p, "failed")
        /\ UNCHANGED conn
  /\ UNCHANGED <<mainVars, there, link, err, fin, sndVars, strVars, total, file>>

\* acceptClient(): on an error the server closes the listener and exits, which
\* resets a connection that was waiting.
Accept(p) ==
  /\ pc[p] = "accept" /\ conn
  /\ \/ Goto(p, "open") /\ fd' = [fd EXCEPT ![p] = "open"] /\ UNCHANGED err
     \/ /\ May("sys") /\ Goto(p, "exit")
        /\ err' = [err EXCEPT ![Peer(p)] = "reset"] /\ UNCHANGED fd
  /\ UNCHANGED <<mainVars, there, conn, link, fin, sndVars, strVars, total, said, file>>

----------------------------------------------------------------------------
(* sendFile()                                                              *)

OpenSource ==
  /\ pc["snd"] = "open"
  /\ \/ there["snd"] /\ Goto("snd", "read") /\ UNCHANGED said
     \/ /\ ~there["snd"] \/ May("sys")
        /\ Goto("snd", "close") /\ Say("snd", "failed")
  /\ UNCHANGED <<mainVars, there, fd, netVars, sndVars, strVars, total, file>>

\* Mutant: the last byte is forgotten.
BlockLenUnder == Least(BUFFSIZE, size - fpos - 1)

\* What read() returns if it does not fail.
BlockLen == Least(BUFFSIZE, size - fpos)

\* The result of read() is not looked at before it is the length of a send():
\* a -1 asks for the rest of the address space, and the kernel can take what
\* it finds there until it meets a page that is not mapped.
ReadBlock ==
  /\ pc["snd"] = "read"
  /\ \/ blk' = BlockLen /\ len' = BlockLen /\ fpos' = fpos + BlockLen
     \/ May("read") /\ blk' = -1 /\ len' \in 1..Stack /\ UNCHANGED fpos
  /\ left' = len'
  /\ Goto("snd", "send")
  /\ UNCHANGED <<mainVars, there, fd, netVars, strVars, total, said, file>>

Room == SockBuf - (sent - recvd)

\* send() blocks: the kernel has room for a part of the block only.
SendPart ==
  /\ pc["snd"] = "send" /\ fd["snd"] = "open" /\ err["snd"] = "none"
  /\ Room > 0 /\ Room < left
  /\ sent' = sent + Room /\ left' = left - Room
  /\ UNCHANGED <<mainVars, there, pc, fd, netVars, fpos, blk, len, arrived, recvd, total, said, file>>

\* Mutants: the loop has no end; a whole block ends it.
AfterSendEndless == Goto("snd", "read") /\ UNCHANGED said
AfterSendEager   == Goto("snd", "close") /\ Say("snd", "done")

\* After a send() that did not return -1: a short block was the last one, and so
\* was the one that read() failed to read.  sendFile() looks at bytesToSend here,
\* not at what was sent.
AfterSend ==
  IF blk < BUFFSIZE THEN Goto("snd", "close") /\ Say("snd", "done")
                    ELSE Goto("snd", "read") /\ UNCHANGED said

\* The kernel accepts the rest of the block and send() returns its length.
SendRest ==
  /\ pc["snd"] = "send" /\ fd["snd"] = "open" /\ err["snd"] = "none"
  /\ left =< Room
  /\ sent' = sent + left /\ left' = 0
  /\ total' = [total EXCEPT !["snd"] = @ + len]
  /\ AfterSend
  /\ UNCHANGED <<mainVars, there, fd, netVars, fpos, blk, len, arrived, recvd, file>>

\* The connection broke under a send() that had handed over part of the block:
\* it returns that part, and the error waits for the next call.
SendShort ==
  /\ pc["snd"] = "send" /\ fd["snd"] = "open" /\ err["snd"] # "none"
  /\ left < len
  /\ total' = [total EXCEPT !["snd"] = @ + len - left]
  /\ AfterSend
  /\ UNCHANGED <<mainVars, there, fd, netVars, sndVars, strVars, file>>

\* send() returns -1: "connection failed".  It may also refuse the length -1, or
\* find its first page unmapped.
SendFails ==
  /\ pc["snd"] = "send" /\ left = len
  /\ fd["snd"] = "bad" \/ err["snd"] # "none" \/ blk = -1
  /\ total' = [total EXCEPT !["snd"] = @ - 1]
  /\ Goto("snd", "close") /\ Say("snd", "failed")
  /\ UNCHANGED <<mainVars, there, fd, netVars, sndVars, strVars, file>>

\* The kernel's answer to a send() on a connection that was closed and reset
\* may be SIGPIPE instead, which the program does not handle.
SendKilled ==
  /\ pc["snd"] = "send" /\ left = len /\ err["snd"] = "reset"
  /\ Goto("snd", "killed") /\ fd' = [fd EXCEPT !["snd"] = "closed"]
  /\ fin' = "sent"
  /\ UNCHANGED <<mainVars, there, conn, link, err, sndVars, strVars, total, said, file>>

----------------------------------------------------------------------------
(* recieveFile()                                                           *)

\* The destination is created or truncated before anything is known of the
\* connection.
OpenDest ==
  /\ pc["rcv"] = "open"
  /\ \/ /\ Goto("rcv", "recv") /\ file' = <<>>
        /\ there' = [there EXCEPT !["rcv"] = TRUE] /\ UNCHANGED said
     \/ /\ May("sys") /\ Goto("rcv", "close") /\ Say("rcv", "failed")
        /\ UNCHANGED <<there, file>>
  /\ UNCHANGED <<mainVars, fd, netVars, sndVars, strVars, total>>

\* recv() returns what has arrived, up to a buffer full.
RecvLen == Least(BUFFSIZE, arrived - recvd)

\* Mutants: the buffer is never refilled; it is written one byte too far on.
RunStale(n)   == [i \in 1..n |-> i]
RunShifted(n) == [i \in 1..n |-> recvd + i + 1]

\* n stream bytes from position recvd, as write() appends them.
Run(n) == [i \in 1..n |-> recvd + i]

\* write() stores k of the n bytes; its result is not looked at.
Write(n) ==
  \/ file' = file \o Run(n)
  \/ full /\ \E k \in 0..(n - 1) : file' = file \o Run(k)

\* Mutant: a full block ends the transfer.
AfterRecvEager(n) ==
  IF n =< BUFFSIZE THEN Goto("rcv", "close") /\ Say("rcv", "done")
                   ELSE UNCHANGED <<pc, said>>

AfterRecv(n) ==
  IF n < BUFFSIZE THEN Goto("rcv", "close") /\ Say("rcv", "done")
                  ELSE UNCHANGED <<pc, said>>

RecvData ==
  /\ pc["rcv"] = "recv" /\ fd["rcv"] = "open" /\ arrived > recvd
  /\ recvd' = recvd + RecvLen
  /\ total' = [total EXCEPT !["rcv"] = @ + RecvLen]
  /\ Write(RecvLen) /\ AfterRecv(RecvLen)
  /\ UNCHANGED <<mainVars, there, fd, netVars, sndVars, sent, arrived>>

\* recv() returns 0: the loop ends without a message.
RecvEnd ==
  /\ pc["rcv"] = "recv" /\ fd["rcv"] = "open"
  /\ arrived = recvd /\ fin = "arrived" /\ err["rcv"] = "none"
  /\ Goto("rcv", "close")
  /\ UNCHANGED <<mainVars, there, fd, netVars, sndVars, strVars, total, said, file>>

\* recv() returns -1, which is added to the total before it is looked at.
RecvFails ==
  /\ pc["rcv"] = "recv"
  /\ fd["rcv"] = "bad" \/ (arrived = recvd /\ err["rcv"] # "none")
  /\ total' = [total EXCEPT !["rcv"] = @ - 1]
  /\ Goto("rcv", "close") /\ Say("rcv", "failed")
  /\ UNCHANGED <<mainVars, there, fd, netVars, sndVars, strVars, file>>

----------------------------------------------------------------------------
(* The end of main(), and of a program that is killed: the kernel closes   *)
(* its sockets.                                                            *)

CloseSocket(p) ==
  /\ fd' = [fd EXCEPT ![p] = IF @ = "open" THEN "closed" ELSE @]
  /\ fin' = IF p = "snd" /\ fd[p] = "open" THEN "sent" ELSE fin

Close(p) ==
  /\ pc[p] = "close" /\ Goto(p, "done")
  /\ CloseSocket(p)
  /\ UNCHANGED <<mainVars, there, conn, link, err, sndVars, strVars, total, said, file>>

Kill(p) ==
  /\ May("kill") /\ pc[p] \notin {"exit", "done", "killed"}
  /\ Goto(p, "killed") /\ CloseSocket(p)
  /\ err' = IF conn /\ pc[p] = "accept" THEN [err EXCEPT ![Peer(p)] = "reset"] ELSE err
  /\ UNCHANGED <<mainVars, there, conn, link, sndVars, strVars, total, said, file>>

----------------------------------------------------------------------------
(* TCP and the network (external)                                          *)

Deliver ==
  /\ link = "up" /\ fd["rcv"] # "closed"
  /\ \E a \in (arrived + 1)..sent :
       /\ calm => (a % BUFFSIZE = 0 \/ a = size)
       /\ arrived' = a
  /\ UNCHANGED <<mainVars, there, pc, fd, netVars, sndVars, sent, recvd, total, said, file>>

DeliverFin ==
  /\ link = "up" /\ fin = "sent" /\ arrived = sent
  /\ fin' = "arrived"
  /\ UNCHANGED <<mainVars, there, pc, fd, conn, link, err, sndVars, strVars, total, said, file>>

SockError(p, e) ==
  /\ err[p] = "none" /\ err' = [err EXCEPT ![p] = e]
  /\ UNCHANGED <<mainVars, there, pc, fd, conn, link, fin, sndVars, strVars, total, said, file>>

\* The receiver closed its socket with data unread, or data reaches it after.
Reset == link = "up" /\ fd["rcv"] = "closed" /\ sent > recvd /\ SockError("snd", "reset")

\* The sender's kernel has sent data, or a window probe, that nobody answers.
Unanswered == sent > arrived \/ (pc["snd"] = "send" /\ left > Room)

\* Packets are rejected: whoever still sends is told.
Rejected(p) ==
  /\ link = "rejecting" /\ (p = "snd" => Unanswered)
  /\ SockError(p, "reset")

\* Packets are dropped: the sender's kernel gives up on what is not
\* acknowledged.  A receiver has nothing to be acknowledged, and no keepalive.
GiveUp ==
  /\ link = "dropping" /\ Unanswered
  /\ SockError("snd", "timeout")

Break ==
  /\ link = "up" /\ conn
  /\ \/ May("drop") /\ link' = "dropping"
     \/ May("reject") /\ link' = "rejecting"
  /\ UNCHANGED <<mainVars, there, pc, fd, conn, err, fin, sndVars, strVars, total, said, file>>

----------------------------------------------------------------------------
Sender   == OpenSource \/ ReadBlock \/ SendPart \/ SendRest \/ SendShort \/ SendFails \/ SendKilled
Receiver == OpenDest \/ RecvData \/ RecvEnd \/ RecvFails
Main(p)  == Listen(p) \/ Connect(p) \/ Accept(p) \/ Close(p)
Network  == Deliver \/ DeliverFin \/ Reset \/ GiveUp

Next ==
  \/ \E p \in Role : Main(p) \/ Kill(p) \/ Rejected(p)
  \/ Sender \/ Receiver \/ Network \/ Break

\* The operating system runs each program and TCP retransmits, so neither stops
\* for ever while it can go on; faults need not happen.
Fairness ==
  /\ \A p \in Role : WF_vars(Main(p))
  /\ WF_vars(Sender) /\ WF_vars(Receiver)
  /\ WF_vars(Deliver) /\ WF_vars(DeliverFin) /\ WF_vars(Reset) /\ WF_vars(GiveUp)
  /\ WF_vars(Rejected("snd"))

Spec == Init /\ [][Next]_vars /\ Fairness

----------------------------------------------------------------------------
(* Properties                                                              *)

ControlTypes ==
  /\ there \in [Role -> BOOLEAN]
  /\ pc \in [Role -> {"main", "accept", "stray", "open", "read", "send", "recv", "close",
                      "done", "exit", "killed"}]
  /\ fd \in [Role -> {"none", "bad", "open", "closed"}]
  /\ conn \in BOOLEAN /\ link \in {"up", "dropping", "rejecting"}
  /\ err \in [Role -> {"none", "reset", "timeout"}] /\ fin \in {"no", "sent", "arrived"}

DataTypes ==
  /\ server \in Role /\ size \in Sizes /\ calm \in BOOLEAN /\ full \in BOOLEAN
  /\ fpos \in Nat /\ sent \in Nat /\ arrived \in Nat /\ recvd \in Nat
  /\ blk \in -1..BUFFSIZE /\ len \in 0..(BUFFSIZE + Stack) /\ left \in 0..len

ReportTypes ==
  /\ total \in [Role -> Int] /\ said \in [Role -> {"nothing", "failed", "done"}]
  /\ file \in Seq(Nat)

TypeOK == ControlTypes /\ DataTypes /\ ReportTypes

\* Where the stream ends when the kernel has taken all of the current send().
Reach == fpos + (IF blk = -1 THEN len ELSE 0)

\* No position overtakes the one it follows, the connection never holds more
\* than its buffers, and while the connection is sound every byte read from the
\* file is either in the stream or still to be accepted.  The stream runs past
\* what was read only if read() failed.
Conservation ==
  /\ recvd =< arrived /\ arrived =< sent /\ sent =< Reach /\ fpos =< size
  /\ sent - recvd =< SockBuf
  /\ err["snd"] = "none" => Reach = sent + left
  /\ fin = "arrived" => arrived = sent

\* recieveFile() writes stream bytes in stream order and none twice, whatever
\* fails, even if write() stores less than it was given.
DestinationInOrder ==
  \A i, j \in 1..Len(file) : i < j => file[i] < file[j]

\* Unless the disk fails, the destination is untouched or is a prefix of the
\* stream: of the source, if read() has not failed, and otherwise of what was
\* read of it followed by at most Stack bytes that sendFile() took from memory.
\* The running totalReceivedBytes is its length: the "(%d bytes)" of the
\* receiver is true of the disk.
DestinationIsPrefix ==
  ~full =>
    /\ file = Old \/ \A i \in 1..Len(file) :
         file[i] = i /\ i =< fpos + (IF blk = -1 THEN Stack ELSE 0)
    /\ pc["rcv"] = "recv" \/ said["rcv"] = "done" => Len(file) = recvd /\ total["rcv"] = recvd

\* When sendFile() says "was sent (%d bytes)" the number is what the kernel
\* accepted, and that is all it was given unless the connection broke under the
\* last send(), whose short count the code does not notice.  The whole file was
\* read only if read() did not fail: after a read() that fails, the code says
\* "was sent" of a file it did not read.
SentReportHonest ==
  said["snd"] = "done" =>
    /\ total["snd"] = sent
    /\ blk # -1 => fpos = size
    /\ sent = Reach \/ err["snd"] # "none"

Ended(p) == pc[p] \in {"done", "exit", "killed"}

\* If blocks arrive whole and nothing fails, a connected receiver ends with the
\* whole file, also when the size is a multiple of BUFFSIZE or 0 and it prints
\* nothing.
NothingLost ==
  calm /\ conn /\ there["snd"] /\ pc["rcv"] = "done" => file = [i \in 1..size |-> i]

\* Once connected, both programs end, however the data is cut, whoever is killed
\* and whatever fails; only a receiver whose network breaks may wait for ever,
\* while the sender's kernel gives up on data that is not acknowledged.
BothEnd == conn ~> (Ended("snd") /\ (Ended("rcv") \/ link # "up"))

\* Whatever fails, the transfer implements FileCopy: the source is lost to the
\* copy when read() fails, and ends for it where read() got to.
Copy == INSTANCE FileCopy WITH dst <- file, claim <- said["rcv"], lost <- blk = -1,
                               end <- IF blk = -1 THEN fpos ELSE size
ImplementsCopy == Copy!Spec

\* What lab3/Readme asks of the pair of programs: they transfer the file, so a
\* receiver that reports a received file has all of it.
ReceivedIsWhole == said["rcv"] = "done" => Len(file) = size
=============================================================================
