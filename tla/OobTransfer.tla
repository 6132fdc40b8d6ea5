---------------------------- MODULE OobTransfer ----------------------------
(***************************************************************************)
(* lab4: the file transfer of lab3 with out-of-band data.  After every     *)
(* block the sender sends one urgent byte, a percentage; the receiver's    *)
(* kernel raises SIGURG and the handler reads the byte and prints it.      *)
(* Either program is the server (-l), and main() becomes connected by the  *)
(* code of lab3 (see FileTransfer, also for failures of the network).      *)
(*                                                                         *)
(* TCP is external and modelled as Linux implements it: the urgent byte    *)
(* has a place in the stream, the mark.  recv() stops at the mark and, if  *)
(* it begins there, skips it.  There is one mark: when a newer one comes,  *)
(* the urgent byte of an older that the reader has not come to is ordinary *)
(* data from then on.                                                      *)
(***************************************************************************)
EXTENDS Integers, Sequences

CONSTANTS
  Sizes,     \* the sizes the file may have
  BUFFSIZE

ASSUME OobAssumption ==
  Sizes \subseteq Nat /\ BUFFSIZE \in Nat \ {0}

Role == {"snd", "rcv"}

VARIABLES
  server,     \* the role that was started with -l
  there,      \* there[p]: p's file exists
  mpc,        \* main(): "start", "accept", "stray", "running" or "exit"
  conn,       \* the connection: "none", "up", or "reset" by a server that exits
  size,
  paced,      \* usleep(10000) gives the receiver the time to take each block
  spc,        \* the sender
  fpos, bytesToSend, percent, sentBytes,
  stream,     \* all that was sent: bytes of the file and urgent bytes
  arrived,    \* how much of it has come to the receiver's kernel
  copied,     \* how much recv() has taken or skipped
  mark,       \* the place of the current urgent byte, or 0
  urgent,     \* "none", "valid" or "read": what the kernel knows of it
  fin,        \* the sender's socket is closed
  rpc,        \* the receiver
  sigurg,     \* SIGURG: "no", "pending", or "due" when a recv() has returned since
  file, totalReceivedBytes,
  printed     \* what the handler printed: the places of the bytes it read, or Junk

mainVars == <<server, there, mpc, conn>>
jobVars == <<mainVars, size, paced>>
sndVars == <<spc, fpos, bytesToSend, percent, sentBytes>>
tcpVars == <<arrived, copied, mark, urgent, sigurg>>
rcvVars == <<rpc, file, totalReceivedBytes, printed>>
vars    == <<jobVars, sndVars, stream, tcpVars, fin, rcvVars>>

Junk == 0
Least(a, b) == IF a < b THEN a ELSE b

\* A byte of the file is named by its offset, an urgent byte by its value.
Data(k) == [oob |-> FALSE, val |-> k]
Urgent(v) == [oob |-> TRUE, val |-> v]

Init ==
  /\ server \in Role /\ there \in [Role -> BOOLEAN]
  /\ mpc = [p \in Role |-> "start"] /\ conn = "none"
  /\ size \in Sizes /\ paced \in BOOLEAN
  /\ spc = "open" /\ fpos = 0 /\ bytesToSend = 0 /\ percent = 0 /\ sentBytes = 0
  /\ stream = <<>> /\ arrived = 0 /\ copied = 0
  /\ mark = 0 /\ urgent = "none" /\ sigurg = "no" /\ fin = FALSE
  /\ rpc = "open" /\ file = <<>> /\ totalReceivedBytes = 0 /\ printed = <<>>

----------------------------------------------------------------------------
(* main(): becoming connected                                              *)

restVars == <<size, paced, sndVars, stream, tcpVars, fin, rcvVars>>

\* createListener() exits if listen() fails; what else fails leaves it listening
\* on a port where nobody connects.
createListener == {"accept", "stray", "exit"}

\* The server's file must exist, whichever way it is to travel.
Listen(p) ==
  /\ mpc[p] = "start" /\ p = server
  /\ \E next \in createListener :
       (there[p] \/ next = "exit") /\ mpc' = [mpc EXCEPT ![p] = next]
  /\ UNCHANGED <<server, there, conn, restVars>>

\* connectToRemote() makes one attempt, and its result is not looked at.
Connect(p) ==
  /\ mpc[p] = "start" /\ p # server
  /\ mpc' = [mpc EXCEPT ![p] = "running"]
  /\ conn' = IF mpc[server] = "accept" THEN "up" ELSE "none"
  /\ UNCHANGED <<server, there, restVars>>

Accept(p) ==
  /\ mpc[p] = "accept" /\ conn = "up"
  /\ \/ mpc' = [mpc EXCEPT ![p] = "running"] /\ UNCHANGED conn
     \/ mpc' = [mpc EXCEPT ![p] = "exit"] /\ conn' = "reset"
  /\ UNCHANGED <<server, there, restVars>>

----------------------------------------------------------------------------
(* sendFile()                                                              *)

\* A file that cannot be opened ends sendFile().
OpenSource ==
  /\ mpc["snd"] = "running" /\ spc = "open"
  /\ spc' = IF there["snd"] THEN "read" ELSE "key"
  /\ UNCHANGED <<jobVars, fpos, bytesToSend, percent, sentBytes, stream, tcpVars, fin, rcvVars>>

\* Mutant: fread() fills the buffer at the end of the file as well.
BlockLenFull == BUFFSIZE
BlockLen     == Least(BUFFSIZE, size - fpos)

\* fread() and the percentage, which divides by zero if the file is empty.  A file
\* that cannot be read on gives a short count like the end of the file, and sendFile()
\* does not ask which it was.
Read ==
  /\ spc = "read"
  /\ bytesToSend' \in 0..BlockLen /\ fpos' = fpos + bytesToSend'
  /\ IF size = 0 THEN spc' = "crashed" /\ fin' = TRUE /\ UNCHANGED percent
                 ELSE spc' = "send" /\ percent' = (bytesToSend' * 100) \div size /\ UNCHANGED fin
  /\ UNCHANGED <<jobVars, sentBytes, stream, tcpVars, rcvVars>>

\* There is no connection, or the receiver has closed its socket: send() fails, or,
\* on a socket that was connected, SIGPIPE kills the sender.
Refused == conn # "up" \/ rpc = "done"
Killed  == Refused /\ conn # "none" /\ spc' = "crashed" /\ fin' = TRUE

SendBlock ==
  /\ spc = "send"
  /\ \/ /\ conn = "up" /\ spc' = "urgent" /\ sentBytes' = bytesToSend
        /\ stream' = stream \o [k \in 1..bytesToSend |-> Data(fpos - bytesToSend + k)]
        /\ UNCHANGED fin
     \/ /\ Refused /\ spc' = "urgent" /\ sentBytes' = -1
        /\ UNCHANGED <<stream, fin>>
     \/ Killed /\ UNCHANGED <<sentBytes, stream>>
  /\ UNCHANGED <<jobVars, fpos, bytesToSend, percent, tcpVars, rcvVars>>

\* Where sendFile() goes when the block and its urgent byte are sent.
AfterUrgent == IF sentBytes = -1 \/ bytesToSend < BUFFSIZE THEN "key" ELSE "read"

\* Mutant: the sender does not sleep.
WaitNot == TRUE

\* usleep(): the block is taken, or the receiver reads no more.
Wait == paced => copied = Len(stream) \/ rpc \in {"key", "done"} \/ conn # "up"

SendUrgent ==
  /\ spc = "urgent" /\ Wait
  /\ \/ /\ conn = "up" /\ stream' = Append(stream, Urgent(percent))
        /\ spc' = AfterUrgent /\ UNCHANGED fin
     \/ /\ Refused /\ spc' = AfterUrgent
        /\ UNCHANGED <<stream, fin>>
     \/ Killed /\ UNCHANGED stream
  /\ UNCHANGED <<jobVars, fpos, bytesToSend, percent, sentBytes, tcpVars, rcvVars>>

\* "Press any key...", and the end of main().
SenderKey ==
  /\ spc = "key" /\ spc' = "done" /\ fin' = TRUE
  /\ UNCHANGED <<jobVars, fpos, bytesToSend, percent, sentBytes, stream,
                 tcpVars, rcvVars>>

----------------------------------------------------------------------------
(* recieveFile() and sig_urg()                                             *)

OpenDest ==
  /\ mpc["rcv"] = "running" /\ rpc = "open" /\ rpc' \in {"setown", "key"}
  /\ UNCHANGED <<jobVars, sndVars, stream, tcpVars, fin, file, totalReceivedBytes, printed>>

\* fcntl(F_SETOWN): before it nobody gets the signal.  On a bad descriptor it ends
\* recieveFile(), with the file emptied.
SetOwn ==
  /\ rpc = "setown" /\ rpc' = IF conn = "none" THEN "key" ELSE "recv"
  /\ UNCHANGED <<jobVars, sndVars, stream, tcpVars, fin, file, totalReceivedBytes, printed>>

AtMark == urgent # "none" /\ mark = copied + 1

\* A recv() begins behind the mark, and takes what has arrived before the mark.
Start == IF AtMark THEN copied + 1 ELSE copied
Stop  == IF urgent # "none" /\ mark > Start THEN mark - 1 ELSE arrived
Got   == Least(BUFFSIZE, Stop - Start)

\* A signal is handled before a program goes on after a system call.
Returns == sigurg' = IF sigurg = "pending" THEN "due" ELSE sigurg

\* A short block ends the loop, and so does the end of the stream.  Mutant: the end
\* of the stream does not.
AfterRecv(n) == IF n < BUFFSIZE THEN "key" ELSE "recv"
AfterEndRecv == "recv"
AfterEnd     == "key"

\* Mutant: the buffer is never filled again.
WrittenStale(n) == [k \in 1..n |-> stream[k]]

\* What fwrite() stores of the n bytes that recv() returned.
Written(n) == [k \in 1..n |-> stream[Start + k]]

RecvData ==
  /\ rpc = "recv" /\ sigurg # "due" /\ Got > 0
  /\ file' = file \o Written(Got)
  /\ totalReceivedBytes' = totalReceivedBytes + Got
  /\ copied' = Start + Got /\ urgent' = IF AtMark THEN "none" ELSE urgent
  /\ rpc' = AfterRecv(Got) /\ Returns
  /\ UNCHANGED <<jobVars, sndVars, stream, arrived, mark, fin, printed>>

\* Nothing but the urgent byte is there: recv() skips it and waits.
RecvSkip ==
  /\ rpc = "recv" /\ sigurg # "due" /\ AtMark /\ Got = 0
  /\ copied' = copied + 1 /\ urgent' = "none"
  /\ UNCHANGED <<jobVars, sndVars, stream, arrived, mark, sigurg, fin, rcvVars>>

RecvEnd ==
  /\ rpc = "recv" /\ sigurg # "due" /\ fin /\ copied = Len(stream)
  /\ rpc' = AfterEnd /\ Returns
  /\ UNCHANGED <<jobVars, sndVars, stream, arrived, copied, mark, urgent, fin,
                 file, totalReceivedBytes, printed>>

\* The server has reset the connection; -1 is added to the total.
RecvFails ==
  /\ rpc = "recv" /\ conn = "reset"
  /\ totalReceivedBytes' = totalReceivedBytes - 1 /\ rpc' = AfterEnd
  /\ UNCHANGED <<jobVars, sndVars, stream, tcpVars, fin, file, printed>>

\* sig_urg() does not look at the result of recv(): if the byte is gone it prints
\* what was in its variable.
SigUrg ==
  /\ sigurg # "no" /\ rpc # "done" /\ sigurg' = "no"
  /\ printed' = Append(printed, IF urgent = "valid" THEN mark ELSE Junk)
  /\ urgent' = IF urgent = "valid" THEN "read" ELSE urgent
  /\ UNCHANGED <<jobVars, sndVars, stream, arrived, copied, mark, fin, rpc, file,
                 totalReceivedBytes>>

ReceiverKey ==
  /\ rpc = "key" /\ sigurg # "due" /\ rpc' = "done"
  /\ UNCHANGED <<jobVars, sndVars, stream, tcpVars, fin, file, totalReceivedBytes, printed>>

----------------------------------------------------------------------------
(* TCP (external)                                                          *)

\* The next byte arrives.  A new mark replaces the old one; if the reader has just
\* come to the old one, that is skipped.
Arrive ==
  /\ arrived < Len(stream) /\ conn = "up" /\ rpc # "done" /\ arrived' = arrived + 1
  /\ IF stream[arrived + 1].oob
       THEN /\ mark' = arrived + 1 /\ urgent' = "valid"
            /\ copied' = IF AtMark THEN copied + 1 ELSE copied
            /\ sigurg' = IF rpc \in {"recv", "key"} /\ sigurg = "no" THEN "pending" ELSE sigurg
       ELSE UNCHANGED <<mark, urgent, copied, sigurg>>
  /\ UNCHANGED <<jobVars, sndVars, stream, fin, rcvVars>>

----------------------------------------------------------------------------
Main(p)  == Listen(p) \/ Connect(p) \/ Accept(p)
Sender   == OpenSource \/ Read \/ SendBlock \/ SendUrgent
Receiver == OpenDest \/ SetOwn \/ RecvData \/ RecvSkip \/ RecvEnd \/ RecvFails \/ SigUrg
Keys     == SenderKey \/ ReceiverKey

Next == (\E p \in Role : Main(p)) \/ Sender \/ Receiver \/ Keys \/ Arrive

\* The programs run, TCP delivers, and the users press a key in the end.
Spec == /\ Init /\ [][Next]_vars
        /\ \A p \in Role : WF_vars(Main(p))
        /\ WF_vars(Sender) /\ WF_vars(Receiver)
        /\ WF_vars(SenderKey) /\ WF_vars(ReceiverKey) /\ WF_vars(Arrive)

----------------------------------------------------------------------------
(* Properties                                                              *)

Values == [oob : BOOLEAN, val : Nat]

TypeOK ==
  /\ server \in Role /\ there \in [Role -> BOOLEAN]
  /\ mpc \in [Role -> {"start", "accept", "stray", "running", "exit"}]
  /\ conn \in {"none", "up", "reset"} /\ size \in Sizes /\ paced \in BOOLEAN
  /\ fpos \in 0..size /\ bytesToSend \in 0..BUFFSIZE /\ percent \in 0..100
  /\ spc \in {"open", "read", "send", "urgent", "key", "done", "crashed"}
  /\ sentBytes \in -1..BUFFSIZE
  /\ stream \in Seq(Values) /\ arrived \in 0..Len(stream) /\ copied \in 0..arrived
  /\ mark \in 0..arrived /\ urgent \in {"none", "valid", "read"}
  /\ fin \in BOOLEAN /\ sigurg \in {"no", "pending", "due"}
  /\ rpc \in {"open", "setown", "recv", "key", "done"}
  /\ file \in Seq(Values) /\ totalReceivedBytes \in -1..Len(file) /\ printed \in Seq(Nat)

\* If the sender's pause is long enough, no urgent byte gets into the file: it is
\* a prefix of the source, and totalReceivedBytes counts its bytes.
OnlyData ==
  paced => /\ \A k \in 1..Len(file) : file[k] = Data(k)
           /\ conn # "reset" => totalReceivedBytes = Len(file)

\* The bytes of the file, by their offsets, at the places before k of s.
Before(s, k) == {s[j].val : j \in {i \in 1..(k - 1) : ~s[i].oob}}

\* However late the receiver is, a byte of the file comes after all those before it in
\* the source, and only them; only urgent bytes that lost their mark are between them.
DataInOrder ==
  \A k \in 1..Len(file) : ~file[k].oob => file[k].val > 0 /\ Before(file, k) = 1..(file[k].val - 1)

Ended(p) == \/ mpc[p] = "exit"
            \/ p = "snd" /\ spc \in {"done", "crashed"}
            \/ p = "rcv" /\ rpc = "done"

\* Whoever connects ends, also if nobody listens, and so does a server that was
\* connected to: a missing or empty file, a bad descriptor, or a partner that goes
\* leaves none of them waiting.
BothEnd == \A p \in Role : (p # server \/ conn = "up") ~> Ended(p)

\* lab4/Readme: the receiver counts the bytes it receives "not including the
\* urgent ones".
UrgentNotCounted == \A k \in 1..Len(file) : ~file[k].oob
=============================================================================
