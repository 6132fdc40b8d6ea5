-------------------------------- MODULE Ping --------------------------------
(***************************************************************************)
(* lab1_2: a ping.  A timer signal sends each request from its handler;    *)
(* main() waits for whatever ICMP packet comes, prints it and sets the     *)
(* timer again.  The timer runs once, so requests go on only while packets *)
(* come back.                                                              *)
(*                                                                         *)
(* optval is 0, so IP_HDRINCL stays off and the kernel puts a header of    *)
(* its own before the program's: the message that goes out starts with the *)
(* byte 0x45, which is no ICMP type any host answers.  But the kernel also *)
(* hands every ICMP message that reaches this host to the raw socket, and  *)
(* a message to the own address reaches it at once.                        *)
(*                                                                         *)
(* There is no timeout: setsockopt() refuses an int as SO_RCVTIMEO, and    *)
(* after a handler set by signal() recvfrom() is restarted.                *)
(***************************************************************************)
EXTENDS Integers, Sequences

CONSTANTS
  Own, Others,  \* the address of this host, and those of other hosts
  M,            \* the number of values of a 16 bit word, 2^16 in the code
  Ints,         \* the number of values of an int, 2^32 in the code
  Idents,       \* process ids, the lower half
  MaxStrays     \* bound: packets that come unasked, from this host or others

ASSUME PingAssumption ==
  /\ Own \notin Others /\ "nobody" \notin Others \union {Own}
  /\ M \in Nat /\ M > 8 /\ Ints \in Nat \ {0} /\ Idents \subseteq 0..(M - 1)
  /\ MaxStrays \in Nat

VARIABLES
  pc,        \* main(): "start", "recv", "heap", "alarm", "torn" or "end"
  sockfd,    \* whether there is a socket; only root may open a raw one
  dst_addr,  \* where requests go, "nobody" is 255.255.255.255
  alarm,     \* the timer is running
  inbox,     \* the senders of the packets recvfrom() has not returned yet
  ident, sequence,
  packet,    \* the words of the last request's ICMP header
  junk,      \* what its checksum field held before
  strays

netVars == <<sockfd, dst_addr, inbox, strays>>
reqVars == <<sequence, packet, junk>>
vars    == <<pc, alarm, netVars, ident, reqVars>>

Hosts    == Others \union {Own}
Word     == 0..(M - 1)
Words    == Word \X Word \X Word \X Word
NoPacket == <<0, 0, 0, 0>>

Init ==
  /\ pc = "start" /\ sockfd = FALSE /\ dst_addr = "nobody" /\ alarm = FALSE
  /\ inbox = <<>> /\ strays = 0
  /\ ident \in Idents /\ sequence = 0 /\ packet = NoPacket /\ junk = 0

----------------------------------------------------------------------------
(* cksum(): the ones' complement of the ones' complement sum               *)

\* Mutants: the carry of the first fold is not folded; the answer is an int.
FoldOnce(sum) == ((sum \div M) + (sum % M)) % M
FoldInt(sum)  == LET s == (sum \div M) + (sum % M) IN s + (s \div M)

\* answer is 16 bits wide.
Fold(sum) == LET s == (sum \div M) + (sum % M) IN (s + (s \div M)) % M

SumOf(words) == words[1] + words[2] + words[3] + words[4]

cksum(words) == M - 1 - Fold(SumOf(words))

----------------------------------------------------------------------------
(* clock_handler(), which may interrupt main() anywhere                    *)

ICMP_ECHO == 8

\* The header's field holds the lower half of the number.
Echo(check) == <<ICMP_ECHO, check, ident, sequence % M>>

\* The packet comes from malloc() and the checksum field is part of what is
\* summed: it holds anything.
Header(g) == Echo(cksum(Echo(g)))

\* The number is an int, written here as its bits without a sign: what an int's overflow
\* does is undefined, and the addition the build makes of it wraps around.
NextNumber == (sequence + 1) % Ints

pinger ==
  /\ \E g \in Word : junk' = g /\ packet' = Header(g)
  /\ sequence' = NextNumber
  /\ inbox' = IF sockfd /\ dst_addr = Own THEN Append(inbox, Own) ELSE inbox

\* Mutant: the handler, or an interval timer, sets the timer again.
AfterExpirySet == TRUE

\* alarm() runs once.
AfterExpiry == FALSE

\* The handler calls malloc().  If it interrupts main() in free() or malloc() the
\* heap may be left in any state; what happens then is not modelled.
clock_handler ==
  /\ alarm /\ alarm' = AfterExpiry
  /\ pinger
  /\ \/ pc \in {"recv", "heap", "alarm"} /\ UNCHANGED pc
     \/ pc = "heap" /\ pc' = "torn"
  /\ UNCHANGED <<sockfd, dst_addr, strays, ident>>

----------------------------------------------------------------------------
(* main() and ping()                                                       *)

\* addr_from_hostname() leaves what inet_addr() returned for a name that is no
\* address, and its failure is not looked at.
addr_from_hostname == Hosts \union {"nobody"}

\* Whether there is a raw socket: only for root.  main() does not look.
create_socket_ICMP == BOOLEAN

\* The user gives no address, or one.
NoAddress ==
  /\ pc = "start" /\ pc' = "end"
  /\ UNCHANGED <<alarm, netVars, ident, reqVars>>

Setup ==
  /\ pc = "start" /\ pc' = "recv"
  /\ dst_addr' \in addr_from_hostname
  /\ sockfd' \in create_socket_ICMP
  /\ alarm' = TRUE
  /\ UNCHANGED <<inbox, strays, ident, reqVars>>

\* Mutant: the timer is not set again.
AfterHeapRecv == "recv"
AfterHeap     == "alarm"

\* recvfrom() returns a packet and puts its sender's address where the next
\* request will go.
Recvfrom ==
  /\ pc = "recv" /\ sockfd /\ inbox # <<>>
  /\ dst_addr' = Head(inbox) /\ inbox' = Tail(inbox)
  /\ pc' = "heap"
  /\ UNCHANGED <<sockfd, strays, alarm, ident, reqVars>>

\* "not response": without a socket recvfrom() fails at once.
RecvFails ==
  /\ pc = "recv" /\ ~sockfd /\ pc' = "heap"
  /\ UNCHANGED <<alarm, netVars, ident, reqVars>>

\* free() and malloc() of the buffer.
Renew ==
  /\ pc = "heap" /\ pc' = AfterHeap
  /\ UNCHANGED <<alarm, netVars, ident, reqVars>>

Alarm ==
  /\ pc = "alarm" /\ pc' = "recv" /\ alarm' = TRUE
  /\ UNCHANGED <<netVars, ident, reqVars>>

\* External: an ICMP packet for this host that is nobody's answer to a request,
\* another ping's or an error.
Stray(h) ==
  /\ sockfd /\ pc # "torn" /\ strays < MaxStrays /\ strays' = strays + 1
  /\ inbox' = Append(inbox, h)
  /\ UNCHANGED <<pc, alarm, sockfd, dst_addr, ident, reqVars>>

----------------------------------------------------------------------------
Main == NoAddress \/ Setup \/ Recvfrom \/ RecvFails \/ Renew \/ Alarm
Next == Main \/ clock_handler \/ \E h \in Hosts : Stray(h)

\* main() runs.  A timer that is not set again expires: that is sure only while
\* main() is blocked.
Blocked  == pc = "recv" /\ sockfd /\ inbox = <<>>
Fairness == WF_vars(Main) /\ WF_vars(Blocked /\ clock_handler)

Spec == Init /\ [][Next]_vars /\ Fairness

----------------------------------------------------------------------------
(* Properties                                                              *)

TypeOK ==
  /\ pc \in {"start", "recv", "heap", "alarm", "torn", "end"}
  /\ sockfd \in BOOLEAN /\ alarm \in BOOLEAN /\ dst_addr \in Hosts \union {"nobody"}
  /\ inbox \in Seq(Hosts) /\ strays \in 0..MaxStrays
  /\ ident \in Word /\ sequence \in 0..(Ints - 1) /\ packet \in Words
  /\ junk \in Word

\* The reference for a checksum: the words add up to all ones when every carry is
\* added back as it occurs.
Plus(a, b) == IF a + b < M THEN a + b ELSE a + b - (M - 1)
AllOnes    == Plus(Plus(packet[1], packet[2]), Plus(packet[3], packet[4])) = M - 1

\* The header of a request is right exactly if the memory it was built in held a
\* zero, of either sign, in the place of the checksum.
ChecksumRight == packet # NoPacket => (AllOnes <=> junk \in {0, M - 1})

\* The handler finds main() in free() or malloc() only if a packet came unasked,
\* or if there is no socket to wait for.
HeapSafe == pc = "torn" => strays > 0 \/ ~sockfd

\* With a socket requests go on for ever just if they come to be sent to this host:
\* a request to any other host is the last one but for packets that come unasked,
\* and one of these that is the last to be received ends the ping of this host.
LastsOnlyAtHome ==
  [](pc # "torn" /\ (pc = "recv" => sockfd)) =>
    /\ <>[](dst_addr = Own)  => []<>alarm /\ []<>~alarm
    /\ []<>(dst_addr # Own) => <>[]~alarm
=============================================================================
