----------------------------- MODULE PingProofs -----------------------------
(***************************************************************************)
(* Theorems about Ping, for every word size, every number of packets that  *)
(* come unasked and every set of other hosts: types, the checksum of a     *)
(* request, and when the signal handler finds main() in free() or          *)
(* malloc().                                                               *)
(***************************************************************************)
EXTENDS Ping, TLAPS

USE PingAssumption

----------------------------------------------------------------------------
(* Sums of four words                                                      *)

\* What a division leaves of a number that has the divisor q times.
LEMMA DivMod ==
  ASSUME NEW d \in Nat \ {0}, NEW q \in Nat, NEW r \in 0..(d - 1)
  PROVE  (d * q + r) \div d = q /\ (d * q + r) % d = r
  BY SMTT(30)

\* The first fold of a number that has M q times.
LEMMA FirstFold ==
  ASSUME NEW sum \in Nat, NEW q \in Nat, NEW r \in Word, sum = M * q + r
  PROVE  (sum \div M) + (sum % M) = q + r
  <1>1. M \in Nat \ {0} /\ r \in 0..(M - 1)
    BY DEF Word
  <1> QED BY <1>1, DivMod

\* The second fold, of a number that has M once at most.
LEMMA SecondFold ==
  ASSUME NEW s \in Nat, s < M + M - 1
  PROVE  (s + (s \div M)) % M = IF s < M THEN s ELSE s + 1 - M
  <1>1. CASE s < M
    <2>1. s \in 0..(M - 1) /\ M \in Nat \ {0} /\ M * 0 + s = s
      BY <1>1
    <2>2. s \div M = 0 /\ s % M = s
      BY <2>1, DivMod
    <2> QED BY <1>1, <2>2
  <1>2. CASE s >= M
    <2>1. s - M \in 0..(M - 1) /\ M \in Nat \ {0} /\ M * 1 + (s - M) = s
      BY <1>2
    <2>2. s \div M = 1
      BY <2>1, DivMod
    <2>3. s + 1 - M \in 0..(M - 1) /\ M * 1 + (s + 1 - M) = s + 1
      BY <1>2
    <2>4. (s + 1) % M = s + 1 - M
      BY <2>1, <2>3, DivMod
    <2> QED BY <1>2, <2>2, <2>4
  <1> QED BY <1>1, <1>2

\* A sum that has M q times, for the q a sum of four words can have.
LEMMA FoldOf ==
  ASSUME NEW sum \in Nat, NEW q \in 0..3, NEW r \in Word,
         sum = M * q + r, q = 3 => r < M - 3
  PROVE  Fold(sum) = IF q + r < M THEN q + r ELSE q + r + 1 - M
  <1>0. q \in Nat
    OBVIOUS
  <1>1. (sum \div M) + (sum % M) = q + r
    BY <1>0, FirstFold
  <1>2. q + r \in Nat /\ q + r < M + M - 1
    BY DEF Word
  <1> QED BY <1>1, <1>2, SecondFold DEF Fold

\* Folding subtracts M - 1 so often that a word is left, zero only of zero.
LEMMA FoldIs ==
  ASSUME NEW sum \in Nat, sum > 0, sum =< M + M + M + M - 4
  PROVE  /\ Fold(sum) \in 1..(M - 1)
         /\ \E j \in 0..3 : sum = Fold(sum) + j * (M - 1) 
  <1>1. PICK q \in 0..3, r \in Word : sum = M * q + r
    <2>1. CASE sum < M
      BY <2>1, sum = M * 0 + sum DEF Word
    <2>2. CASE sum >= M /\ sum < M + M
      BY <2>2, sum = M * 1 + (sum - M) DEF Word
    <2>3. CASE sum >= M + M /\ sum < M + M + M
      BY <2>3, sum = M * 2 + (sum - M - M) DEF Word
    <2>4. CASE sum >= M + M + M
      BY <2>4, sum = M * 3 + (sum - M - M - M) DEF Word
    <2> QED BY <2>1, <2>2, <2>3, <2>4
  <1>2. q = 3 => r < M - 3
    BY <1>1 DEF Word
  <1>3. Fold(sum) = IF q + r < M THEN q + r ELSE q + r + 1 - M
    BY <1>1, <1>2, FoldOf
  <1>4. CASE q = 0
    BY <1>1, <1>3, <1>4 DEF Word
  <1>5. CASE q = 1
    BY <1>1, <1>3, <1>5 DEF Word
  <1>6. CASE q = 2
    BY <1>1, <1>3, <1>6 DEF Word
  <1>7. CASE q = 3
    BY <1>1, <1>2, <1>3, <1>7 DEF Word
  <1> QED BY <1>1, <1>4, <1>5, <1>6, <1>7

\* What is stored as the checksum over four words w completes the other three to all
\* ones, by the reference, exactly if the word it replaces was a zero.
LEMMA SumOfFour ==
  ASSUME NEW w \in Words, w[1] > 0
  PROVE  /\ cksum(w) \in Word
         /\ Plus(Plus(w[1], cksum(w)), Plus(w[3], w[4])) = M - 1 <=> w[2] \in {0, M - 1}
  <1> DEFINE a == w[1]  g == w[2]  b == w[3]  c == w[4]  k == cksum(w)
  <1>1. /\ a \in Word /\ a > 0 /\ g \in Word /\ b \in Word /\ c \in Word
        /\ k = M - 1 - Fold(a + g + b + c)
    BY DEF cksum, SumOf, Words
  <1> SUFFICES k \in Word /\ (Plus(Plus(a, k), Plus(b, c)) = M - 1 <=> g \in {0, M - 1})
    OBVIOUS
  <1> HIDE DEF a, g, b, c, k
  <1>2. /\ a + g + b + c \in Nat /\ a + g + b + c > 0
        /\ a + g + b + c =< M + M + M + M - 4
    BY <1>1 DEF Word
  <1>3. /\ Fold(a + g + b + c) \in 1..(M - 1)
        /\ \E j \in 0..3 : a + g + b + c = Fold(a + g + b + c) + j * (M - 1)
    BY <1>2, FoldIs
  <1>4. PICK j \in 0..3 : a + g + b + c = (M - 1 - k) + j * (M - 1)
    BY <1>1, <1>3
  <1>5. k \in Word
    BY <1>1, <1>3 DEF Word
  <1>6. CASE j = 0
    BY <1>1, <1>4, <1>5, <1>6 DEF Plus, Word
  <1>7. CASE j = 1
    BY <1>1, <1>4, <1>5, <1>7 DEF Plus, Word
  <1>8. CASE j = 2
    BY <1>1, <1>4, <1>5, <1>8 DEF Plus, Word
  <1>9. CASE j = 3
    BY <1>1, <1>4, <1>5, <1>9 DEF Plus, Word
  <1> QED BY <1>5, <1>6, <1>7, <1>8, <1>9

\* The checksum of a header is a word.
LEMMA HeaderIs ==
  ASSUME ident \in Word, sequence \in Nat, NEW g \in Word
  PROVE  /\ Header(g) =
              <<ICMP_ECHO, cksum(<<ICMP_ECHO, g, ident, sequence % M>>), ident, sequence % M>>
         /\ Header(g) \in Words
  <1>0. sequence % M \in Word
    BY DEF Word
  <1>1. ICMP_ECHO \in Word /\ ICMP_ECHO > 0
    BY DEF Word, ICMP_ECHO
  <1>2. Echo(g) \in Words /\ Echo(g)[1] > 0
    BY <1>0, <1>1 DEF Echo, Words
  <1>3. cksum(Echo(g)) \in Word
    BY <1>2, SumOfFour
  <1> QED BY <1>0, <1>1, <1>3 DEF Header, Echo, Words

\* The next sequence number is an int.
LEMMA NumberIs ==
  ASSUME sequence \in Nat
  PROVE  NextNumber \in 0..(Ints - 1)
  BY DEF NextNumber

----------------------------------------------------------------------------
(* The invariant                                                           *)

\* The request that is due, the packets that are pending and the one main() is
\* busy with: with a socket, each of them but the packets that came unasked
\* stands for the same single request.
Due    == IF alarm THEN 1 ELSE 0
Busy   == IF pc \in {"heap", "alarm"} THEN 1 ELSE 0
Tokens == sockfd /\ pc # "torn" => Due + Len(inbox) + Busy =< 1 + strays

\* Before main() has set everything up nothing happens.
Fresh == pc = "start" => ~sockfd /\ ~alarm /\ inbox = <<>>

\* The header carries the checksum over what its field held.
Sealed ==
  packet # NoPacket =>
    /\ packet[1] = ICMP_ECHO
    /\ packet[2] = cksum(<<ICMP_ECHO, junk, packet[3], packet[4]>>)

Inv == TypeOK /\ Tokens /\ Fresh /\ Sealed /\ HeapSafe

LEMMA InitInv == Init => Inv
  <1> SUFFICES ASSUME Init PROVE Inv
    OBVIOUS
  <1> USE DEF Init
  <1>1. 0 \in Word /\ ident \in Word
    BY DEF Word
  <1>2. TypeOK
    <2>1. packet \in Words /\ sequence \in 0..(Ints - 1) /\ junk \in Word
      BY <1>1 DEF NoPacket, Words
    <2>2. inbox \in Seq(Hosts) /\ strays \in 0..MaxStrays
      OBVIOUS
    <2> QED BY <1>1, <2>1, <2>2 DEF TypeOK
  <1>3. Tokens /\ Fresh /\ HeapSafe
    BY DEF Tokens, Fresh, HeapSafe
  <1>4. Sealed
    BY DEF Sealed
  <1> QED BY <1>2, <1>3, <1>4 DEF Inv

\* The handler spends the request that was due.
LEMMA HandlerInv ==
  ASSUME Inv, clock_handler
  PROVE  Inv'
  <1> USE DEF Inv
  <1>1. /\ alarm /\ alarm' = FALSE
        /\ pc' = pc \/ (pc = "heap" /\ pc' = "torn")
        /\ pc \in {"recv", "heap", "alarm"}
        /\ UNCHANGED <<sockfd, dst_addr, strays, ident>>
        /\ sequence' = NextNumber
        /\ inbox' = IF sockfd /\ dst_addr = Own THEN Append(inbox, Own) ELSE inbox
    BY DEF clock_handler, AfterExpiry, pinger
  <1>2. PICK g \in Word : junk' = g /\ packet' = Header(g)
    BY DEF clock_handler, pinger
  <1>3. ident \in Word /\ sequence \in Nat /\ inbox \in Seq(Hosts) /\ strays \in Nat
    BY DEF TypeOK
  <1>4. /\ packet' =
             <<ICMP_ECHO, cksum(<<ICMP_ECHO, g, ident, sequence % M>>), ident, sequence % M>>
        /\ packet' \in Words
    BY <1>2, <1>3, HeaderIs
  <1>5. sequence' \in 0..(Ints - 1)
    BY <1>1, <1>3, NumberIs
  <1>6. inbox' \in Seq(Hosts) /\ Len(inbox') =< Len(inbox) + 1
    BY <1>1, <1>3 DEF Hosts
  <1>7. TypeOK'
    BY <1>1, <1>2, <1>4, <1>5, <1>6 DEF TypeOK
  <1>8. Tokens'
    <2>1. Due = 1 /\ Due' = 0 /\ Busy \in {0, 1} /\ (Busy' = Busy \/ pc' = "torn")
      BY <1>1 DEF Due, Busy
    <2>2. Len(inbox) \in Nat /\ Len(inbox') \in Nat
      BY <1>3, <1>6
    <2> QED BY <1>1, <1>3, <1>6, <2>1, <2>2 DEF Tokens
  <1>9. Fresh'
    BY <1>1 DEF Fresh
  <1>10. Sealed'
    BY <1>2, <1>4 DEF Sealed
  <1>11. HeapSafe'
    <2>1. CASE pc' = "torn" /\ sockfd
      <3>1. pc # "torn" => pc = "heap"
        BY <1>1, <2>1
      <3>2. pc = "heap" => Due = 1 /\ Busy = 1
        BY <1>1 DEF Due, Busy
      <3>3. Len(inbox) \in Nat
        BY <1>3
      <3> QED BY <1>1, <1>3, <2>1, <3>1, <3>2, <3>3 DEF HeapSafe, Tokens
    <2> QED BY <1>1, <2>1 DEF HeapSafe
  <1> QED BY <1>7, <1>8, <1>9, <1>10, <1>11

\* The steps of main(): a request that is due is set, or a packet received, only
\* in the place of another.
LEMMA MainInv ==
  ASSUME Inv, Main
  PROVE  Inv'
  <1> USE DEF Inv
  <1>1. UNCHANGED <<ident, reqVars, strays>>
    BY DEF Main, NoAddress, Setup, Recvfrom, RecvFails, Renew, Alarm, netVars
  <1>2. Sealed'
    BY <1>1 DEF Sealed, reqVars
  <1>3. inbox \in Seq(Hosts) /\ strays \in Nat
    BY DEF TypeOK
  <1>4. CASE NoAddress
    BY <1>1, <1>2, <1>4 DEF NoAddress, netVars, reqVars, TypeOK, Tokens, Due, Busy, Fresh, HeapSafe
  <1>5. CASE Setup
    <2>1. Due' = 1 /\ Busy' = 0 /\ Len(inbox') = 0
      BY <1>5 DEF Setup, Due, Busy, Fresh
    <2>2. Tokens'
      BY <1>1, <1>3, <2>1 DEF Tokens
    <2> QED BY <1>1, <1>2, <1>3, <1>5, <2>2
            DEF Setup, reqVars, TypeOK, Fresh, HeapSafe, addr_from_hostname, create_socket_ICMP
  <1>6. CASE Recvfrom
    <2>1. Head(inbox) \in Hosts /\ Tail(inbox) \in Seq(Hosts)
          /\ Len(Tail(inbox)) = Len(inbox) - 1
      BY <1>3, <1>6 DEF Recvfrom
    <2>2. TypeOK'
      BY <1>1, <1>6, <2>1 DEF Recvfrom, reqVars, TypeOK
    <2>3. Busy = 0 /\ Busy' = 1 /\ Due' = Due
      BY <1>6 DEF Recvfrom, Busy, Due
    <2>4. Due \in {0, 1} /\ Len(inbox) \in Nat
      BY <1>3 DEF Due
    <2>5. Tokens'
      BY <1>1, <1>3, <1>6, <2>1, <2>3, <2>4 DEF Recvfrom, Tokens
    <2> QED BY <1>2, <1>6, <2>2, <2>5 DEF Recvfrom, Fresh, HeapSafe
  <1>7. CASE RecvFails
    BY <1>1, <1>2, <1>7
    DEF RecvFails, netVars, reqVars, TypeOK, Tokens, Due, Busy, Fresh, HeapSafe
  <1>8. CASE Renew
    BY <1>1, <1>2, <1>8
    DEF Renew, AfterHeap, netVars, reqVars, TypeOK, Tokens, Due, Busy, Fresh, HeapSafe
  <1>9. CASE Alarm
    <2>1. TypeOK' /\ Fresh' /\ HeapSafe'
      BY <1>1, <1>9 DEF Alarm, netVars, reqVars, TypeOK, Fresh, HeapSafe
    <2>2. Busy = 1 /\ Busy' = 0 /\ Due' = 1 /\ Due \in {0, 1}
      BY <1>9 DEF Alarm, Busy, Due
    <2>3. Len(inbox) \in Nat
      BY <1>3
    <2>4. Tokens'
      BY <1>1, <1>3, <1>9, <2>2, <2>3 DEF Alarm, netVars, Tokens
    <2> QED BY <1>2, <2>1, <2>4
  <1> QED BY <1>4, <1>5, <1>6, <1>7, <1>8, <1>9 DEF Main

\* A packet that comes unasked adds one.
LEMMA StrayInv ==
  ASSUME Inv, NEW h \in Hosts, Stray(h)
  PROVE  Inv'
  <1> USE DEF Inv
  <1>1. inbox \in Seq(Hosts) /\ strays \in 0..MaxStrays
    BY DEF TypeOK
  <1>2. inbox' \in Seq(Hosts) /\ Len(inbox') = Len(inbox) + 1
        /\ strays' = strays + 1 /\ strays' \in 0..MaxStrays
    BY <1>1 DEF Stray
  <1>3. UNCHANGED <<pc, alarm, sockfd, dst_addr, ident, reqVars>>
    BY DEF Stray
  <1>4. TypeOK'
    BY <1>2, <1>3 DEF TypeOK, reqVars
  <1>5. Tokens'
    <2>1. Due' = Due /\ Busy' = Busy /\ Due \in {0, 1} /\ Busy \in {0, 1}
      BY <1>3 DEF Due, Busy
    <2>2. Len(inbox) \in Nat
      BY <1>1
    <2> QED BY <1>1, <1>2, <1>3, <2>1, <2>2 DEF Tokens
  <1>6. Fresh' /\ HeapSafe'
    BY <1>1, <1>2, <1>3 DEF Fresh, HeapSafe, Stray
  <1>7. Sealed'
    BY <1>3 DEF Sealed, reqVars
  <1> QED BY <1>4, <1>5, <1>6, <1>7

LEMMA NextInv == Inv /\ [Next]_vars => Inv'
  <1> SUFFICES ASSUME Inv, [Next]_vars PROVE Inv'
    OBVIOUS
  <1>1. CASE UNCHANGED vars
    BY <1>1 DEF Inv, vars, netVars, reqVars, TypeOK, Tokens, Due, Busy, Fresh, Sealed, HeapSafe
  <1> QED BY <1>1, HandlerInv, MainInv, StrayInv DEF Next

THEOREM Invariance == Spec => []Inv
  BY InitInv, NextInv, PTL DEF Spec

----------------------------------------------------------------------------
(* Theorems                                                                *)

\* Every variable of the ping keeps its type, whatever comes from the network: the
\* checksum and the number in a header are words, the number itself an int.
THEOREM TypeCorrect == Spec => []TypeOK
  <1>1. Inv => TypeOK
    BY DEF Inv
  <1> QED BY <1>1, Invariance, PTL

\* clock_handler() finds ping() in free() or malloc() only if a packet came unasked
\* or there is no socket.
THEOREM HandlerSafe == Spec => []HeapSafe
  <1>1. Inv => HeapSafe
    BY DEF Inv
  <1> QED BY <1>1, Invariance, PTL

\* cksum() over a header whose checksum field is not cleared is right exactly if
\* the field held a zero, for every word size, process id and sequence number.
THEOREM ChecksumCorrect == Spec => []ChecksumRight
  <1>1. Inv => ChecksumRight
    <2> SUFFICES ASSUME Inv, packet # NoPacket
                 PROVE  AllOnes <=> junk \in {0, M - 1}
      BY DEF ChecksumRight
    <2>1. /\ packet[1] = ICMP_ECHO
          /\ packet[2] = cksum(<<ICMP_ECHO, junk, packet[3], packet[4]>>)
      BY DEF Inv, Sealed
    <2>2. packet[3] \in Word /\ packet[4] \in Word /\ junk \in Word
      BY DEF Inv, TypeOK, Words
    <2>3. ICMP_ECHO \in Word /\ ICMP_ECHO > 0
      BY DEF Word, ICMP_ECHO
    <2> DEFINE w == <<ICMP_ECHO, junk, packet[3], packet[4]>>
    <2>4. w \in Words /\ w[1] > 0
      BY <2>2, <2>3 DEF Words
    <2>5. Plus(Plus(w[1], cksum(w)), Plus(w[3], w[4])) = M - 1 <=> w[2] \in {0, M - 1}
      BY <2>4, SumOfFour
    <2> QED BY <2>1, <2>5 DEF AllOnes
  <1> QED BY <1>1, Invariance, PTL
============================================================================
