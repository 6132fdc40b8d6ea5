----------------------- MODULE BroadcastSessionProofs -----------------------
(***************************************************************************)
(* Proofs about BroadcastSession for every set of peers, finite or not,    *)
(* every length of the list, and every number of starts and events.        *)
(***************************************************************************)
EXTENDS BroadcastSession, FiniteSetTheorems, TLAPS

HasLong(p) == \E k \in Slots : client[p][k].kind = "long"

\* clientsNum exceeds p's list only when an entry is about to be copied past its end or
\* has been, and a list is overrun by such an entry or by a long one.
ListOf(p) ==
  /\ lpc[p] \in {"recv", "addr"} => clientsNum[p] =< Room
  /\ lpc[p] = "copy" => clientsNum[p] >= 1
  /\ lpc[p] = "overrun" => clientsNum[p] > Room \/ HasLong(p)

\* The types of what the main threads and the speakers use, and of what the
\* listeners do.
Wire ==
  /\ pc \in [Peers -> {"off", "deaf", "bound", "entered", "running"}]
  /\ inbox \in [Peers -> [Peers -> Seq(Kinds)]]
  /\ spc \in [Peers -> {"kbhit", "list"}]
  /\ events \in 0..MaxEvents /\ starts \in 0..MaxStarts
  /\ joins \in Nat /\ empties \in Nat

Memory ==
  /\ lpc \in [Peers -> {"recv", "addr", "copy", "overrun"}]
  /\ buffer_rd \in [Peers -> Texts]
  /\ clientsNum \in [Peers -> 0..(Room + 1)]
  /\ client \in [Peers -> [Slots -> RowTexts]]
  /\ i \in [Peers -> Nat] /\ \A p \in Peers : i[p] =< clientsNum[p]
  /\ screen \in [Peers -> SUBSET Peers]

ListInv == Wire /\ Memory /\ \A p \in Peers : ListOf(p)

USE SessionAssumption DEF lstVars, spkVars, cntVars

\* A broadcast appends one datagram at some of the sessions that are bound, at all of
\* them if users are patient.
LEMMA BroadcastStep ==
  ASSUME Wire, NEW p \in Peers, NEW kind \in Kinds, NEW n \in Nat, Broadcast(p, kind, n)
  PROVE  /\ inbox' \in [Peers -> [Peers -> Seq(Kinds)]]
         /\ \A q, r \in Peers :
              \/ inbox'[q][r] = inbox[q][r]
              \/ r = p /\ q \in Reachable /\ inbox'[q][r] = Append(inbox[q][r], kind)
         /\ patient => \A q \in Reachable : inbox'[q][p] = Append(inbox[q][p], kind)
         /\ events' \in 0..MaxEvents
         /\ joins' = IF kind = "enter" THEN joins + 1 ELSE joins
         /\ empties' = IF kind = "empty" THEN empties + 1 ELSE empties
<1> USE DEF Wire
<1>1. PICK S \in SUBSET Reachable :
        /\ IF S = Reachable THEN Happen(n) ELSE ~patient /\ Happen(n + 1)
        /\ inbox' = [q \in Peers |-> IF q \in S THEN [inbox[q] EXCEPT ![p] = Append(@, kind)]
                                                ELSE inbox[q]]
  BY DEF Broadcast
<1>2. \A q, r \in Peers : inbox'[q][r] = IF q \in S /\ r = p THEN Append(inbox[q][r], kind)
                                                             ELSE inbox[q][r]
  BY <1>1
<1>3. \A q, r \in Peers : Append(inbox[q][r], kind) \in Seq(Kinds)
  OBVIOUS
<1>4. inbox' \in [Peers -> [Peers -> Seq(Kinds)]]
  BY <1>1, <1>3
<1>5. patient => S = Reachable
  BY <1>1
<1>6. events' \in 0..MaxEvents
  BY <1>1 DEF Happen
<1>7. /\ joins' = IF kind = "enter" THEN joins + 1 ELSE joins
      /\ empties' = IF kind = "empty" THEN empties + 1 ELSE empties
  BY DEF Broadcast
<1>8. Reachable \subseteq Peers
  BY DEF Reachable
<1>9. QED
  BY <1>2, <1>4, <1>5, <1>6, <1>7, <1>8

LEMMA RecvfromStep ==
  ASSUME Wire, NEW p \in Peers, NEW r \in Peers, Recvfrom(p, r)
  PROVE  /\ inbox' \in [Peers -> [Peers -> Seq(Kinds)]]
         /\ inbox'[p][r] = Tail(inbox[p][r])
         /\ \A q, s \in Peers : q # p \/ s # r => inbox'[q][s] = inbox[q][s]
         /\ Received(p, r) \in Texts /\ pc[p] = "running"
<1> USE DEF Wire
<1>1. inbox[p][r] \in Seq(Kinds) /\ inbox[p][r] # <<>>
  BY DEF Recvfrom
<1>2. Tail(inbox[p][r]) \in Seq(Kinds) /\ Head(inbox[p][r]) \in Kinds
  BY <1>1
<1>3. QED
  BY <1>2 DEF Recvfrom, Received, Datagrams, Texts

\* A text that is not long fills one row, and nothing is written past the list's end.
LEMMA CopyShort ==
  ASSUME Memory, NEW p \in Peers, Copy(p), buffer_rd[p].kind # "long"
  PROVE  \/ /\ Slot(p) \in Slots /\ client' = [client EXCEPT ![p][Slot(p)] = buffer_rd[p]]
            /\ lpc' = [lpc EXCEPT ![p] = "recv"]
         \/ Slot(p) >= Room /\ client' = client /\ lpc' = [lpc EXCEPT ![p] = "overrun"]
         \/ Slot(p) < 0
<1>1. Slot(p) \in Int /\ RowsOf(buffer_rd[p]) = 1
  BY DEF Memory, Slot, RowsOf
<1> DEFINE new == [k \in Slots |-> IF k = Slot(p) THEN buffer_rd[p] ELSE client[p][k]]
<1>2. \A k \in Slots : ~(k > Slot(p) /\ k < Slot(p) + 1)
  BY <1>1 DEF Slots
<1>3. client' = [client EXCEPT ![p] = new]
  BY <1>1, <1>2 DEF Copy
<1>4. lpc' = [lpc EXCEPT ![p] = IF Slot(p) + 1 =< Room THEN "recv" ELSE "overrun"]
  BY <1>1 DEF Copy, AfterCopy
<1>5. client \in [Peers -> [Slots -> RowTexts]]
  BY DEF Memory
<1>6. CASE Slot(p) \in Slots
  <2>1. new = [client[p] EXCEPT ![Slot(p)] = buffer_rd[p]]
    BY <1>5, <1>6
  <2>2. Slot(p) + 1 =< Room
    BY <1>6 DEF Slots
  <2> HIDE DEF new
  <2>3. QED
    BY <1>3, <1>4, <1>6, <2>1, <2>2
<1>7. CASE Slot(p) >= Room
  <2>1. new = client[p]
    BY <1>1, <1>5, <1>7 DEF Slots
  <2>2. ~(Slot(p) + 1 =< Room)
    BY <1>1, <1>7
  <2> HIDE DEF new
  <2>3. QED
    BY <1>3, <1>4, <1>5, <1>7, <2>1, <2>2
<1>8. QED
  BY <1>1, <1>6, <1>7 DEF Slots

LEMMA InitList == Init => ListInv
<1> SUFFICES ASSUME Init PROVE ListInv
  OBVIOUS
<1>1. <<>> \in Seq(Kinds)
  OBVIOUS
<1>2. Wire
  BY <1>1 DEF Init, Wire
<1>3. Memory
  BY DEF Init, Memory, Texts, RowTexts
<1>4. QED
  BY <1>2, <1>3 DEF Init, ListInv, ListOf, Slots

LEMMA StepWire == Wire /\ [Next]_vars => Wire'
<1>0. SUFFICES ASSUME Wire, [Next]_vars PROVE Wire'
  OBVIOUS
<1>1. ASSUME NEW p \in Peers, Bind(p) PROVE Wire'
  <2>1. /\ starts < MaxStarts /\ starts' = starts + 1 /\ UNCHANGED <<inbox, spc, joins, empties>>
        /\ pc' = [pc EXCEPT ![p] = "bound"] \/ pc' = [pc EXCEPT ![p] = "deaf"]
        /\ UNCHANGED events \/ Happen(1)
    BY <1>1, Zenon DEF Bind, Fault
  <2>2. starts' \in 0..MaxStarts /\ events' \in 0..MaxEvents
    BY <1>0, <2>1 DEF Wire, Happen
  <2>3. pc' \in [Peers -> {"off", "deaf", "bound", "entered", "running"}]
    BY <1>0, <2>1 DEF Wire
  <2>4. QED
    BY <1>0, <2>1, <2>2, <2>3 DEF Wire
<1>2. ASSUME NEW p \in Peers, Kill(p) PROVE Wire'
  <2>1. [r \in Peers |-> <<>>] \in [Peers -> Seq(Kinds)]
    OBVIOUS
  <2>2. /\ Happen(1) /\ UNCHANGED <<starts, joins, empties>>
        /\ pc' = [pc EXCEPT ![p] = "off"] /\ spc' = [spc EXCEPT ![p] = "kbhit"]
        /\ inbox' = [inbox EXCEPT ![p] = [r \in Peers |-> <<>>]]
    BY <1>2, Zenon DEF Kill, Fault
  <2>3. QED
    BY <1>0, <2>1, <2>2 DEF Wire, Happen
<1>3. ASSUME NEW p \in Peers, SendEnter(p) PROVE Wire'
  <2>1. /\ inbox' \in [Peers -> [Peers -> Seq(Kinds)]] /\ events' \in 0..MaxEvents
        /\ joins' = joins + 1 /\ empties' = empties
    BY <1>0, <1>3, BroadcastStep DEF SendEnter, Kinds
  <2>2. joins' \in Nat /\ empties' \in Nat
    BY <1>0, <2>1 DEF Wire
  <2>3. QED
    BY <1>0, <1>3, <2>1, <2>2 DEF SendEnter, Wire
<1>4. ASSUME NEW p \in Peers, SendAddress(p) PROVE Wire'
  <2>1. PICK ip \in {"ip", "text"} : Broadcast(p, ip, IF ip = "ip" THEN 0 ELSE 1)
    BY <1>4 DEF SendAddress, getip
  <2>2. /\ inbox' \in [Peers -> [Peers -> Seq(Kinds)]] /\ events' \in 0..MaxEvents
        /\ joins' = joins /\ empties' = empties
    BY <1>0, <2>1, BroadcastStep DEF Kinds
  <2>3. QED
    BY <1>0, <1>4, <2>2 DEF SendAddress, Wire
<1>5. ASSUME NEW p \in Peers, NEW r \in Peers, Listen(p, r) \/ ListenAddress(p, r) PROVE Wire'
  <2>1. inbox' \in [Peers -> [Peers -> Seq(Kinds)]]
    BY <1>0, <1>5, RecvfromStep DEF Listen, ListenAddress
  <2>2. QED
    BY <1>0, <1>5, <2>1 DEF Listen, ListenAddress, Wire
<1>6. ASSUME NEW p \in Peers, NEW kind \in Lines, Say(p, kind) PROVE Wire'
  <2>1. Broadcast(p, kind, 1) /\ UNCHANGED <<pc, spc, i, starts>>
    BY <1>6, Zenon DEF Say
  <2>2. /\ inbox' \in [Peers -> [Peers -> Seq(Kinds)]] /\ events' \in 0..MaxEvents
        /\ joins' = IF kind = "enter" THEN joins + 1 ELSE joins
        /\ empties' = IF kind = "empty" THEN empties + 1 ELSE empties
    BY <1>0, <2>1, BroadcastStep DEF Kinds, Lines
  <2>3. QED
    BY <1>0, <2>1, <2>2 DEF Wire
<1>7. ASSUME NEW p \in Peers, List(p) PROVE Wire'
  BY <1>0, <1>7 DEF List, Happen, Wire
<1>8. ASSUME NEW p \in Peers, ListEntry(p) PROVE Wire'
  <2>1. /\ UNCHANGED <<pc, inbox, events, starts, joins, empties>>
        /\ UNCHANGED spc \/ spc' = [spc EXCEPT ![p] = "kbhit"]
    BY <1>8, Zenon DEF ListEntry
  <2>2. QED
    BY <1>0, <2>1 DEF Wire
<1>9. CASE UNCHANGED <<pc, inbox, spkVars, cntVars>>
  BY <1>0, <1>9 DEF Wire
<1>10. ASSUME NEW p \in Peers, ListenNothing(p) PROVE Wire'
  <2>1. Happen(1) /\ empties' = empties + 1 /\ UNCHANGED <<pc, inbox, spc, starts, joins>>
    BY <1>10, Zenon DEF ListenNothing, Fault, spkVars
  <2>2. QED
    BY <1>0, <2>1 DEF Wire, Happen
<1>11. QED
  BY <1>0, <1>1, <1>2, <1>3, <1>4, <1>5, <1>6, <1>7, <1>8, <1>9, <1>10
     DEF Next, vars, Main, Listener, Copy, Speaker

LEMMA StepMemory == ListInv /\ [Next]_vars => Memory'
<1>0. SUFFICES ASSUME ListInv, [Next]_vars PROVE Memory'
  OBVIOUS
<1>1. Wire /\ Memory
  BY <1>0 DEF ListInv
<1>2. ASSUME NEW p \in Peers, Kill(p) PROVE Memory'
  <2>1. client' \in [Peers -> [Slots -> RowTexts]]
    BY <1>1, <1>2 DEF Kill, Memory, RowTexts, Texts
  <2>2. i' \in [Peers -> Nat] /\ clientsNum' \in [Peers -> 0..(Room + 1)]
        /\ \A q \in Peers : i'[q] =< clientsNum'[q]
    BY <1>1, <1>2 DEF Kill, Memory
  <2>3. /\ buffer_rd' \in [Peers -> Texts]
        /\ lpc' \in [Peers -> {"recv", "addr", "copy", "overrun"}]
        /\ screen' \in [Peers -> SUBSET Peers]
    BY <1>1, <1>2 DEF Kill, Memory, Texts
  <2>4. QED
    BY <2>1, <2>2, <2>3 DEF Memory
<1>3. ASSUME NEW p \in Peers, NEW r \in Peers, Listen(p, r) PROVE Memory'
  <2>1. screen' \in [Peers -> SUBSET Peers]
    BY <1>1, <1>3 DEF Listen, Memory
  <2>2. QED
    BY <1>1, <1>3, <2>1 DEF Listen, Memory
<1>4. ASSUME NEW p \in Peers, NEW d \in Texts, TakeAddress(p, d),
             UNCHANGED <<client, screen, i>>
      PROVE  Memory'
  <2>1. clientsNum[p] =< Room
    BY <1>0, <1>4 DEF ListInv, ListOf, TakeAddress
  <2>2. clientsNum' \in [Peers -> 0..(Room + 1)] /\ \A q \in Peers : i'[q] =< clientsNum'[q]
    BY <1>1, <1>4, <2>1 DEF TakeAddress, Memory
  <2>3. QED
    BY <1>1, <1>4, <2>2 DEF TakeAddress, Memory
<1>5. ASSUME NEW p \in Peers, Copy(p) PROVE Memory'
  <2>1. client' \in [Peers -> [Slots -> RowTexts]]
    <3> DEFINE d == buffer_rd[p]
    <3>1. d \in Texts /\ client[p] \in [Slots -> RowTexts] /\ Slot(p) \in Int
      BY <1>1 DEF Memory, Slot
    <3>2. ASSUME NEW k \in Slots, k > Slot(p), k < Slot(p) + RowsOf(d) PROVE Rest(d) \in RowTexts
      <4>1. d.kind = "long"
        BY <3>1, <3>2 DEF RowsOf, Slots
      <4>2. d \in Datagrams
        BY <3>1, <4>1 DEF Texts, Blank
      <4>3. QED
        BY <4>2 DEF Rest, RowTexts, Datagrams
    <3>3. \A k \in Slots :
            (IF k = Slot(p) THEN d
             ELSE IF k > Slot(p) /\ k < Slot(p) + RowsOf(d) THEN Rest(d) ELSE client[p][k])
              \in RowTexts
      <4>1. d \in RowTexts
        BY <3>1 DEF RowTexts
      <4> HIDE DEF d
      <4>2. QED
        BY <3>1, <3>2, <4>1
    <3>4. QED
      BY <1>1, <1>5, <3>3 DEF Copy, Memory
  <2>2. lpc' \in [Peers -> {"recv", "addr", "copy", "overrun"}]
    BY <1>1, <1>5 DEF Copy, Memory, AfterCopy
  <2>3. buffer_rd' \in [Peers -> Texts]
    BY <1>1, <1>5 DEF Copy, Memory, Texts
  <2>4. QED
    BY <1>1, <1>5, <2>1, <2>2, <2>3 DEF Copy, Memory
<1>6. ASSUME NEW p \in Peers, ListEntry(p) PROVE Memory'
  <2>1. UNCHANGED lstVars
    BY <1>6, Zenon DEF ListEntry
  <2>2. \/ i' = [i EXCEPT ![p] = @ + 1] /\ i[p] < clientsNum[p]
        \/ i' = [i EXCEPT ![p] = 0]
        \/ i' = i
    BY <1>6 DEF ListEntry, InList
  <2>3. i' \in [Peers -> Nat] /\ \A q \in Peers : i'[q] =< clientsNum[q]
    <3>1. \A q \in Peers : i[q] \in Nat /\ clientsNum[q] \in Nat /\ i[q] =< clientsNum[q]
      BY <1>1 DEF Memory
    <3>2. CASE i' = [i EXCEPT ![p] = i[p] + 1] /\ i[p] < clientsNum[p]
      BY <1>1, <3>1, <3>2 DEF Memory
    <3>3. CASE i' = [i EXCEPT ![p] = 0]
      BY <1>1, <3>1, <3>3 DEF Memory
    <3>4. CASE i' = i
      BY <1>1, <3>4 DEF Memory
    <3>5. QED
      BY <2>2, <3>2, <3>3, <3>4
  <2>4. QED
    BY <1>1, <2>1, <2>3 DEF Memory
<1>7. CASE UNCHANGED <<lstVars, i>>
  BY <1>1, <1>7 DEF Memory
<1>8. ASSUME NEW p \in Peers, NEW r \in Peers, ListenAddress(p, r) PROVE Memory'
  BY <1>1, <1>4, <1>8, RecvfromStep DEF ListenAddress
<1>9. ASSUME NEW p \in Peers, ListenNothing(p) PROVE Memory'
  <2>1. Blank \in Texts /\ TakeAddress(p, Blank) /\ UNCHANGED <<client, screen, i>>
    BY <1>9 DEF ListenNothing, Texts
  <2>2. QED
    BY <1>4, <2>1
<1>10. QED
  BY <1>0, <1>2, <1>3, <1>5, <1>6, <1>7, <1>8, <1>9
     DEF Next, vars, Bind, Main, SendEnter, SendAddress, Listener, Speaker, Say, List

\* Only the listener of p touches its list, and a kill empties it.
LEMMA StepListOf ==
  ASSUME ListInv, [Next]_vars, NEW p \in Peers
  PROVE  ListOf(p)'
<1>0. Wire /\ Memory /\ ListOf(p)
  BY DEF ListInv
<1>1. CASE UNCHANGED <<lpc[p], clientsNum[p], client[p]>>
  BY <1>0, <1>1 DEF ListOf, HasLong
<1>2. CASE Kill(p)
  BY <1>0, <1>2 DEF Kill, ListOf, Memory
<1>3. CASE \E r \in Peers : Listen(p, r)
  BY <1>0, <1>3 DEF Listen, ListOf, Memory
<1>4. CASE \E d \in Texts : TakeAddress(p, d)
  BY <1>0, <1>4 DEF TakeAddress, ListOf, Memory
<1>5. CASE Copy(p)
  <2>1. /\ lpc[p] = "copy" /\ clientsNum[p] \in Nat /\ clientsNum'[p] = clientsNum[p]
        /\ clientsNum[p] >= 1
    BY <1>0, <1>5 DEF Copy, ListOf, Memory
  <2>2. CASE buffer_rd[p].kind # "long"
    <3>1. Slot(p) = clientsNum[p] - 1 /\ lpc \in [Peers -> {"recv", "addr", "copy", "overrun"}]
      BY <1>0 DEF Slot, Memory
    <3>2. \/ Slot(p) \in Slots /\ lpc'[p] = "recv"
          \/ Slot(p) >= Room /\ lpc'[p] = "overrun"
      BY <1>0, <1>5, <2>1, <2>2, <3>1, CopyShort
    <3>3. QED
      BY <2>1, <3>1, <3>2 DEF ListOf, Slots
  <2>3. CASE buffer_rd[p].kind = "long"
    <3>1. lpc'[p] \in {"recv", "overrun"} /\ (lpc'[p] = "recv" => Slot(p) + LongRows =< Room)
      BY <1>0, <1>5, <2>3 DEF Copy, AfterCopy, RowsOf, Memory
    <3>2. Slot(p) \in Slots => client'[p][Slot(p)] = buffer_rd[p]
      BY <1>0, <1>5 DEF Copy, Memory
    <3>3. Slot(p) \in Slots => HasLong(p)'
      BY <2>3, <3>2 DEF HasLong
    <3>4. Slot(p) \notin Slots => clientsNum[p] > Room
      BY <2>1 DEF Slot, Slots
    <3>5. lpc'[p] = "recv" => clientsNum[p] =< Room
      BY <2>1, <3>1 DEF Slot
    <3>6. QED
      BY <2>1, <3>1, <3>3, <3>4, <3>5 DEF ListOf
  <2>4. QED
    BY <2>2, <2>3
<1>6. ASSUME NEW q \in Peers, q # p,
             \/ Kill(q) \/ Copy(q) \/ \E r \in Peers : Listen(q, r)
             \/ (\E d \in Texts : TakeAddress(q, d)) /\ UNCHANGED client
      PROVE  ListOf(p)'
  <2>1. UNCHANGED <<lpc[p], clientsNum[p], client[p]>>
    BY <1>0, <1>6 DEF Kill, Copy, Listen, TakeAddress, Memory
  <2>2. QED
    BY <1>1, <2>1
<1>7. CASE UNCHANGED lstVars
  BY <1>1, <1>7
<1>8. ASSUME NEW q \in Peers, NEW r \in Peers, ListenAddress(q, r) PROVE ListOf(p)'
  <2>1. Received(q, r) \in Texts
    BY <1>0, <1>8, RecvfromStep DEF ListenAddress
  <2>2. TakeAddress(q, Received(q, r)) /\ UNCHANGED client
    BY <1>8 DEF ListenAddress
  <2>3. QED
    BY <1>4, <1>6, <2>1, <2>2, Zenon
<1>9. ASSUME NEW q \in Peers, ListenNothing(q) PROVE ListOf(p)'
  <2>1. Blank \in Texts
    BY DEF Texts
  <2>2. QED
    BY <1>4, <1>6, <1>9, <2>1 DEF ListenNothing
<1>10. QED
  BY <1>2, <1>3, <1>5, <1>6, <1>7, <1>8, <1>9
     DEF Next, vars, Bind, Main, SendEnter, SendAddress, Listener, Speaker, Say, List, ListEntry

----------------------------------------------------------------------------
\* The datagrams that say w among what one session has not received yet.
Words(box, w) ==
  {m \in Peers \X Nat : m[2] \in 1..Len(box[m[1]]) /\ box[m[1]][m[2]] = w}

\* What s sent is lost, or it is the last of what s has in the box.
Appended(box, new, s, kind) ==
  /\ box \in [Peers -> Seq(Kinds)] /\ new \in [Peers -> Seq(Kinds)]
  /\ \A q \in Peers : new[q] = box[q] \/ (q = s /\ new[q] = Append(box[q], kind))

OneMore(box, new, w, kind) ==
  /\ IsFiniteSet(Words(new, w))
  /\ Cardinality(Words(new, w)) \in Nat /\ Cardinality(Words(box, w)) \in Nat
  /\ Cardinality(Words(new, w)) =< Cardinality(Words(box, w)) + 1
  /\ kind # w => Cardinality(Words(new, w)) =< Cardinality(Words(box, w))

\* The first of what s has in the box is taken out.
Taken(box, new, s) ==
  /\ box \in [Peers -> Seq(Kinds)] /\ new \in [Peers -> Seq(Kinds)] /\ box[s] # <<>>
  /\ \A q \in Peers : new[q] = IF q = s THEN Tail(box[q]) ELSE box[q]

OneLess(box, new, s, w) ==
  /\ IsFiniteSet(Words(new, w))
  /\ Cardinality(Words(new, w)) \in Nat /\ Cardinality(Words(box, w)) \in Nat
  /\ Cardinality(Words(new, w)) =< Cardinality(Words(box, w))
  /\ Head(box[s]) = w => Cardinality(Words(new, w)) =< Cardinality(Words(box, w)) - 1

\* A datagram that is sent adds at most one, and none if it says something else.
LEMMA WordsAppend ==
  ASSUME NEW box, NEW new, NEW s \in Peers, NEW kind \in Kinds, NEW w \in Kinds,
         Appended(box, new, s, kind), IsFiniteSet(Words(box, w))
  PROVE  OneMore(box, new, w, kind)
<1> USE DEF Appended
<1> DEFINE last == <<s, Len(box[s]) + 1>>
<1>1. ASSUME NEW m \in Words(new, w), m \notin Words(box, w) PROVE m = last /\ kind = w
  <2>1. PICK q \in Peers, k \in Nat : m = <<q, k>>
    BY <1>1 DEF Words
  <2>2. k \in 1..Len(new[q]) /\ new[q][k] = w /\ ~(k \in 1..Len(box[q]) /\ box[q][k] = w)
    BY <1>1, <2>1 DEF Words
  <2>3. q = s /\ new[q] = Append(box[q], kind)
    BY <2>2
  <2>4. box[s] \in Seq(Kinds)
    OBVIOUS
  <2>5. k = Len(box[s]) + 1 /\ kind = w
    BY <2>2, <2>3, <2>4
  <2>6. QED
    BY <2>1, <2>3, <2>5
<1> HIDE DEF last
<1>2. /\ IsFiniteSet(Words(box, w) \union {last}) /\ Cardinality(Words(box, w)) \in Nat
      /\ Cardinality(Words(box, w) \union {last}) =< Cardinality(Words(box, w)) + 1
  <2>1. Cardinality(Words(box, w)) \in Nat
    BY FS_CardinalityType
  <2>2. /\ IsFiniteSet(Words(box, w) \union {last})
        /\ Cardinality(Words(box, w) \union {last}) =
             IF last \in Words(box, w) THEN Cardinality(Words(box, w)) ELSE Cardinality(Words(box, w)) + 1
    BY FS_AddElement
  <2>3. QED
    BY <2>1, <2>2
<1>3. Words(new, w) \subseteq Words(box, w) \union {last}
  BY <1>1
<1>4. IsFiniteSet(Words(new, w)) /\ Cardinality(Words(new, w)) =< Cardinality(Words(box, w) \union {last})
  BY <1>2, <1>3, FS_Subset
<1>5. Cardinality(Words(new, w)) \in Nat /\ Cardinality(Words(box, w) \union {last}) \in Nat
  BY <1>2, <1>4, FS_CardinalityType
<1>6. ASSUME kind # w PROVE Cardinality(Words(new, w)) =< Cardinality(Words(box, w))
  <2>1. Words(new, w) \subseteq Words(box, w)
    BY <1>1, <1>6
  <2>2. QED
    BY <2>1, FS_Subset
<1>7. QED
  BY <1>2, <1>4, <1>5, <1>6 DEF OneMore

\* A datagram that is received takes one away if it says w.
LEMMA WordsTail ==
  ASSUME NEW box, NEW new, NEW s \in Peers, NEW w \in Kinds,
         Taken(box, new, s), IsFiniteSet(Words(box, w))
  PROVE  OneLess(box, new, s, w)
<1> USE DEF Taken
<1> DEFINE first == <<s, 1>>
           before(m) == IF m[1] = s THEN <<s, m[2] + 1>> ELSE m
           f == [m \in Words(new, w) |-> before(m)]
<1>1. box[s] \in Seq(Kinds) /\ Len(box[s]) >= 1 /\ Head(box[s]) = box[s][1]
  OBVIOUS
<1>2. ASSUME NEW m \in Words(new, w) PROVE f[m] \in Words(box, w) \ {first}
  <2>1. PICK q \in Peers, k \in Nat : m = <<q, k>>
    BY <1>2 DEF Words
  <2>2. k \in 1..Len(new[q]) /\ new[q][k] = w
    BY <1>2, <2>1 DEF Words
  <2>3. CASE q = s
    <3>1. new[q] = Tail(box[s])
      BY <2>3
    <3>2. k + 1 \in 1..Len(box[s]) /\ box[s][k + 1] = w /\ k + 1 # 1
      BY <1>1, <2>2, <3>1
    <3>3. <<s, k + 1>> \in Words(box, w)
      <4>1. <<s, k + 1>> \in Peers \X Nat
        BY <2>1
      <4>2. QED
        BY <3>2, <4>1 DEF Words
    <3>4. f[m] = <<s, k + 1>>
      BY <2>1, <2>3
    <3>5. <<s, k + 1>> # first
      BY <3>2
    <3>6. QED
      BY <3>3, <3>4, <3>5, Zenon
  <2>4. CASE q # s
    <3>1. f[m] = m
      BY <2>1, <2>4
    <3>2. m \in Words(box, w)
      BY <2>1, <2>2, <2>4 DEF Words
    <3>3. QED
      BY <2>1, <2>4, <3>1, <3>2
  <2>5. QED
    BY <2>3, <2>4
<1>3. ASSUME NEW m \in Words(new, w), NEW n \in Words(new, w), f[m] = f[n] PROVE m = n
  <2>1. PICK q \in Peers, k \in Nat : m = <<q, k>>
    BY DEF Words
  <2>2. PICK r \in Peers, l \in Nat : n = <<r, l>>
    BY DEF Words
  <2>3. f[m] = IF q = s THEN <<s, k + 1>> ELSE <<q, k>>
    BY <2>1
  <2>4. f[n] = IF r = s THEN <<s, l + 1>> ELSE <<r, l>>
    BY <2>2
  <2>5. QED
    BY <1>3, <2>1, <2>2, <2>3, <2>4
<1>4. f \in Injection(Words(new, w), Words(box, w) \ {first})
  BY <1>2, <1>3 DEF Injection, IsInjective
<1>5. /\ IsFiniteSet(Words(box, w) \ {first}) /\ Cardinality(Words(box, w)) \in Nat
      /\ Cardinality(Words(box, w) \ {first}) =
           IF first \in Words(box, w) THEN Cardinality(Words(box, w)) - 1 ELSE Cardinality(Words(box, w))
  BY FS_RemoveElement, FS_CardinalityType
<1>6. /\ IsFiniteSet(Words(new, w))
      /\ Cardinality(Words(new, w)) =< Cardinality(Words(box, w) \ {first})
  BY <1>4, <1>5, FS_Injection
<1>7. Cardinality(Words(new, w)) \in Nat
  BY <1>6, FS_CardinalityType
<1>8. Head(box[s]) = w => first \in Words(box, w)
  BY <1>1 DEF Words
<1>9. QED
  BY <1>5, <1>6, <1>7, <1>8 DEF OneLess

Asked(p) == IF lpc[p] = "addr" THEN 1 ELSE 0

\* An entry was asked for by a "*_EC" that was received; those that are under way
\* were sent as well.
JoinsOf(p) ==
  /\ IsFiniteSet(Words(inbox[p], "enter"))
  /\ clientsNum[p] + Asked(p) + Cardinality(Words(inbox[p], "enter")) =< joins

LEMMA InitJoins == Init => \A p \in Peers : JoinsOf(p)
<1> SUFFICES ASSUME Init, NEW p \in Peers PROVE JoinsOf(p)
  OBVIOUS
<1>1. clientsNum[p] = 0 /\ Asked(p) = 0 /\ joins = 0 /\ inbox[p] = [r \in Peers |-> <<>>]
  BY DEF Init, Asked
<1>2. Words(inbox[p], "enter") = {}
  BY <1>1 DEF Words
<1>3. IsFiniteSet(Words(inbox[p], "enter")) /\ Cardinality(Words(inbox[p], "enter")) = 0
  BY <1>2, FS_EmptySet
<1>4. QED
  BY <1>1, <1>3 DEF JoinsOf

LEMMA BroadcastJoins ==
  ASSUME ListInv, NEW p \in Peers, JoinsOf(p), UNCHANGED <<lpc, clientsNum>>,
         NEW s \in Peers, NEW kind \in Kinds, NEW n \in Nat, Broadcast(s, kind, n)
  PROVE  JoinsOf(p)'
<1>0. Wire /\ Memory
  BY DEF ListInv
<1>1. /\ inbox' \in [Peers -> [Peers -> Seq(Kinds)]]
      /\ \A q \in Peers : inbox'[p][q] = inbox[p][q]
                          \/ (q = s /\ inbox'[p][q] = Append(inbox[p][q], kind))
      /\ joins' = IF kind = "enter" THEN joins + 1 ELSE joins
  BY <1>0, BroadcastStep
<1>2. inbox[p] \in [Peers -> Seq(Kinds)] /\ inbox'[p] \in [Peers -> Seq(Kinds)]
  BY <1>0, <1>1 DEF Wire
<1>3. IsFiniteSet(Words(inbox[p], "enter"))
  BY DEF JoinsOf
<1>4. OneMore(inbox[p], inbox'[p], "enter", kind)
  <2>1. "enter" \in Kinds
    BY DEF Kinds
  <2>2. Appended(inbox[p], inbox'[p], s, kind)
    BY <1>1, <1>2 DEF Appended
  <2>3. QED
    BY <1>3, <2>1, <2>2, WordsAppend, Zenon
<1>5. clientsNum[p] \in Nat /\ Asked(p) \in Nat /\ joins \in Nat
  BY <1>0 DEF Memory, Wire, Asked
<1>6. clientsNum'[p] = clientsNum[p] /\ Asked(p)' = Asked(p)
  BY DEF Asked
<1>7. clientsNum'[p] + Asked(p)' + Cardinality(Words(inbox'[p], "enter")) =< joins'
  <2>1. clientsNum[p] + Asked(p) + Cardinality(Words(inbox[p], "enter")) =< joins
    BY DEF JoinsOf
  <2>2. joins' = IF kind = "enter" THEN joins + 1 ELSE joins
    BY <1>1
  <2>3. /\ Cardinality(Words(inbox'[p], "enter")) \in Nat
        /\ Cardinality(Words(inbox[p], "enter")) \in Nat
        /\ Cardinality(Words(inbox'[p], "enter")) =< Cardinality(Words(inbox[p], "enter")) + 1
        /\ kind # "enter" =>
             Cardinality(Words(inbox'[p], "enter")) =< Cardinality(Words(inbox[p], "enter"))
    BY <1>4 DEF OneMore
  <2>4. QED
    BY <1>5, <1>6, <2>1, <2>2, <2>3
<1>8. QED
  BY <1>4, <1>7 DEF JoinsOf, Words, OneMore

LEMMA ReceiveJoins ==
  ASSUME ListInv, NEW p \in Peers, JoinsOf(p), NEW r \in Peers, Listen(p, r) \/ ListenAddress(p, r)
  PROVE  JoinsOf(p)'
<1>1. Wire /\ Memory /\ Recvfrom(p, r)
  BY DEF ListInv, Listen, ListenAddress
<1>2. /\ inbox[p] \in [Peers -> Seq(Kinds)] /\ inbox'[p] \in [Peers -> Seq(Kinds)]
      /\ \A q \in Peers : inbox'[p][q] = IF q = r THEN Tail(inbox[p][q]) ELSE inbox[p][q]
      /\ inbox[p][r] # <<>>
  BY <1>1, RecvfromStep DEF Wire, Recvfrom
<1>3. IsFiniteSet(Words(inbox[p], "enter"))
  BY DEF JoinsOf
<1>4. OneLess(inbox[p], inbox'[p], r, "enter")
  <2>1. "enter" \in Kinds
    BY DEF Kinds
  <2>2. Taken(inbox[p], inbox'[p], r)
    BY <1>2 DEF Taken
  <2>3. QED
    BY <1>3, <2>1, <2>2, WordsTail, Zenon
<1>5. /\ clientsNum[p] \in Nat /\ clientsNum'[p] \in Nat /\ joins \in Nat /\ joins' = joins
      /\ \/ clientsNum'[p] = clientsNum[p] /\ Asked(p) = 0 /\ Asked(p)' = 1
            /\ Head(inbox[p][r]) = "enter"
         \/ clientsNum'[p] = clientsNum[p] /\ Asked(p) = 0 /\ Asked(p)' = 0
         \/ clientsNum'[p] = clientsNum[p] + 1 /\ Asked(p) = 1 /\ Asked(p)' = 0
  <2>1. CASE Listen(p, r)
    BY <1>1, <2>1 DEF Memory, Wire, Listen, Asked, IsEnter
  <2>2. CASE ListenAddress(p, r)
    BY <1>1, <2>2 DEF Memory, Wire, ListenAddress, TakeAddress, Asked
  <2>3. QED
    BY <2>1, <2>2
<1>6. clientsNum[p] + Asked(p) + Cardinality(Words(inbox[p], "enter")) =< joins
  BY DEF JoinsOf
<1>7. clientsNum'[p] + Asked(p)' + Cardinality(Words(inbox'[p], "enter")) =< joins'
  BY <1>4, <1>5, <1>6 DEF OneLess
<1>8. QED
  BY <1>4, <1>7 DEF JoinsOf, Words, OneLess

LEMMA StepJoins ==
  ASSUME ListInv, [Next]_vars, NEW p \in Peers, JoinsOf(p)
  PROVE  JoinsOf(p)'
<1>1. ASSUME UNCHANGED <<inbox[p], clientsNum[p], lpc[p], joins>> PROVE JoinsOf(p)'
  BY <1>1 DEF JoinsOf, Words, Asked
<1>2. Wire /\ Memory
  BY DEF ListInv
<1>3. CASE \E s \in Peers : SendEnter(s)
  BY <1>3, BroadcastJoins DEF SendEnter, Kinds
<1>4. CASE \E s \in Peers : SendAddress(s)
  <2>1. PICK s \in Peers : SendAddress(s)
    BY <1>4
  <2>2. PICK ip \in {"ip", "text"} : Broadcast(s, ip, IF ip = "ip" THEN 0 ELSE 1)
    BY <2>1 DEF SendAddress, getip
  <2>3. UNCHANGED <<lpc, clientsNum>>
    BY <2>1 DEF SendAddress
  <2>4. QED
    BY <2>2, <2>3, BroadcastJoins DEF Kinds
<1>5. CASE \E s \in Peers, kind \in Lines : Say(s, kind)
  BY <1>5, BroadcastJoins DEF Say, Kinds, Lines
<1>6. CASE Kill(p)
  <2>1. /\ inbox'[p] = [r \in Peers |-> <<>>] /\ clientsNum'[p] = 0 /\ lpc'[p] = "recv"
        /\ joins' = joins /\ joins \in Nat
    BY <1>2, <1>6 DEF Kill, Wire, Memory
  <2>2. Words(inbox'[p], "enter") = {}
    BY <2>1 DEF Words
  <2>3. Words(inbox[p], "enter")' = {} /\ Asked(p)' = 0
    BY <2>1, <2>2 DEF Words, Asked
  <2>4. IsFiniteSet(Words(inbox[p], "enter")') /\ Cardinality(Words(inbox[p], "enter")') = 0
    BY <2>3, FS_EmptySet
  <2>5. clientsNum'[p] + Asked(p)' + 0 =< joins'
    BY <2>1, <2>3
  <2>6. QED
    BY <2>4, <2>5 DEF JoinsOf
<1>7. CASE Copy(p)
  <2>1. /\ UNCHANGED <<inbox, clientsNum, joins>> /\ Asked(p)' = 0 /\ Asked(p) = 0
    BY <1>2, <1>7 DEF Copy, Memory, Asked, AfterCopy
  <2>2. JoinsOf(p)' = JoinsOf(p)
    BY <2>1 DEF JoinsOf, Words
  <2>3. QED
    BY <2>2
<1>8. CASE \E r \in Peers : Listen(p, r) \/ ListenAddress(p, r)
  BY <1>8, ReceiveJoins
<1>9. ASSUME NEW q \in Peers, q # p,
             Kill(q) \/ Copy(q) \/ \E r \in Peers : Listen(q, r) \/ ListenAddress(q, r)
      PROVE  JoinsOf(p)'
  <2>1. clientsNum \in [Peers -> 0..(Room + 1)] /\ inbox \in [Peers -> [Peers -> Seq(Kinds)]]
        /\ lpc \in [Peers -> {"recv", "addr", "copy", "overrun"}]
    BY <1>2 DEF Memory, Wire
  <2>2. CASE Kill(q)
    BY <1>1, <1>9, <2>1, <2>2 DEF Kill
  <2>3. CASE Copy(q)
    BY <1>1, <1>9, <2>1, <2>3 DEF Copy
  <2>4. CASE \E r \in Peers : Listen(q, r)
    BY <1>1, <1>9, <2>1, <2>4 DEF Listen, Recvfrom
  <2>5. CASE \E r \in Peers : ListenAddress(q, r)
    BY <1>1, <1>9, <2>1, <2>5 DEF ListenAddress, TakeAddress, Recvfrom
  <2>6. QED
    BY <1>9, <2>2, <2>3, <2>4, <2>5
<1>10. CASE UNCHANGED <<inbox, lstVars, joins>>
  BY <1>1, <1>10
<1>11. ASSUME NEW q \in Peers, ListenNothing(q) PROVE JoinsOf(p)'
  <2>1. UNCHANGED <<inbox, joins>> /\ TakeAddress(q, Blank)
    BY <1>11 DEF ListenNothing
  <2>2. CASE q = p
    <3>1. /\ clientsNum[p] \in Nat /\ Asked(p) = 1 /\ Asked(p)' = 0
          /\ clientsNum'[p] = clientsNum[p] + 1
      BY <1>2, <2>1, <2>2 DEF TakeAddress, Asked, Memory
    <3>2. clientsNum'[p] + Asked(p)' = clientsNum[p] + Asked(p)
      BY <3>1
    <3>3. QED
      BY <2>1, <3>2 DEF JoinsOf, Words
  <2>3. CASE q # p
    BY <1>1, <1>2, <2>1, <2>3 DEF TakeAddress, Memory
  <2>4. QED
    BY <2>2, <2>3
<1>12. QED
  BY <1>3, <1>4, <1>5, <1>6, <1>7, <1>8, <1>9, <1>10, <1>11
     DEF Next, vars, Bind, Main, Listener, Speaker, List, ListEntry

\* A blank entry took an empty datagram that had been sent, or a failed recvfrom().
Unfilled(p) == IF lpc[p] = "copy" /\ buffer_rd[p] = Blank THEN 1 ELSE 0

BlanksOf(p) ==
  /\ IsFiniteSet(Words(inbox[p], "empty"))
  /\ Cardinality(Blanks(p)) + Unfilled(p) + Cardinality(Words(inbox[p], "empty")) =< empties

\* A list has finitely many entries.
LEMMA BlanksFinite ==
  ASSUME NEW p \in Peers
  PROVE  IsFiniteSet(Blanks(p)) /\ Cardinality(Blanks(p)) \in Nat
<1>1. IsFiniteSet(Slots)
  BY FS_Interval DEF Slots
<1>2. Blanks(p) \subseteq Slots
  BY DEF Blanks
<1>3. QED
  BY <1>1, <1>2, FS_Subset, FS_CardinalityType

LEMMA InitBlanks == Init => \A p \in Peers : BlanksOf(p)
<1> SUFFICES ASSUME Init, NEW p \in Peers PROVE BlanksOf(p)
  OBVIOUS
<1>1. clientsNum[p] = 0 /\ Unfilled(p) = 0 /\ empties = 0 /\ inbox[p] = [r \in Peers |-> <<>>]
  BY DEF Init, Unfilled
<1>2. Words(inbox[p], "empty") = {}
  BY <1>1 DEF Words
<1>3. Blanks(p) = {}
  BY <1>1 DEF Blanks, Slots
<1>4. /\ IsFiniteSet(Words(inbox[p], "empty")) /\ Cardinality(Words(inbox[p], "empty")) = 0
      /\ Cardinality(Blanks(p)) = 0
  BY <1>2, <1>3, FS_EmptySet
<1>5. QED
  BY <1>1, <1>4 DEF BlanksOf

LEMMA BroadcastBlanks ==
  ASSUME ListInv, NEW p \in Peers, BlanksOf(p),
         UNCHANGED <<lpc, buffer_rd, clientsNum, client>>,
         NEW s \in Peers, NEW kind \in Kinds, NEW n \in Nat, Broadcast(s, kind, n)
  PROVE  BlanksOf(p)'
<1>0. Wire
  BY DEF ListInv
<1>1. /\ inbox' \in [Peers -> [Peers -> Seq(Kinds)]]
      /\ \A q \in Peers : inbox'[p][q] = inbox[p][q]
                          \/ (q = s /\ inbox'[p][q] = Append(inbox[p][q], kind))
      /\ empties' = IF kind = "empty" THEN empties + 1 ELSE empties
  BY <1>0, BroadcastStep
<1>2. inbox[p] \in [Peers -> Seq(Kinds)] /\ inbox'[p] \in [Peers -> Seq(Kinds)]
  BY <1>0, <1>1 DEF Wire
<1>3. IsFiniteSet(Words(inbox[p], "empty"))
  BY DEF BlanksOf
<1>4. OneMore(inbox[p], inbox'[p], "empty", kind)
  <2>1. "empty" \in Kinds
    BY DEF Kinds
  <2>2. Appended(inbox[p], inbox'[p], s, kind)
    BY <1>1, <1>2 DEF Appended
  <2>3. QED
    BY <1>3, <2>1, <2>2, WordsAppend, Zenon
<1>5. Cardinality(Blanks(p)) \in Nat /\ Unfilled(p) \in Nat /\ empties \in Nat
  BY <1>0, BlanksFinite DEF Wire, Unfilled
<1>6. Blanks(p)' = Blanks(p) /\ Unfilled(p)' = Unfilled(p)
  BY DEF Unfilled, Blanks, Slot
<1>7. Cardinality(Blanks(p)) + Unfilled(p) + Cardinality(Words(inbox[p], "empty")) =< empties
  BY DEF BlanksOf
<1>8. Cardinality(Blanks(p)) + Unfilled(p) + Cardinality(Words(inbox'[p], "empty")) =< empties'
  <2>1. empties' = IF kind = "empty" THEN empties + 1 ELSE empties
    BY <1>1
  <2>2. /\ Cardinality(Words(inbox'[p], "empty")) \in Nat
        /\ Cardinality(Words(inbox[p], "empty")) \in Nat
        /\ Cardinality(Words(inbox'[p], "empty")) =< Cardinality(Words(inbox[p], "empty")) + 1
        /\ kind # "empty" =>
             Cardinality(Words(inbox'[p], "empty")) =< Cardinality(Words(inbox[p], "empty"))
    BY <1>4 DEF OneMore
  <2>3. QED
    BY <1>5, <1>7, <2>1, <2>2
<1>9. QED
  BY <1>4, <1>6, <1>8 DEF BlanksOf, Words, OneMore

\* The next entry is not counted before it is copied.
LEMMA TakeBlanks ==
  ASSUME Memory, NEW p \in Peers, NEW d \in Texts, TakeAddress(p, d), UNCHANGED client
  PROVE  Blanks(p)' = Blanks(p) /\ Unfilled(p) = 0
<1>1. /\ clientsNum[p] \in Nat /\ clientsNum'[p] = clientsNum[p] + 1
      /\ lpc[p] = "addr" /\ lpc'[p] = "copy"
  BY DEF Memory, TakeAddress
<1>2. QED
  BY <1>1 DEF Blanks, Slot, Slots, Unfilled

LEMMA ReceiveBlanks ==
  ASSUME ListInv, NEW p \in Peers, BlanksOf(p), NEW r \in Peers, Listen(p, r) \/ ListenAddress(p, r)
  PROVE  BlanksOf(p)'
<1>1. Wire /\ Memory /\ Recvfrom(p, r)
  BY DEF ListInv, Listen, ListenAddress
<1>2. /\ inbox[p] \in [Peers -> Seq(Kinds)] /\ inbox'[p] \in [Peers -> Seq(Kinds)]
      /\ \A q \in Peers : inbox'[p][q] = IF q = r THEN Tail(inbox[p][q]) ELSE inbox[p][q]
      /\ inbox[p][r] # <<>> /\ Received(p, r) \in Texts
  <2>1. /\ inbox \in [Peers -> [Peers -> Seq(Kinds)]] /\ inbox' \in [Peers -> [Peers -> Seq(Kinds)]]
        /\ inbox'[p][r] = Tail(inbox[p][r]) /\ Received(p, r) \in Texts
        /\ \A q, s \in Peers : q # p \/ s # r => inbox'[q][s] = inbox[q][s]
    BY <1>1, RecvfromStep DEF Wire
  <2>2. inbox[p][r] # <<>>
    BY <1>1 DEF Recvfrom
  <2>3. QED
    BY <2>1, <2>2
<1>3. IsFiniteSet(Words(inbox[p], "empty"))
  BY DEF BlanksOf
<1>4. OneLess(inbox[p], inbox'[p], r, "empty")
  <2>1. "empty" \in Kinds
    BY DEF Kinds
  <2>2. Taken(inbox[p], inbox'[p], r)
    BY <1>2 DEF Taken
  <2>3. QED
    BY <1>3, <2>1, <2>2, WordsTail, Zenon
<1>5. /\ Blanks(p)' = Blanks(p) /\ empties' = empties /\ Unfilled(p) = 0
      /\ Unfilled(p)' = 0 \/ (Unfilled(p)' = 1 /\ Head(inbox[p][r]) = "empty")
  <2>1. CASE Listen(p, r)
    <3>1. /\ UNCHANGED <<buffer_rd, clientsNum, client, empties>>
          /\ lpc[p] = "recv" /\ lpc'[p] \in {"recv", "addr"}
      BY <1>1, <2>1 DEF Listen, Memory
    <3>2. QED
      BY <3>1 DEF Blanks, Unfilled
  <2>2. CASE ListenAddress(p, r)
    <3>1. TakeAddress(p, Received(p, r)) /\ UNCHANGED <<client, empties>>
      BY <2>2 DEF ListenAddress
    <3>2. Blanks(p)' = Blanks(p) /\ Unfilled(p) = 0
      BY <1>1, <1>2, <3>1, TakeBlanks
    <3>3. buffer_rd'[p] = Received(p, r)
      BY <1>1, <3>1 DEF TakeAddress, Memory
    <3>4. Received(p, r) = Blank => Head(inbox[p][r]) = "empty"
      <4>1. Head(inbox[p][r]) \in Kinds
        BY <1>2
      <4>2. QED
        BY <4>1 DEF Received, Blank, Kinds
    <3>5. QED
      BY <3>1, <3>2, <3>3, <3>4 DEF Unfilled
  <2>3. QED
    BY <2>1, <2>2
<1>6. Cardinality(Blanks(p)) + Unfilled(p) + Cardinality(Words(inbox[p], "empty")) =< empties
  BY DEF BlanksOf
<1>7. Cardinality(Blanks(p)) \in Nat /\ empties \in Nat
  BY <1>1, BlanksFinite DEF Wire
<1>8. Cardinality(Blanks(p)') + Unfilled(p)' + Cardinality(Words(inbox'[p], "empty")) =< empties'
  BY <1>4, <1>5, <1>6, <1>7 DEF OneLess
<1>9. QED
  BY <1>4, <1>8 DEF BlanksOf, Words, OneLess

\* What is copied is blank only if the buffer was.
LEMMA CopyBlanks ==
  ASSUME ListInv, NEW p \in Peers, BlanksOf(p), Copy(p)
  PROVE  BlanksOf(p)'
<1>1. Wire /\ Memory
  BY DEF ListInv
<1>2. /\ lpc[p] = "copy" /\ lpc'[p] \in {"recv", "overrun"}
      /\ UNCHANGED <<inbox, clientsNum, empties>>
  BY <1>1 DEF Copy, AfterCopy, Memory
<1>3. \A k \in Slots :
        client'[p][k] = IF k = Slot(p) THEN buffer_rd[p]
                        ELSE IF k > Slot(p) /\ k < Slot(p) + RowsOf(buffer_rd[p])
                          THEN Rest(buffer_rd[p])
                          ELSE client[p][k]
  BY <1>1 DEF Copy, Memory
<1>4. Slot(p) \in Int /\ Slot(p)' = Slot(p) /\ clientsNum[p] = Slot(p) + 1
  BY <1>1, <1>2 DEF Slot, Memory
<1>5. ASSUME NEW k \in Blanks(p)', k \notin Blanks(p)
      PROVE  k = Slot(p) /\ buffer_rd[p] = Blank
  <2>1. k \in Slots /\ k < Slot(p) + 1 /\ client'[p][k] = Blank
    BY <1>2, <1>4, <1>5 DEF Blanks
  <2>2. k \in Int /\ ~(k > Slot(p))
    BY <1>4, <2>1 DEF Slots
  <2>3. CASE k # Slot(p)
    <3>1. client[p][k] = Blank
      BY <1>3, <2>1, <2>2, <2>3
    <3>2. k \in Blanks(p)
      BY <1>4, <2>1, <2>3, <3>1 DEF Blanks
    <3>3. QED
      BY <1>5, <3>2
  <2>4. CASE k = Slot(p)
    BY <1>3, <2>1, <2>4
  <2>5. QED
    BY <2>3, <2>4
<1>6. Unfilled(p) = (IF buffer_rd[p] = Blank THEN 1 ELSE 0) /\ Unfilled(p)' = 0
  BY <1>2 DEF Unfilled
<1>7. Cardinality(Blanks(p)') \in Nat /\ Cardinality(Blanks(p)') =< Cardinality(Blanks(p)) + Unfilled(p)
  <2>1. IsFiniteSet(Blanks(p)) /\ Cardinality(Blanks(p)) \in Nat
    BY BlanksFinite
  <2>2. CASE buffer_rd[p] # Blank
    <3>1. Blanks(p)' \subseteq Blanks(p)
      BY <1>5, <2>2
    <3>2. IsFiniteSet(Blanks(p)') /\ Cardinality(Blanks(p)') =< Cardinality(Blanks(p))
      BY <2>1, <3>1, FS_Subset
    <3>3. QED
      BY <1>6, <2>1, <2>2, <3>2, FS_CardinalityType
  <2>3. CASE buffer_rd[p] = Blank
    <3> DEFINE more == Blanks(p) \union {Slot(p)}
    <3>1. Blanks(p)' \subseteq more
      BY <1>5
    <3>2. /\ IsFiniteSet(more)
          /\ Cardinality(more) = IF Slot(p) \in Blanks(p) THEN Cardinality(Blanks(p))
                                                          ELSE Cardinality(Blanks(p)) + 1
      BY <2>1, FS_AddElement
    <3> HIDE DEF more
    <3>3. IsFiniteSet(Blanks(p)') /\ Cardinality(Blanks(p)') =< Cardinality(more)
      BY <3>1, <3>2, FS_Subset
    <3>4. Cardinality(Blanks(p)') \in Nat
      BY <3>3, FS_CardinalityType
    <3>5. QED
      BY <1>6, <2>1, <2>3, <3>2, <3>3, <3>4
  <2>4. QED
    BY <2>2, <2>3
<1>8. /\ IsFiniteSet(Words(inbox[p], "empty")) /\ Cardinality(Words(inbox[p], "empty")) \in Nat
      /\ Cardinality(Blanks(p)) + Unfilled(p) + Cardinality(Words(inbox[p], "empty")) =< empties
  BY FS_CardinalityType DEF BlanksOf
<1>9. Cardinality(Blanks(p)) \in Nat /\ Unfilled(p) \in Nat /\ empties \in Nat
  BY <1>1, BlanksFinite DEF Unfilled, Wire
<1>10. Cardinality(Blanks(p)') + 0 + Cardinality(Words(inbox[p], "empty")) =< empties
  BY <1>7, <1>8, <1>9
<1>11. QED
  BY <1>2, <1>6, <1>8, <1>10 DEF BlanksOf, Words

LEMMA StepBlanks ==
  ASSUME ListInv, [Next]_vars, NEW p \in Peers, BlanksOf(p)
  PROVE  BlanksOf(p)'
<1>1. ASSUME UNCHANGED <<inbox[p], clientsNum[p], lpc[p], buffer_rd[p], client[p]>>,
             empties' = empties \/ empties' = empties + 1
      PROVE  BlanksOf(p)'
  <2>1. Blanks(p)' = Blanks(p) /\ Unfilled(p)' = Unfilled(p)
    BY <1>1 DEF Blanks, Unfilled, Slot
  <2>2. Words(inbox[p], "empty")' = Words(inbox[p], "empty")
    BY <1>1 DEF Words
  <2>3. /\ IsFiniteSet(Words(inbox[p], "empty")) /\ Cardinality(Words(inbox[p], "empty")) \in Nat
        /\ Cardinality(Blanks(p)) + Unfilled(p) + Cardinality(Words(inbox[p], "empty")) =< empties
    BY FS_CardinalityType DEF BlanksOf
  <2>4. Cardinality(Blanks(p)) \in Nat /\ Unfilled(p) \in Nat /\ empties \in Nat
    BY BlanksFinite DEF Unfilled, ListInv, Wire
  <2>5. Cardinality(Blanks(p)) + Unfilled(p) + Cardinality(Words(inbox[p], "empty")) =< empties'
    BY <1>1, <2>3, <2>4
  <2>6. QED
    BY <2>1, <2>2, <2>3, <2>5 DEF BlanksOf
<1>2. Wire /\ Memory
  BY DEF ListInv
<1>3. CASE \E s \in Peers : SendEnter(s)
  BY <1>3, BroadcastBlanks DEF SendEnter, Kinds
<1>4. CASE \E s \in Peers : SendAddress(s)
  <2>1. PICK s \in Peers : SendAddress(s)
    BY <1>4
  <2>2. PICK ip \in {"ip", "text"} : Broadcast(s, ip, IF ip = "ip" THEN 0 ELSE 1)
    BY <2>1 DEF SendAddress, getip
  <2>3. UNCHANGED <<lpc, buffer_rd, clientsNum, client>>
    BY <2>1 DEF SendAddress
  <2>4. QED
    BY <2>2, <2>3, BroadcastBlanks DEF Kinds
<1>5. CASE \E s \in Peers, kind \in Lines : Say(s, kind)
  BY <1>5, BroadcastBlanks DEF Say, Kinds, Lines
<1>6. CASE Kill(p)
  <2>1. /\ inbox'[p] = [r \in Peers |-> <<>>] /\ clientsNum'[p] = 0 /\ lpc'[p] = "recv"
        /\ empties' = empties /\ empties \in Nat
    BY <1>2, <1>6 DEF Kill, Wire, Memory
  <2>2. Words(inbox[p], "empty")' = {} /\ Blanks(p)' = {} /\ Unfilled(p)' = 0
    BY <2>1 DEF Words, Blanks, Slots, Unfilled
  <2>3. /\ IsFiniteSet(Words(inbox[p], "empty")') /\ Cardinality(Words(inbox[p], "empty")') = 0
        /\ Cardinality(Blanks(p)') = 0
    BY <2>2, FS_EmptySet
  <2>4. empties' \in Nat /\ empties' = empties /\ empties \in Nat
    BY <2>1
  <2>5. 0 + 0 + 0 =< empties'
    BY <2>4
  <2>6. QED
    BY <2>2, <2>3, <2>5 DEF BlanksOf
<1>7. CASE Copy(p)
  BY <1>7, CopyBlanks
<1>8. CASE \E r \in Peers : Listen(p, r) \/ ListenAddress(p, r)
  BY <1>8, ReceiveBlanks
<1>9. ASSUME NEW q \in Peers, q # p,
             Kill(q) \/ Copy(q) \/ \E r \in Peers : Listen(q, r) \/ ListenAddress(q, r)
      PROVE  BlanksOf(p)'
  <2>1. UNCHANGED inbox[p]
    BY <1>2, <1>9 DEF Kill, Copy, Listen, ListenAddress, Recvfrom, Wire
  <2>2. UNCHANGED <<clientsNum[p], lpc[p], buffer_rd[p]>>
    BY <1>2, <1>9 DEF Kill, Copy, Listen, ListenAddress, TakeAddress, Memory
  <2>3. UNCHANGED client[p]
    BY <1>2, <1>9 DEF Kill, Copy, Listen, ListenAddress, Memory
  <2>4. empties' = empties
    BY <1>9, Zenon DEF Kill, Copy, Listen, ListenAddress, cntVars
  <2>5. QED
    BY <1>1, <2>1, <2>2, <2>3, <2>4
<1>10. CASE ListenNothing(p)
  <2>1. /\ TakeAddress(p, Blank) /\ UNCHANGED <<inbox, client>> /\ empties' = empties + 1
        /\ Blank \in Texts
    BY <1>10 DEF ListenNothing, Texts
  <2>2. Blanks(p)' = Blanks(p) /\ Unfilled(p) = 0 /\ Unfilled(p)' \in {0, 1}
    BY <1>2, <2>1, TakeBlanks DEF Unfilled
  <2>3. /\ IsFiniteSet(Words(inbox[p], "empty")) /\ Cardinality(Words(inbox[p], "empty")) \in Nat
        /\ Cardinality(Blanks(p)) + Unfilled(p) + Cardinality(Words(inbox[p], "empty")) =< empties
    BY FS_CardinalityType DEF BlanksOf
  <2>4. Cardinality(Blanks(p)) \in Nat /\ empties \in Nat
    BY <1>2, BlanksFinite DEF Wire
  <2>5. Cardinality(Blanks(p)) + Unfilled(p)' + Cardinality(Words(inbox[p], "empty")) =< empties'
    BY <2>1, <2>2, <2>3, <2>4
  <2>6. QED
    BY <2>1, <2>2, <2>3, <2>5 DEF BlanksOf, Words
<1>11. ASSUME NEW q \in Peers, q # p, ListenNothing(q) PROVE BlanksOf(p)'
  BY <1>1, <1>2, <1>11 DEF ListenNothing, TakeAddress, Memory
<1>12. CASE UNCHANGED <<inbox, lstVars, empties>>
  BY <1>1, <1>12
<1>13. QED
  BY <1>3, <1>4, <1>5, <1>6, <1>7, <1>8, <1>9, <1>10, <1>11, <1>12
     DEF Next, vars, Bind, Main, Listener, Speaker, List, ListEntry

----------------------------------------------------------------------------
(* Users who wait: at most one session has news under way, and what is     *)
(* under way to a listener depends on how far the two have come.           *)

AtRest(q) == lpc[q] \in {"recv", "overrun"}
Ip(s)     == [kind |-> "ip", from |-> s]

\* q is about to list s.
Pending(q, s) ==
  \/ pc[s] = "entered" /\ inbox[q][s] = <<"enter">> /\ AtRest(q)
  \/ pc[s] = "entered" /\ inbox[q][s] = <<>> /\ lpc[q] = "addr"
  \/ pc[s] = "running" /\ inbox[q][s] = <<"enter", "ip">> /\ AtRest(q)
  \/ pc[s] = "running" /\ inbox[q][s] = <<"ip">> /\ lpc[q] = "addr"
  \/ pc[s] = "running" /\ inbox[q][s] = <<>> /\ lpc[q] = "copy" /\ buffer_rd[q] = Ip(s)

\* q has no news of s left but a line that s has typed.
Idle(q, s) ==
  /\ AtRest(q) /\ inbox[q][s] \in {<<>>, <<"text">>}
  /\ pc[s] # "running" \/ pc[q] = "off" => inbox[q][s] = <<>>

\* s is the only session that has news under way.
News(s) ==
  /\ pc[s] # "deaf"
  /\ \A r \in Peers \ {s} : pc[r] \in {"off", "running"} /\ \A q \in Peers : inbox[q][r] = <<>>
  /\ \A q \in Peers :
       \/ Idle(q, s) /\ (pc[s] = "entered" => pc[q] = "off")
       \/ Pending(q, s) /\ pc[q] # "off" /\ ~Lists(q, s)

\* An entry that is not blank is the address of a running session, and no other
\* entry of the list is.
Entries ==
  \A p \in Peers, k \in Slots : client[p][k] # Blank =>
    /\ k < clientsNum[p] /\ (lpc[p] = "copy" => k # Slot(p))
    /\ \E r \in Peers : client[p][k] = Ip(r) /\ pc[r] = "running"
    /\ \A j \in Slots : client[p][j] = client[p][k] => j = k

Meet(s) ==
  \A p, q \in Peers : Speaking(p) /\ Speaking(q) =>
    \/ Lists(p, q) \/ Lists(q, p)
    \/ q = s /\ Pending(p, s)
    \/ p = s /\ Pending(q, s)

PatientInv ==
  patient => Entries /\ (Peers # {} => \E s \in Peers : News(s) /\ Meet(s))

LEMMA AppendWord ==
  ASSUME NEW x \in Kinds, NEW y \in Kinds
  PROVE  Append(<<>>, x) = <<x>> /\ Append(<<x>>, y) = <<x, y>>
<1>1. /\ <<>> \in Seq(Kinds) /\ <<x>> \in Seq(Kinds) /\ <<x, y>> \in Seq(Kinds)
      /\ Len(<<x>>) = 1 /\ Len(<<x, y>>) = 2
  OBVIOUS
<1>2. Append(<<>>, x) = <<x>>
  BY <1>1
<1> DEFINE two == Append(<<x>>, y)
<1>3. two \in Seq(Kinds) /\ Len(two) = 2 /\ two[1] = x /\ two[2] = y
  BY <1>1
<1> HIDE DEF two
<1>4. two = <<x, y>>
  BY <1>1, <1>3
<1>5. QED
  BY <1>2, <1>4 DEF two

\* The datagrams that a session sends when it starts, and those that remain.
LEMMA Boxes ==
  /\ Append(<<>>, "enter") = <<"enter">> /\ Append(<<>>, "text") = <<"text">>
  /\ Append(<<>>, "ip") = <<"ip">> /\ Append(<<"enter">>, "ip") = <<"enter", "ip">>
  /\ Tail(<<"enter">>) = <<>> /\ Tail(<<"text">>) = <<>> /\ Tail(<<"ip">>) = <<>>
  /\ Tail(<<"enter", "ip">>) = <<"ip">>
  /\ Head(<<"enter">>) = "enter" /\ Head(<<"text">>) = "text" /\ Head(<<"ip">>) = "ip"
  /\ Head(<<"enter", "ip">>) = "enter"
<1>1. "enter" \in Kinds /\ "ip" \in Kinds /\ "text" \in Kinds
  BY DEF Kinds
<1>2. /\ Append(<<>>, "enter") = <<"enter">> /\ Append(<<>>, "text") = <<"text">>
      /\ Append(<<>>, "ip") = <<"ip">> /\ Append(<<"enter">>, "ip") = <<"enter", "ip">>
  BY <1>1, AppendWord
<1>3. Tail(<<"enter">>) = <<>> /\ Tail(<<"text">>) = <<>> /\ Tail(<<"ip">>) = <<>>
  OBVIOUS
<1>4. Tail(<<"enter", "ip">>) = <<"ip">>
  OBVIOUS
<1>5. /\ Head(<<"enter">>) = "enter" /\ Head(<<"text">>) = "text" /\ Head(<<"ip">>) = "ip"
      /\ Head(<<"enter", "ip">>) = "enter"
  OBVIOUS
<1>6. QED
  BY <1>2, <1>3, <1>4, <1>5

LEMMA NoWord ==
  /\ <<"enter">> # <<>> /\ <<"text">> # <<>> /\ <<"ip">> # <<>> /\ <<"enter", "ip">> # <<>>
  /\ <<"enter">> # <<"text">> /\ <<"ip">> # <<"text">> /\ <<"enter", "ip">> # <<"text">>
  OBVIOUS

LEMMA InitPatient == Init => PatientInv
<1> SUFFICES ASSUME Init PROVE Entries /\ \A s \in Peers : News(s) /\ Meet(s)
  BY DEF PatientInv
<1>1. \A q, r \in Peers : inbox[q][r] = <<>> /\ lpc[q] = "recv" /\ pc[q] = "off"
  BY DEF Init
<1>2. Entries
  BY DEF Init, Entries
<1>3. \A s \in Peers : News(s) /\ Meet(s)
  BY <1>1, Zenon DEF News, Meet, Idle, AtRest, Speaking
<1>4. QED
  BY <1>2, <1>3

\* When nothing is under way, nobody is about to list anybody.
LEMMA QuietNews ==
  ASSUME Wire, NEW s \in Peers, News(s), Quiet
  PROVE  \A q \in Peers : AtRest(q) /\ ~Pending(q, s) /\ pc[q] \in {"off", "running"}
<1>1. pc[s] \notin {"bound", "entered"} /\ \A q \in Peers : lpc[q] # "copy" /\ inbox[q][s] = <<>>
  BY DEF Quiet
<1>2. \A q \in Peers : ~Pending(q, s)
  BY <1>1, NoWord DEF Pending
<1>3. \A q \in Peers : AtRest(q)
  BY <1>2 DEF News, Idle
<1>4. QED
  BY <1>1, <1>2, <1>3 DEF News, Wire

\* Only a listener touches its list, so another step keeps what the lists hold if no
\* running session stops.
LEMMA KeepEntries ==
  ASSUME Wire, Entries, UNCHANGED lstVars,
         \A r \in Peers : pc[r] = "running" => pc'[r] = "running"
  PROVE  Entries' /\ \A p, q \in Peers : Lists(p, q)' = Lists(p, q)
<1>1. Entries'
  BY DEF Entries, Slot
<1>2. QED
  BY <1>1 DEF Lists

\* A session starts when nothing is under way, and is then the one with news.
LEMMA BindNews ==
  ASSUME Wire, patient, NEW s \in Peers, News(s), Meet(s), NEW p \in Peers, Bind(p)
  PROVE  News(p)' /\ Meet(p)'
<1>1. Quiet /\ pc[p] = "off" /\ pc' = [pc EXCEPT ![p] = "bound"] /\ UNCHANGED <<inbox, lstVars>>
  BY DEF Bind, Fault
<1>2. \A q \in Peers : AtRest(q) /\ ~Pending(q, s) /\ pc[q] \in {"off", "running"}
  BY <1>1, QuietNews
<1>3. \A q, r \in Peers : inbox[q][r] = <<>>
  BY <1>1 DEF Quiet
<1>4. pc'[p] = "bound" /\ \A q \in Peers \ {p} : pc'[q] = pc[q]
  BY <1>1 DEF Wire
<1>5. \A q \in Peers : Idle(q, p)'
  BY <1>1, <1>2, <1>3 DEF Idle, AtRest
<1>6. News(p)'
  BY <1>1, <1>2, <1>3, <1>4, <1>5 DEF News
<1>7. Meet(p)'
  <2> SUFFICES ASSUME NEW q \in Peers, NEW r \in Peers, Speaking(q)', Speaking(r)'
               PROVE  Lists(q, r)' \/ Lists(r, q)'
    BY DEF Meet
  <2>1. Speaking(q) /\ Speaking(r)
    BY <1>1, <1>4 DEF Speaking
  <2>2. Lists(q, r) \/ Lists(r, q)
    BY <1>2, <2>1 DEF Meet
  <2>3. QED
    BY <1>1, <2>2 DEF Lists
<1>8. QED
  BY <1>6, <1>7

\* A session that is starting broadcasts the word to all that can be reached.
LEMMA EnterNews ==
  ASSUME Wire, patient, NEW s \in Peers, News(s), Entries, Meet(s), NEW p \in Peers, SendEnter(p)
  PROVE  p = s /\ News(s)' /\ Meet(s)'
<1>1. pc[p] = "bound" /\ pc' = [pc EXCEPT ![p] = "entered"] /\ UNCHANGED lstVars
  BY DEF SendEnter
<1>2. p = s
  BY <1>1 DEF News
<1>3. /\ \A q, r \in Peers :
           \/ inbox'[q][r] = inbox[q][r]
           \/ r = s /\ q \in Reachable /\ inbox'[q][r] = Append(inbox[q][r], "enter")
      /\ \A q \in Reachable : inbox'[q][s] = Append(inbox[q][s], "enter")
  <2>1. Broadcast(s, "enter", 0) /\ "enter" \in Kinds /\ 0 \in Nat
    BY <1>2 DEF SendEnter, Kinds
  <2>2. /\ \A q, r \in Peers :
             \/ inbox'[q][r] = inbox[q][r]
             \/ r = s /\ q \in Reachable /\ inbox'[q][r] = Append(inbox[q][r], "enter")
        /\ patient => \A q \in Reachable : inbox'[q][s] = Append(inbox[q][s], "enter")
    BY <2>1, BroadcastStep, Zenon
  <2>3. QED
    BY <2>2
<1>4. pc'[s] = "entered" /\ \A q \in Peers \ {s} : pc'[q] = pc[q]
  BY <1>1, <1>2 DEF Wire
<1>5. \A q \in Peers : Idle(q, s) /\ inbox[q][s] = <<>>
  BY <1>1, <1>2 DEF News, Idle, Pending
<1>6. \A q \in Peers : ~Lists(q, s)
  <2> SUFFICES ASSUME NEW q \in Peers, Lists(q, s) PROVE FALSE
    OBVIOUS
  <2>1. PICK k \in Slots : client[q][k] = Ip(s)
    BY DEF Lists, Ip
  <2>2. client[q][k] # Blank
    BY <2>1 DEF Ip, Blank
  <2>3. PICK r \in Peers : client[q][k] = Ip(r) /\ pc[r] = "running"
    BY <2>2 DEF Entries
  <2>4. r = s
    BY <2>1, <2>3 DEF Ip
  <2>5. QED
    BY <1>1, <1>2, <2>3, <2>4
<1>7. ASSUME NEW q \in Peers
      PROVE  \/ Idle(q, s)' /\ (pc[s] = "entered" => pc[q] = "off")'
             \/ Pending(q, s)' /\ pc'[q] # "off" /\ ~Lists(q, s)'
  <2>1. CASE pc[q] = "off"
    <3>1. inbox'[q][s] = <<>> /\ pc'[q] = "off"
      BY <1>1, <1>2, <1>3, <1>4, <1>5, <2>1 DEF Reachable
    <3>2. QED
      BY <1>1, <1>5, <3>1 DEF Idle, AtRest
  <2>2. CASE pc[q] # "off"
    <3>1. q \in Reachable /\ pc'[q] # "off"
      BY <1>1, <1>2, <1>4, <2>2 DEF News, Reachable
    <3>2. inbox'[q][s] = <<"enter">>
      BY <1>3, <1>5, <3>1, Boxes
    <3>3. ~Lists(q, s)'
      BY <1>1, <1>6 DEF Lists
    <3>4. QED
      BY <1>1, <1>4, <1>5, <3>1, <3>2, <3>3 DEF Idle, Pending, AtRest
  <2>3. QED
    BY <2>1, <2>2
<1>8. News(s)'
  BY <1>3, <1>4, <1>7 DEF News
<1>9. Meet(s)'
  <2> SUFFICES ASSUME NEW q \in Peers, NEW r \in Peers, Speaking(q)', Speaking(r)'
               PROVE  Lists(q, r)' \/ Lists(r, q)'
    BY DEF Meet
  <2>1. Speaking(q) /\ Speaking(r) /\ q # s /\ r # s
    BY <1>1, <1>4 DEF Speaking
  <2>2. Lists(q, r) \/ Lists(r, q)
    BY <2>1 DEF Meet
  <2>3. QED
    BY <1>1, <2>2 DEF Lists
<1>10. QED
  BY <1>2, <1>8, <1>9

\* Its address follows the word.
LEMMA AddressNews ==
  ASSUME Wire, patient, NEW s \in Peers, News(s), Meet(s), NEW p \in Peers, SendAddress(p)
  PROVE  p = s /\ News(s)' /\ Meet(s)'
<1>1. pc[p] = "entered" /\ pc' = [pc EXCEPT ![p] = "running"] /\ UNCHANGED lstVars
  BY DEF SendAddress
<1>2. p = s
  BY <1>1 DEF News
<1>3. /\ \A q, r \in Peers :
           \/ inbox'[q][r] = inbox[q][r]
           \/ r = s /\ q \in Reachable /\ inbox'[q][r] = Append(inbox[q][r], "ip")
      /\ \A q \in Reachable : inbox'[q][s] = Append(inbox[q][s], "ip")
  <2>1. Broadcast(s, "ip", 0) /\ "ip" \in Kinds /\ 0 \in Nat
    BY <1>2 DEF SendAddress, getip, Kinds
  <2>2. /\ \A q, r \in Peers :
             \/ inbox'[q][r] = inbox[q][r]
             \/ r = s /\ q \in Reachable /\ inbox'[q][r] = Append(inbox[q][r], "ip")
        /\ patient => \A q \in Reachable : inbox'[q][s] = Append(inbox[q][s], "ip")
    BY <2>1, BroadcastStep
  <2>3. QED
    BY <2>2
<1>4. pc'[s] = "running" /\ \A q \in Peers \ {s} : pc'[q] = pc[q]
  BY <1>1, <1>2 DEF Wire
<1>5. ASSUME NEW q \in Peers, pc[q] = "off" PROVE Idle(q, s)'
  <2>1. Idle(q, s) /\ inbox[q][s] = <<>> /\ q # s
    BY <1>1, <1>2, <1>5 DEF News, Idle
  <2>2. inbox'[q][s] = <<>>
    BY <1>3, <1>5, <2>1 DEF Reachable
  <2>3. QED
    BY <1>1, <2>1, <2>2 DEF Idle, AtRest
<1>6. ASSUME NEW q \in Peers, pc[q] # "off" PROVE Pending(q, s)' /\ pc'[q] # "off" /\ ~Lists(q, s)'
  <2>1. Pending(q, s) /\ ~Lists(q, s) /\ q \in Reachable /\ pc'[q] # "off"
    BY <1>1, <1>2, <1>4, <1>6 DEF News, Reachable
  <2>2. \/ inbox[q][s] = <<"enter">> /\ AtRest(q)
        \/ inbox[q][s] = <<>> /\ lpc[q] = "addr"
    BY <1>1, <1>2, <2>1 DEF Pending
  <2>3. \/ inbox'[q][s] = <<"enter", "ip">> /\ AtRest(q)
        \/ inbox'[q][s] = <<"ip">> /\ lpc[q] = "addr"
    BY <1>3, <2>1, <2>2, Boxes
  <2>4. Pending(q, s)'
    BY <1>1, <1>4, <2>3 DEF Pending, AtRest
  <2>5. QED
    BY <1>1, <2>1, <2>4 DEF Lists
<1>7. News(s)'
  BY <1>3, <1>4, <1>5, <1>6 DEF News
<1>8. Meet(s)'
  <2> SUFFICES ASSUME NEW q \in Peers, NEW r \in Peers, Speaking(q)', Speaking(r)'
               PROVE  \/ Lists(q, r)' \/ Lists(r, q)'
                      \/ r = s /\ Pending(q, s)'
                      \/ q = s /\ Pending(r, s)'
    BY DEF Meet
  <2>1. CASE q = s \/ r = s
    <3>1. pc[q] # "off" /\ pc[r] # "off"
      BY <1>1, <1>2, <1>4, <2>1 DEF Speaking
    <3>2. QED
      BY <1>6, <2>1, <3>1
  <2>2. CASE q # s /\ r # s
    <3>1. Speaking(q) /\ Speaking(r)
      BY <1>1, <1>4, <2>2 DEF Speaking
    <3>2. Lists(q, r) \/ Lists(r, q)
      BY <2>2, <3>1 DEF Meet
    <3>3. QED
      BY <1>1, <3>2 DEF Lists
  <2>3. QED
    BY <2>1, <2>2
<1>9. QED
  BY <1>2, <1>7, <1>8

\* What is received is news of s: the word while p waits for anything, its address
\* while p waits for one.
LEMMA ListenNews ==
  ASSUME Wire, Memory, NEW s \in Peers, News(s), Meet(s),
         NEW p \in Peers, NEW r \in Peers, Listen(p, r)
  PROVE  r = s /\ News(s)' /\ Meet(s)'
<1>1. /\ lpc[p] = "recv" /\ pc[p] = "running" /\ inbox[p][r] # <<>>
      /\ UNCHANGED <<pc, buffer_rd, clientsNum, client>>
      /\ lpc' = IF Head(inbox[p][r]) = "enter" THEN [lpc EXCEPT ![p] = "addr"] ELSE lpc
  BY DEF Listen, Recvfrom, IsEnter
<1>2. r = s
  BY <1>1 DEF News
<1>3. /\ inbox'[p][s] = Tail(inbox[p][s])
      /\ \A q, t \in Peers : q # p \/ t # s => inbox'[q][t] = inbox[q][t]
  BY <1>2, RecvfromStep DEF Listen
<1>4. ASSUME NEW q \in Peers, q # p PROVE lpc'[q] = lpc[q]
  BY <1>1, <1>4
<1>5. \A q, t \in Peers : Lists(q, t)' = Lists(q, t)
  BY <1>1 DEF Lists
<1>6. CASE Idle(p, s)
  <2>1. inbox[p][s] = <<"text">> /\ pc[s] = "running"
    BY <1>1, <1>2, <1>6, NoWord DEF Idle
  <2>2. inbox'[p][s] = <<>> /\ lpc' = lpc
    BY <1>1, <1>2, <1>3, <2>1, Boxes
  <2>3. Idle(p, s)'
    BY <1>1, <1>6, <2>2 DEF Idle, AtRest
  <2>4. \A q \in Peers : q # p => Idle(q, s)' = Idle(q, s) /\ Pending(q, s)' = Pending(q, s)
    BY <1>1, <1>3, <2>2 DEF Idle, Pending, AtRest
  <2>5. News(s)'
    BY <1>1, <1>3, <1>5, <2>1, <2>3, <2>4 DEF News
  <2>6. ~Pending(p, s)
    BY <2>1, NoWord DEF Pending
  <2>7. Meet(s)'
    BY <1>1, <1>5, <2>2, <2>4, <2>6 DEF Meet, Speaking
  <2>8. QED
    BY <1>2, <2>5, <2>7
<1>7. CASE Pending(p, s) /\ ~Lists(p, s)
  <2>1. \/ pc[s] = "entered" /\ inbox[p][s] = <<"enter">>
        \/ pc[s] = "running" /\ inbox[p][s] = <<"enter", "ip">>
    BY <1>1, <1>2, <1>7 DEF Pending
  <2>2. /\ lpc'[p] = "addr"
        /\ \/ pc[s] = "entered" /\ inbox'[p][s] = <<>>
           \/ pc[s] = "running" /\ inbox'[p][s] = <<"ip">>
    BY <1>1, <1>2, <1>3, <2>1, Boxes DEF Memory
  <2>3. Pending(p, s)'
    BY <1>1, <2>2 DEF Pending
  <2>4. \A q \in Peers : q # p => Idle(q, s)' = Idle(q, s) /\ Pending(q, s)' = Pending(q, s)
    BY <1>1, <1>3, <1>4 DEF Idle, Pending, AtRest
  <2>5. News(s)'
    BY <1>1, <1>3, <1>5, <1>7, <2>3, <2>4 DEF News
  <2>6. Meet(s)'
    <3> SUFFICES ASSUME NEW q \in Peers, NEW t \in Peers, Speaking(q)', Speaking(t)'
                 PROVE  \/ Lists(q, t)' \/ Lists(t, q)'
                        \/ t = s /\ Pending(q, s)'
                        \/ q = s /\ Pending(t, s)'
      BY DEF Meet
    <3>1. Speaking(q) /\ Speaking(t)
      BY <1>1, <1>4 DEF Speaking
    <3>2. QED
      BY <1>5, <2>3, <2>4, <3>1 DEF Meet
  <2>7. QED
    BY <1>2, <2>5, <2>6
<1>8. QED
  BY <1>6, <1>7 DEF News

LEMMA ListenAddressNews ==
  ASSUME Wire, Memory, NEW s \in Peers, News(s), Meet(s),
         NEW p \in Peers, NEW r \in Peers, ListenAddress(p, r)
  PROVE  r = s /\ News(s)' /\ Meet(s)'
<1>1. /\ lpc[p] = "addr" /\ pc[p] = "running" /\ inbox[p][r] # <<>>
      /\ UNCHANGED <<pc, client>> /\ lpc' = [lpc EXCEPT ![p] = "copy"]
      /\ buffer_rd' = [buffer_rd EXCEPT ![p] = Received(p, r)]
  BY DEF ListenAddress, TakeAddress, Recvfrom
<1>2. r = s
  BY <1>1 DEF News
<1>3. /\ inbox'[p][s] = Tail(inbox[p][s])
      /\ \A q, t \in Peers : q # p \/ t # s => inbox'[q][t] = inbox[q][t]
  BY <1>2, RecvfromStep DEF ListenAddress
<1>4. \A q, t \in Peers : Lists(q, t)' = Lists(q, t)
  BY <1>1 DEF Lists
<1>5. Pending(p, s) /\ ~Lists(p, s) /\ pc[s] = "running" /\ inbox[p][s] = <<"ip">>
  BY <1>1, <1>2 DEF News, Idle, Pending, AtRest
<1>6. Pending(p, s)'
  <2>1. inbox'[p][s] = <<>> /\ buffer_rd'[p] = Ip(s)
    BY <1>1, <1>2, <1>3, <1>5, Boxes DEF Received, Ip, Memory
  <2>2. QED
    BY <1>1, <1>5, <2>1 DEF Pending, Memory
<1>7. \A q \in Peers : q # p => lpc'[q] = lpc[q] /\ buffer_rd'[q] = buffer_rd[q]
  BY <1>1 DEF Memory
<1>8. \A q \in Peers : q # p => Idle(q, s)' = Idle(q, s) /\ Pending(q, s)' = Pending(q, s)
  BY <1>1, <1>3, <1>7 DEF Idle, Pending, AtRest
<1>9. News(s)'
  BY <1>1, <1>3, <1>4, <1>5, <1>6, <1>8 DEF News
<1>10. Meet(s)'
  <2> SUFFICES ASSUME NEW q \in Peers, NEW t \in Peers, Speaking(q)', Speaking(t)'
               PROVE  \/ Lists(q, t)' \/ Lists(t, q)'
                      \/ t = s /\ Pending(q, s)'
                      \/ q = s /\ Pending(t, s)'
    BY DEF Meet
  <2>1. Speaking(q) /\ Speaking(t)
    BY <1>1, <1>7 DEF Speaking
  <2>2. QED
    BY <1>4, <1>6, <1>8, <2>1 DEF Meet
<1>11. QED
  BY <1>2, <1>9, <1>10

\* Its address joins the list, at a place that was empty, or the list is overrun.
LEMMA CopyNews ==
  ASSUME Wire, Memory, NEW s \in Peers, News(s), Entries, Meet(s), NEW p \in Peers, Copy(p),
         ListOf(p)
  PROVE  News(s)' /\ Entries' /\ Meet(s)'
<1>0. lpc[p] = "copy" /\ UNCHANGED <<pc, inbox, clientsNum>>
  BY DEF Copy
<1>2. /\ pc[s] = "running" /\ inbox[p][s] = <<>> /\ buffer_rd[p] = Ip(s) /\ ~Lists(p, s)
      /\ pc[p] # "off"
  BY <1>0 DEF News, Idle, Pending, AtRest
<1>1. /\ lpc[p] = "copy" /\ UNCHANGED <<pc, inbox, clientsNum>>
      /\ buffer_rd' = [buffer_rd EXCEPT ![p] = Blank]
      /\ \/ /\ Slot(p) \in Slots /\ client' = [client EXCEPT ![p][Slot(p)] = buffer_rd[p]]
            /\ lpc' = [lpc EXCEPT ![p] = "recv"]
         \/ Slot(p) \notin Slots /\ UNCHANGED client /\ lpc' = [lpc EXCEPT ![p] = "overrun"]
  <2>1. clientsNum[p] \in Nat /\ clientsNum[p] >= 1
    BY <1>0 DEF Memory, ListOf
  <2>2. Slot(p) >= Room => Slot(p) \notin Slots
    BY DEF Slots
  <2>3. ~(Slot(p) < 0)
    BY <2>1 DEF Slot
  <2>4. buffer_rd[p].kind # "long"
    BY <1>2 DEF Ip
  <2>5. buffer_rd' = [buffer_rd EXCEPT ![p] = Blank]
    BY DEF Copy
  <2>6. QED
    BY <1>0, <2>2, <2>3, <2>4, <2>5, CopyShort
<1>3. \A q \in Peers : q # p => lpc'[q] = lpc[q] /\ buffer_rd'[q] = buffer_rd[q]
                                /\ client'[q] = client[q]
  BY <1>1 DEF Memory
<1>4. Idle(p, s)'
  BY <1>1, <1>2 DEF Idle, AtRest, Memory
<1>5. \A q \in Peers : q # p => Idle(q, s)' = Idle(q, s) /\ Pending(q, s)' = Pending(q, s)
                                /\ \A t \in Peers : Lists(q, t)' = Lists(q, t)
  BY <1>1, <1>3 DEF Idle, Pending, AtRest, Lists
<1>6. News(s)'
  BY <1>1, <1>2, <1>4, <1>5 DEF News
<1>7. CASE Slot(p) \in Slots
  <2>1. /\ client'[p] = [client[p] EXCEPT ![Slot(p)] = Ip(s)] /\ lpc'[p] = "recv"
        /\ client[p] \in [Slots -> RowTexts]
    <3>1. client \in [Peers -> [Slots -> RowTexts]]
          /\ lpc \in [Peers -> {"recv", "addr", "copy", "overrun"}]
      BY DEF Memory
    <3>2. QED
      BY <1>1, <1>2, <1>7, <3>1
  <2>2. client'[p][Slot(p)] = Ip(s) /\ \A k \in Slots : k # Slot(p) => client'[p][k] = client[p][k]
    BY <1>7, <2>1
  <2>3. client[p][Slot(p)] = Blank
    BY <1>1, <1>7 DEF Entries
  <2>4. Lists(p, s)'
    BY <1>7, <2>2 DEF Lists, Ip
  <2>5. ASSUME NEW t \in Peers, Lists(p, t) PROVE Lists(p, t)'
    <3>1. PICK k \in Slots : client[p][k] = Ip(t)
      BY <2>5 DEF Lists, Ip
    <3>2. k # Slot(p)
      BY <2>3, <3>1 DEF Ip, Blank
    <3>3. QED
      BY <2>2, <3>1, <3>2 DEF Lists, Ip
  <2>6. Entries'
    <3> SUFFICES ASSUME NEW q \in Peers, NEW k \in Slots, client'[q][k] # Blank
                 PROVE  /\ k < clientsNum'[q] /\ (lpc'[q] = "copy" => k # Slot(q)')
                        /\ \E r \in Peers : client'[q][k] = Ip(r) /\ pc'[r] = "running"
                        /\ \A j \in Slots : client'[q][j] = client'[q][k] => j = k
      BY DEF Entries
    <3>1. CASE q # p
      BY <1>1, <1>3, <3>1 DEF Entries, Slot
    <3>2. CASE q = p /\ k = Slot(p)
      <4>1. k < clientsNum'[q]
        BY <1>1, <3>2 DEF Slot, Memory
      <4>2. \A j \in Slots : j # k => client[p][j] # Ip(s)
        BY <1>2 DEF Lists, Ip
      <4>3. QED
        BY <1>1, <1>2, <2>1, <2>2, <3>2, <4>1, <4>2
    <3>3. CASE q = p /\ k # Slot(p)
      <4>1. client'[p][k] = client[p][k] /\ client[p][k] # Blank
        BY <2>2, <3>3
      <4>2. /\ k < clientsNum[p] /\ \A j \in Slots : client[p][j] = client[p][k] => j = k
            /\ \E r \in Peers : client[p][k] = Ip(r) /\ pc[r] = "running"
        BY <4>1 DEF Entries
      <4>3. client[p][k] # Ip(s)
        BY <1>2 DEF Lists, Ip
      <4>4. QED
        BY <1>1, <2>1, <2>2, <3>3, <4>1, <4>2, <4>3
    <3>4. QED
      BY <3>1, <3>2, <3>3
  <2>7. Meet(s)'
    <3> SUFFICES ASSUME NEW q \in Peers, NEW t \in Peers, Speaking(q)', Speaking(t)'
                 PROVE  \/ Lists(q, t)' \/ Lists(t, q)'
                        \/ t = s /\ Pending(q, s)'
                        \/ q = s /\ Pending(t, s)'
      BY DEF Meet
    <3>1. Speaking(q) /\ Speaking(t)
      BY <1>1, <1>3 DEF Speaking
    <3>2. \/ Lists(q, t) \/ Lists(t, q)
          \/ t = s /\ Pending(q, s)
          \/ q = s /\ Pending(t, s)
      BY <3>1 DEF Meet
    <3>3. QED
      BY <1>5, <2>4, <2>5, <3>2
  <2>8. QED
    BY <1>6, <2>6, <2>7
<1>8. CASE Slot(p) \notin Slots
  <2>1. client' = client /\ lpc'[p] = "overrun"
    BY <1>1, <1>8 DEF Memory
  <2>2. Entries'
    BY <1>1, <1>3, <2>1 DEF Entries, Slot
  <2>3. \A q, t \in Peers : Lists(q, t)' = Lists(q, t)
    BY <2>1 DEF Lists
  <2>4. Meet(s)'
    BY <1>1, <1>3, <1>5, <2>1, <2>3 DEF Meet, Speaking
  <2>5. QED
    BY <1>6, <2>2, <2>4
<1>9. QED
  BY <1>7, <1>8

\* A line is typed when nothing is under way, and is then the only news.
LEMMA SayNews ==
  ASSUME Wire, patient, NEW s \in Peers, News(s), Meet(s), NEW p \in Peers, Say(p, "text")
  PROVE  News(p)' /\ Meet(p)'
<1>1. Quiet /\ pc[p] = "running" /\ UNCHANGED <<pc, lstVars>> /\ Broadcast(p, "text", 1)
  BY DEF Say, Speaking
<1>2. \A q \in Peers : AtRest(q) /\ ~Pending(q, s) /\ pc[q] \in {"off", "running"}
  BY <1>1, QuietNews
<1>3. \A q, r \in Peers : inbox[q][r] = <<>>
  BY <1>1 DEF Quiet
<1>4. /\ \A q, r \in Peers :
           \/ inbox'[q][r] = inbox[q][r]
           \/ r = p /\ q \in Reachable /\ inbox'[q][r] = Append(inbox[q][r], "text")
  <2>1. "text" \in Kinds /\ 1 \in Nat
    BY DEF Kinds
  <2>2. QED
    BY <1>1, <2>1, BroadcastStep
<1>5. \A q, r \in Peers :
        \/ inbox'[q][r] = <<>>
        \/ r = p /\ pc[q] # "off" /\ inbox'[q][r] = <<"text">>
  BY <1>3, <1>4, Boxes DEF Reachable
<1>6. \A q \in Peers : Idle(q, p)'
  BY <1>1, <1>2, <1>5 DEF Idle, AtRest
<1>7. News(p)'
  BY <1>1, <1>2, <1>5, <1>6 DEF News
<1>8. Meet(p)'
  <2> SUFFICES ASSUME NEW q \in Peers, NEW r \in Peers, Speaking(q)', Speaking(r)'
               PROVE  Lists(q, r)' \/ Lists(r, q)'
    BY DEF Meet
  <2>1. Speaking(q) /\ Speaking(r)
    BY <1>1 DEF Speaking
  <2>2. Lists(q, r) \/ Lists(r, q)
    BY <1>2, <2>1 DEF Meet
  <2>3. QED
    BY <1>1, <2>2 DEF Lists
<1>9. QED
  BY <1>7, <1>8

LEMMA StepPatient == ListInv /\ PatientInv /\ [Next]_vars => PatientInv'
<1>0. SUFFICES ASSUME Wire, Memory, \A p \in Peers : ListOf(p), PatientInv, [Next]_vars, patient'
               PROVE  PatientInv'
  BY DEF ListInv, PatientInv
<1>1. patient
  BY <1>0, Zenon
     DEF Next, vars, Bind, Kill, Main, SendEnter, SendAddress, Listener, Listen, ListenAddress,
         ListenNothing, Copy, Speaker, Say, List, ListEntry
<1>2. Entries
  BY <1>0, <1>1, Zenon DEF PatientInv
<1>3. ASSUME NEW p \in Peers, NEW s \in Peers, News(s), Meet(s),
             \/ Bind(p) \/ Kill(p) \/ Main(p) \/ Listener(p) \/ ListenNothing(p) \/ Speaker(p)
      PROVE  Entries' /\ \E t \in Peers : News(t)' /\ Meet(t)'
  <2>1. CASE Bind(p)
    <3>1. UNCHANGED lstVars /\ \A r \in Peers : pc[r] = "running" => pc'[r] = "running"
      BY <1>0, <2>1 DEF Bind, Wire
    <3>2. QED
      BY <1>0, <1>1, <1>2, <1>3, <2>1, <3>1, KeepEntries, BindNews
  <2>2. CASE Kill(p)
    BY <1>1, <2>2, Zenon DEF Kill, Fault
  <2>3. CASE SendEnter(p)
    <3>1. UNCHANGED lstVars /\ \A r \in Peers : pc[r] = "running" => pc'[r] = "running"
      BY <1>0, <2>3 DEF SendEnter, Wire
    <3>2. QED
      BY <1>0, <1>1, <1>2, <1>3, <2>3, <3>1, KeepEntries, EnterNews
  <2>4. CASE SendAddress(p)
    <3>1. UNCHANGED lstVars /\ \A r \in Peers : pc[r] = "running" => pc'[r] = "running"
      BY <1>0, <2>4 DEF SendAddress, Wire
    <3>2. QED
      BY <1>0, <1>1, <1>2, <1>3, <2>4, <3>1, KeepEntries, AddressNews
  <2>5. CASE \E r \in Peers : Listen(p, r)
    <3>1. PICK r \in Peers : Listen(p, r)
      BY <2>5
    <3>2. News(s)' /\ Meet(s)'
      BY <1>0, <1>3, <3>1, ListenNews
    <3>3. \A q \in Peers : lpc'[q] = "copy" <=> lpc[q] = "copy"
      BY <1>0, <3>1 DEF Listen, Memory
    <3>4. Entries'
      BY <1>2, <3>1, <3>3 DEF Entries, Listen, Slot
    <3>5. QED
      BY <3>2, <3>4
  <2>6. CASE \E r \in Peers : ListenAddress(p, r)
    <3>1. PICK r \in Peers : ListenAddress(p, r)
      BY <2>6
    <3>2. News(s)' /\ Meet(s)'
      BY <1>0, <1>3, <3>1, ListenAddressNews
    <3>3. /\ UNCHANGED <<pc, client>> /\ clientsNum[p] \in Nat /\ clientsNum'[p] = clientsNum[p] + 1
          /\ \A q \in Peers : q # p => lpc'[q] = lpc[q] /\ clientsNum'[q] = clientsNum[q]
      BY <1>0, <3>1 DEF ListenAddress, TakeAddress, Memory
    <3>4. Entries'
      BY <1>2, <3>3 DEF Entries, Slot, Slots
    <3>5. QED
      BY <3>2, <3>4
  <2>7. CASE Copy(p)
    BY <1>0, <1>2, <1>3, <2>7, CopyNews
  <2>8. CASE Say(p, "text")
    <3>1. UNCHANGED <<lstVars, pc>>
      BY <2>8 DEF Say
    <3>2. QED
      BY <1>0, <1>1, <1>2, <1>3, <2>8, <3>1, KeepEntries, SayNews
  <2>9. ASSUME NEW kind \in Lines, kind # "text", Say(p, kind)
        PROVE  Entries' /\ \E t \in Peers : News(t)' /\ Meet(t)'
    BY <1>1, <2>9, Zenon DEF Say
  <2>10. CASE List(p) \/ ListEntry(p)
    <3>1. UNCHANGED <<lstVars, pc, inbox>>
      BY <2>10, Zenon DEF List, ListEntry
    <3>2. Entries'
      BY <1>0, <1>2, <3>1, KeepEntries
    <3>3. News(s)' /\ Meet(s)'
      BY <1>3, <3>1 DEF News, Meet, Idle, Pending, AtRest, Lists, Speaking
    <3>4. QED
      BY <3>2, <3>3
  <2>11. CASE ListenNothing(p)
    BY <1>1, <2>11, Zenon DEF ListenNothing, Fault
  <2>12. QED
    BY <1>3, <2>1, <2>2, <2>3, <2>4, <2>5, <2>6, <2>7, <2>8, <2>9, <2>10, <2>11, Zenon
       DEF Main, Listener, Speaker
<1>4. CASE \E p \in Peers : \/ Bind(p) \/ Kill(p) \/ Main(p) \/ Listener(p)
                           \/ ListenNothing(p) \/ Speaker(p)
  <2>1. \E s \in Peers : News(s) /\ Meet(s)
    BY <1>0, <1>1, <1>4, Zenon DEF PatientInv
  <2>2. Entries' /\ \E t \in Peers : News(t)' /\ Meet(t)'
    BY <1>3, <1>4, <2>1, Zenon
  <2>3. QED
    BY <2>2, Zenon DEF PatientInv
<1>5. CASE UNCHANGED vars
  <2>1. UNCHANGED <<lstVars, pc, inbox>>
    BY <1>5, Zenon DEF vars
  <2>2. Entries'
    BY <1>0, <1>2, <2>1, KeepEntries
  <2>3. ASSUME NEW s \in Peers, News(s), Meet(s) PROVE News(s)' /\ Meet(s)'
    BY <2>1, <2>3 DEF News, Meet, Idle, Pending, AtRest, Lists, Speaking
  <2>4. QED
    BY <1>0, <1>1, <2>2, <2>3, Zenon DEF PatientInv
<1>6. QED
  BY <1>0, <1>4, <1>5, Zenon DEF Next

----------------------------------------------------------------------------
Booleans == patient \in BOOLEAN /\ killed \in BOOLEAN

LEMMA StepBooleans == Booleans /\ [Next]_vars => Booleans'
<1> SUFFICES ASSUME Booleans, [Next]_vars PROVE Booleans'
  OBVIOUS
<1>1. UNCHANGED patient /\ (UNCHANGED killed \/ killed' = TRUE)
  BY Zenon DEF Next, vars, Bind, Kill, Main, SendEnter, SendAddress, Listener, Listen,
               ListenAddress, ListenNothing, Copy, Speaker, Say, List, ListEntry
<1>2. QED
  BY <1>1, Zenon DEF Booleans

Inv ==
  ListInv /\ (\A p \in Peers : JoinsOf(p)) /\ (\A p \in Peers : BlanksOf(p)) /\ PatientInv /\ Booleans

LEMMA Invariance == Spec => []Inv
<1>1. Init => Inv
  <2>1. Init => Booleans
    BY Zenon DEF Init, Booleans
  <2>2. QED
    BY <2>1, InitList, InitJoins, InitBlanks, InitPatient, Zenon DEF Inv
<1>2. Inv /\ [Next]_vars => Inv'
  <2> SUFFICES ASSUME Inv, [Next]_vars PROVE Inv'
    OBVIOUS
  <2>1. /\ ListInv /\ PatientInv /\ Booleans
        /\ \A p \in Peers : JoinsOf(p) /\ BlanksOf(p)
    BY Zenon DEF Inv
  <2>2. ListInv'
    BY <2>1, StepWire, StepMemory, StepListOf DEF ListInv
  <2>3. \A p \in Peers : JoinsOf(p)' /\ BlanksOf(p)'
    BY <2>1, StepJoins, StepBlanks
  <2>4. PatientInv' /\ Booleans'
    BY <2>1, StepPatient, StepBooleans, Zenon
  <2>5. QED
    BY <2>2, <2>3, <2>4, Zenon DEF Inv
<1>3. QED
  BY <1>1, <1>2, PTL DEF Spec

\* Every variable keeps its type, and a user who looks at the list stays in it.
THEOREM TypeCorrect == Spec => []TypeOK
<1>1. Inv => TypeOK
  <2> SUFFICES ASSUME Inv PROVE TypeOK
    OBVIOUS
  <2>1. Wire /\ Memory /\ patient \in BOOLEAN /\ killed \in BOOLEAN
    BY Zenon DEF Inv, ListInv, Booleans
  <2>2. QED
    BY <2>1, Zenon DEF TypeOK, Wire, Memory
<1>2. QED
  BY <1>1, Invariance, PTL

\* listen_thread() and speak_thread() share the list without a lock: a user who looks at
\* it sees every entry but the one that is being copied, and each of the others that is
\* blank took an empty datagram or a failed recvfrom() of its own.
THEOREM BlanksAreCounted == Spec => []BlanksWereSent
<1>1. Inv => BlanksWereSent
  <2> SUFFICES ASSUME Inv, NEW p \in Peers PROVE Cardinality(Blanks(p)) =< empties
    BY DEF BlanksWereSent
  <2>1. /\ IsFiniteSet(Words(inbox[p], "empty"))
        /\ Cardinality(Blanks(p)) + Unfilled(p) + Cardinality(Words(inbox[p], "empty")) =< empties
    BY Zenon DEF Inv, BlanksOf
  <2>2. Cardinality(Blanks(p)) \in Nat /\ Unfilled(p) \in Nat /\ empties \in Nat
    BY BlanksFinite DEF Inv, ListInv, Wire, Unfilled
  <2>3. Cardinality(Words(inbox[p], "empty")) \in Nat
    BY <2>1, FS_CardinalityType
  <2>4. QED
    BY <2>1, <2>2, <2>3
<1>2. QED
  BY <1>1, Invariance, PTL

\* However datagrams are lost or mixed, a list has at most one entry for each "*_EC"
\* that was broadcast, and it is overrun only by more of them than it has room for or
\* by a long line.
THEOREM ListsAreBounded == Spec => []EntriesNeedJoins
<1>1. Inv => EntriesNeedJoins
  <2> SUFFICES ASSUME Inv, NEW p \in Peers
               PROVE  /\ clientsNum[p] =< joins
                      /\ lpc[p] = "overrun" => joins > Room \/ HasLong(p)
    BY DEF EntriesNeedJoins, HasLong
  <2>1. /\ IsFiniteSet(Words(inbox[p], "enter"))
        /\ clientsNum[p] + Asked(p) + Cardinality(Words(inbox[p], "enter")) =< joins
    BY Zenon DEF Inv, JoinsOf
  <2>2. clientsNum[p] \in Nat /\ Asked(p) \in Nat /\ joins \in Nat
    BY DEF Inv, ListInv, Wire, Memory, Asked
  <2>3. Cardinality(Words(inbox[p], "enter")) \in Nat
    BY <2>1, FS_CardinalityType
  <2>4. clientsNum[p] =< joins
    BY <2>1, <2>2, <2>3
  <2>5. lpc[p] = "overrun" => clientsNum[p] > Room \/ HasLong(p)
    BY DEF Inv, ListInv, ListOf
  <2>6. clientsNum[p] > Room => joins > Room
    BY <2>2, <2>4
  <2>7. QED
    BY <2>4, <2>5, <2>6
<1>2. QED
  BY <1>1, Invariance, PTL

\* If users wait for each other, only addresses get into the lists, and none twice.
THEOREM OnlyAddressesListed == Spec => []EntriesAreAddresses
<1>1. Inv => EntriesAreAddresses
  <2> SUFFICES ASSUME PatientInv, patient PROVE EntriesAreAddresses
    BY Zenon DEF Inv, EntriesAreAddresses
  <2>1. Entries
    BY Zenon DEF PatientInv
  <2>2. \A p \in Peers, k \in Slots : client[p][k] = Blank \/ client[p][k].kind = "ip"
    <3> SUFFICES ASSUME NEW p \in Peers, NEW k \in Slots, client[p][k] # Blank
                 PROVE  client[p][k].kind = "ip"
      OBVIOUS
    <3>1. PICK r \in Peers : client[p][k] = Ip(r)
      BY <2>1 DEF Entries
    <3>2. QED
      BY <3>1 DEF Ip
  <2>3. \A p \in Peers, j, k \in Slots :
          client[p][j] = client[p][k] /\ client[p][j] # Blank => j = k
    BY <2>1 DEF Entries
  <2>4. QED
    BY <2>2, <2>3, Zenon DEF EntriesAreAddresses
<1>2. QED
  BY <1>1, Invariance, PTL

\* If users wait for each other, then of any two sessions that run one lists the
\* other, and each lists itself, when nothing is under way.
THEOREM SessionsMeet == Spec => []PeersMeet
<1>1. Inv => PeersMeet
  <2> SUFFICES ASSUME Inv, patient, Quiet, NEW p \in Peers, NEW q \in Peers, Speaking(p), Speaking(q)
               PROVE  Lists(p, q) \/ Lists(q, p)
    BY Zenon DEF PeersMeet
  <2>1. Wire /\ PatientInv
    BY Zenon DEF Inv, ListInv
  <2>2. PICK s \in Peers : News(s) /\ Meet(s)
    BY <2>1, Zenon DEF PatientInv
  <2>3. ~Pending(p, s) /\ ~Pending(q, s)
    BY <2>1, <2>2, QuietNews
  <2>4. QED
    BY <2>2, <2>3 DEF Meet
<1>2. QED
  BY <1>1, Invariance, PTL
=============================================================================
