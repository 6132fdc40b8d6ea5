----------------------- MODULE MulticastSessionProofs -----------------------
(***************************************************************************)
(* Proofs about MulticastSession for every set of sessions, whatever is    *)
(* lost and whatever fails: what a question costs, and what an answer says.*)
(***************************************************************************)
EXTENDS MulticastSession, FiniteSetTheorems, TLAPS

----------------------------------------------------------------------------
(* Types                                                                   *)

\* The string ip is there before the listener runs, and it is the session's own address
\* if it has an interface eth0.
Threads ==
  /\ pc \in [Peers -> {"off", "bound", "joined", "running", "exit", "crashed"}]
  /\ ip \in [Peers -> Addresses \union {"null"}] /\ spc \in [Peers -> {"kbhit", "gets"}]
  /\ \A p \in Peers : /\ pc[p] # "crashed"
                      /\ pc[p] = "running" => ip[p] # "null"
                      /\ p \in eth0 => ip[p] # "junk"

Boxes == [Peers -> [Peers -> Seq(Kinds)]]

Wire ==
  /\ inbox \in Boxes /\ shown \in [Peers -> [Peers -> [Printed -> Nat]]]
  /\ asked \in Nat /\ typed \in Nat /\ asked =< typed /\ typed =< MaxTyped

USE MulticastAssumption DEF Addresses, Printed, Kinds, Goto

\* A datagram is appended to what is waiting from its sender, or lost.
SentTo(from, to, s, kind) ==
  \A q, r \in Peers : to[q][r] = from[q][r] \/ (r = s /\ to[q][r] = Append(from[q][r], kind))

\* The first datagram that p had from r is gone.
TakenFrom(from, to, p, r) ==
  \A q, o \in Peers : to[q][o] = IF q = p /\ o = r THEN Tail(from[q][o]) ELSE from[q][o]

LEMMA MulticastStep ==
  ASSUME NEW from \in Boxes, NEW s \in Peers, NEW kind \in Kinds, Multicast(from, s, kind)
  PROVE  inbox' \in Boxes /\ SentTo(from, inbox', s, kind)
<1>1. PICK S \in SUBSET Members :
        inbox' = [q \in Peers |-> IF q \in S THEN [from[q] EXCEPT ![s] = Append(@, kind)]
                                             ELSE from[q]]
  BY DEF Multicast
<1>2. \A q, r \in Peers : Append(from[q][r], kind) \in Seq(Kinds)
  BY DEF Boxes
<1>3. QED
  BY <1>1, <1>2 DEF Boxes, SentTo

LEMMA ReceivedStep ==
  ASSUME Wire, NEW p \in Peers, NEW r \in Peers, inbox[p][r] # <<>>
  PROVE  /\ Received(p, r) \in Boxes /\ TakenFrom(inbox, Received(p, r), p, r)
         /\ Head(inbox[p][r]) \in Kinds
<1>1. inbox[p][r] \in Seq(Kinds) /\ inbox \in Boxes
  BY DEF Wire, Boxes
<1>2. Tail(inbox[p][r]) \in Seq(Kinds) /\ Head(inbox[p][r]) \in Kinds
  BY <1>1
<1>3. QED
  BY <1>1, <1>2 DEF Received, Boxes, TakenFrom

LEMMA StepThreads == Threads /\ [Next]_vars => Threads'
<1>0. SUFFICES ASSUME Threads, [Next]_vars PROVE Threads'
  OBVIOUS
<1> USE DEF Threads
<1>1. ASSUME NEW p \in Peers, Bind(p) PROVE Threads'
  BY <1>0, <1>1 DEF Bind, hostVars
<1>2. ASSUME NEW p \in Peers, Join(p) PROVE Threads'
  BY <1>0, <1>2 DEF Join, AfterJoin, hostVars
<1>3. ASSUME NEW p \in Peers, Run(p) PROVE Threads'
  <2>1. PICK address \in getip(p) : ip' = [ip EXCEPT ![p] = address]
    BY <1>3 DEF Run
  <2>2. address \in Addresses /\ (p \in eth0 => address = "own")
    BY DEF getip
  <2>3. pc' = [pc EXCEPT ![p] = "running"] /\ UNCHANGED <<spc, eth0>>
    BY <1>3 DEF Run, hostVars
  <2>4. QED
    BY <1>0, <2>1, <2>2, <2>3
<1>4. ASSUME NEW p \in Peers, NEW r \in Peers, ListenEcho(p, r) PROVE Threads'
  <2>1. UNCHANGED <<pc, ip, spc, eth0>>
    BY <1>0, <1>4 DEF ListenEcho, hostVars
  <2>2. QED
    BY <1>0, <2>1
<1>5. ASSUME NEW p \in Peers, NEW r \in Peers, ListenOther(p, r) PROVE Threads'
  BY <1>0, <1>5 DEF ListenOther, hostVars
<1>6. ASSUME NEW p \in Peers, Speaker(p) PROVE Threads'
  <2>1. UNCHANGED <<pc, ip, eth0>> /\ (spc' = spc \/ \E l \in {"kbhit", "gets"} : spc' = [spc EXCEPT ![p] = l])
    BY <1>6 DEF Speaker, Dash, Key, Line, Say, hostVars
  <2>2. QED
    BY <1>0, <2>1
<1>7. CASE UNCHANGED vars
  BY <1>0, <1>7 DEF vars, hostVars
<1>8. QED
  BY <1>0, <1>1, <1>2, <1>3, <1>4, <1>5, <1>6, <1>7, Zenon DEF Next, Main, Listener

\* What a step does to the datagrams: a line or a question is sent, a question is answered,
\* something else is printed, or nothing.
LEMMA Datagrams ==
  ASSUME Threads, Wire, [Next]_vars
  PROVE  \/ UNCHANGED <<inbox, shown, asked, typed>>
         \/ \E s \in Peers, kind \in {"echo", "line"} : Say(s, kind)
         \/ \E p, r \in Peers :
              /\ inbox[p][r] # <<>> /\ Head(inbox[p][r]) = "echo" /\ ip[p] \in Addresses
              /\ Multicast(Received(p, r), p, ip[p]) /\ UNCHANGED <<shown, asked, typed>>
         \/ \E p, r \in Peers : ListenOther(p, r)
<1>1. ASSUME NEW p \in Peers, NEW r \in Peers, ListenEcho(p, r)
      PROVE  /\ inbox[p][r] # <<>> /\ Head(inbox[p][r]) = "echo" /\ ip[p] \in Addresses
             /\ Multicast(Received(p, r), p, ip[p]) /\ UNCHANGED <<shown, asked, typed>>
  <2>1. ip[p] # "null" /\ ip[p] \in Addresses
    BY <1>1 DEF ListenEcho, Threads
  <2>2. QED
    BY <1>1, <2>1, Zenon DEF ListenEcho, IsEcho, Answer
<1>2. ASSUME NEW p \in Peers, Main(p) \/ Key(p) PROVE UNCHANGED <<inbox, shown, asked, typed>>
  BY <1>2 DEF Main, Bind, Join, Run, Key
<1>3. ASSUME NEW p \in Peers, Dash(p) \/ Line(p)
      PROVE  \E kind \in {"echo", "line"} : Say(p, kind)
  BY <1>3, Zenon DEF Dash, Line
<1>4. CASE UNCHANGED vars
  BY <1>4 DEF vars
<1>5. QED
  BY <1>1, <1>2, <1>3, <1>4, Zenon DEF Next, Listener, Speaker

LEMMA StepWire == Threads /\ Wire /\ [Next]_vars => Wire'
<1>0. SUFFICES ASSUME Threads, Wire, [Next]_vars PROVE Wire'
  OBVIOUS
<1>1. CASE UNCHANGED <<inbox, shown, asked, typed>>
  BY <1>0, <1>1 DEF Wire
<1>2. ASSUME NEW s \in Peers, NEW kind \in {"echo", "line"}, Say(s, kind) PROVE Wire'
  <2>1. inbox' \in Boxes
    <3>1. inbox \in Boxes /\ kind \in Kinds /\ Multicast(inbox, s, kind)
      BY <1>0, <1>2 DEF Say, Wire
    <3>2. QED
      BY <3>1, MulticastStep, Zenon
  <2>2. /\ typed < MaxTyped /\ typed' = typed + 1 /\ shown' = shown
        /\ asked' = IF kind = "echo" THEN asked + 1 ELSE asked
    BY <1>2 DEF Say
  <2>3. QED
    BY <1>0, <2>1, <2>2 DEF Wire
<1>3. ASSUME NEW p \in Peers, NEW r \in Peers, inbox[p][r] # <<>>, ip[p] \in Addresses,
             Multicast(Received(p, r), p, ip[p]), UNCHANGED <<shown, asked, typed>>
      PROVE  Wire'
  <2>1. Received(p, r) \in Boxes /\ ip[p] \in Kinds
    BY <1>0, <1>3, ReceivedStep
  <2>2. inbox' \in Boxes
    BY <1>3, <2>1, MulticastStep
  <2>3. QED
    BY <1>0, <1>3, <2>2 DEF Wire
<1>4. ASSUME NEW p \in Peers, NEW r \in Peers, ListenOther(p, r) PROVE Wire'
  <2>1. /\ inbox' = Received(p, r) /\ inbox[p][r] # <<>> /\ UNCHANGED <<asked, typed>>
        /\ Head(inbox[p][r]) # "echo"
        /\ shown' = [shown EXCEPT ![p][r][Head(inbox[p][r])] = @ + 1]
    BY <1>4 DEF ListenOther, IsEcho
  <2>2. inbox' \in Boxes /\ Head(inbox[p][r]) \in Printed
    BY <1>0, <2>1, ReceivedStep
  <2>3. shown' \in [Peers -> [Peers -> [Printed -> Nat]]]
    <3> DEFINE kind == Head(inbox[p][r])
               row == [shown[p][r] EXCEPT ![kind] = shown[p][r][kind] + 1]
               rows == [shown[p] EXCEPT ![r] = row]
    <3>1. shown[p] \in [Peers -> [Printed -> Nat]] /\ shown[p][r] \in [Printed -> Nat]
      BY <1>0 DEF Wire
    <3>2. shown' = [shown EXCEPT ![p] = rows] /\ kind \in Printed
      BY <2>1, <2>2
    <3> HIDE DEF kind
    <3>3. row \in [Printed -> Nat]
      BY <3>1, <3>2
    <3> HIDE DEF row
    <3>4. rows \in [Peers -> [Printed -> Nat]]
      BY <3>1, <3>3
    <3> HIDE DEF rows
    <3>5. QED
      BY <1>0, <3>2, <3>4 DEF Wire
  <2>4. QED
    BY <1>0, <2>1, <2>2, <2>3 DEF Wire
<1>5. QED
  BY <1>0, <1>1, <1>2, <1>3, <1>4, Datagrams, Zenon

----------------------------------------------------------------------------
(* Counting datagrams                                                      *)

\* What Waiting says of one session's inbox.
WaitingIn(box, S, K) == {m \in S \X Nat : m[2] \in 1..Len(box[m[1]]) /\ box[m[1]][m[2]] \in K}

Counted(box, S, K) == IsFiniteSet(WaitingIn(box, S, K))
Due(box, S, K)     == Cardinality(WaitingIn(box, S, K))

LEMMA WaitingIs ==
  ASSUME NEW q \in Peers, NEW S, NEW K
  PROVE  /\ Waiting(q, S, K) = WaitingIn(inbox[q], S, K)
         /\ Waiting(q, S, K)' = WaitingIn(inbox'[q], S, K)
  BY DEF Waiting, WaitingIn

LEMMA DueType ==
  ASSUME NEW box, NEW S, NEW K, Counted(box, S, K)
  PROVE  Due(box, S, K) \in Nat
  BY FS_CardinalityType DEF Counted, Due

\* A datagram that is sent is one more, if it counts.
LEMMA SentCount ==
  ASSUME NEW from \in Boxes, NEW to \in Boxes, NEW s \in Peers, NEW kind \in Kinds,
         SentTo(from, to, s, kind),
         NEW q \in Peers, NEW S \in SUBSET Peers, NEW K, Counted(from[q], S, K)
  PROVE  /\ Counted(to[q], S, K)
         /\ Due(to[q], S, K) =< Due(from[q], S, K) + 1
         /\ s \notin S \/ kind \notin K => Due(to[q], S, K) =< Due(from[q], S, K)
<1> DEFINE old == WaitingIn(from[q], S, K)
           new == WaitingIn(to[q], S, K)
           last == <<s, Len(from[q][s]) + 1>>
<1>1. ASSUME NEW m \in new, m \notin old PROVE m = last /\ kind \in K /\ s \in S
  <2>1. PICK p \in S, k \in Nat : m = <<p, k>>
    BY <1>1 DEF WaitingIn
  <2>2. /\ k \in 1..Len(to[q][p]) /\ to[q][p][k] \in K
        /\ ~(k \in 1..Len(from[q][p]) /\ from[q][p][k] \in K)
    BY <1>1, <2>1 DEF WaitingIn
  <2>3. p = s /\ to[q][p] = Append(from[q][p], kind)
    <3>1. to[q][p] = from[q][p] \/ (p = s /\ to[q][p] = Append(from[q][p], kind))
      BY <2>1, Zenon DEF SentTo
    <3>2. QED
      BY <2>2, <3>1
  <2>4. from[q][s] \in Seq(Kinds)
    BY DEF Boxes
  <2>5. k = Len(from[q][s]) + 1 /\ kind \in K
    BY <2>2, <2>3, <2>4
  <2>6. QED
    BY <2>1, <2>3, <2>5
<1> HIDE DEF last, old, new
<1>2. IsFiniteSet(old) /\ Cardinality(old) \in Nat
  BY FS_CardinalityType DEF Counted, old
<1>3. IsFiniteSet(old \union {last}) /\ Cardinality(old \union {last}) =< Cardinality(old) + 1
  <2>1. /\ IsFiniteSet(old \union {last})
        /\ Cardinality(old \union {last}) =
             IF last \in old THEN Cardinality(old) ELSE Cardinality(old) + 1
    BY <1>2, FS_AddElement
  <2>2. QED
    BY <1>2, <2>1
<1>4. new \subseteq old \union {last}
  BY <1>1
<1>5. IsFiniteSet(new) /\ Cardinality(new) =< Cardinality(old \union {last})
  BY <1>3, <1>4, FS_Subset
<1>6. Cardinality(new) \in Nat /\ Cardinality(old \union {last}) \in Nat
  BY <1>3, <1>5, FS_CardinalityType
<1>7. ASSUME s \notin S \/ kind \notin K PROVE Cardinality(new) =< Cardinality(old)
  <2>1. new \subseteq old
    BY <1>1, <1>7
  <2>2. QED
    BY <1>2, <2>1, FS_Subset
<1>8. Cardinality(new) =< Cardinality(old) + 1
  BY <1>2, <1>3, <1>5, <1>6
<1>9. QED
  BY <1>5, <1>7, <1>8 DEF Counted, Due, new, old

\* A datagram that is received is one less, if it counted.
LEMMA TakenCount ==
  ASSUME NEW from \in Boxes, NEW to \in Boxes, NEW p \in Peers, NEW r \in Peers,
         TakenFrom(from, to, p, r), from[p][r] # <<>>,
         NEW q \in Peers, NEW S \in SUBSET Peers, NEW K, Counted(from[q], S, K)
  PROVE  /\ Counted(to[q], S, K)
         /\ Due(to[q], S, K) =< Due(from[q], S, K)
         /\ q = p /\ r \in S /\ Head(from[p][r]) \in K =>
              Due(to[q], S, K) =< Due(from[q], S, K) - 1
<1>1. \A o \in Peers : to[q][o] = IF q = p /\ o = r THEN Tail(from[q][o]) ELSE from[q][o]
  BY Zenon DEF TakenFrom
<1>2. CASE q # p
  <2>1. \A o \in S : to[q][o] = from[q][o]
    BY <1>1, <1>2
  <2>2. WaitingIn(to[q], S, K) = WaitingIn(from[q], S, K)
    BY <2>1 DEF WaitingIn
  <2>3. Due(from[q], S, K) \in Nat
    BY DueType
  <2>4. QED
    BY <1>2, <2>2, <2>3 DEF Counted, Due
<1>3. CASE q = p
  <2> DEFINE box == from[p]
             old == WaitingIn(box, S, K)
             new == WaitingIn(to[p], S, K)
             first == <<r, 1>>
             before(m) == IF m[1] = r THEN <<r, m[2] + 1>> ELSE m
             f == [m \in new |-> before(m)]
  <2>1. box[r] \in Seq(Kinds) /\ Len(box[r]) >= 1 /\ Head(box[r]) = box[r][1]
    BY DEF Boxes
  <2>2. ASSUME NEW m \in new PROVE f[m] \in old \ {first}
    <3>1. PICK o \in S, k \in Nat : m = <<o, k>>
      BY <2>2 DEF WaitingIn
    <3>2. k \in 1..Len(to[p][o]) /\ to[p][o][k] \in K
      BY <2>2, <3>1 DEF WaitingIn
    <3>3. CASE o = r
      <4>1. to[p][o] = Tail(box[r])
        BY <1>1, <1>3, <3>3
      <4>2. k + 1 \in 1..Len(box[r]) /\ box[r][k + 1] \in K /\ k + 1 # 1
        BY <2>1, <3>2, <4>1
      <4>3. <<r, k + 1>> \in old
        <5>1. <<r, k + 1>> \in S \X Nat
          BY <3>1, <3>3
        <5>2. QED
          BY <4>2, <5>1 DEF WaitingIn
      <4>4. f[m] = <<r, k + 1>>
        BY <3>1, <3>3
      <4>5. <<r, k + 1>> # first
        BY <4>2
      <4>6. QED
        BY <4>3, <4>4, <4>5, Zenon
    <3>4. CASE o # r
      <4>1. f[m] = m
        BY <3>1, <3>4
      <4>2. to[p][o] = box[o]
        BY <1>1, <1>3, <3>4
      <4>3. m \in old
        BY <3>1, <3>2, <4>2 DEF WaitingIn
      <4>4. QED
        BY <3>1, <3>4, <4>1, <4>3
    <3>5. QED
      BY <3>3, <3>4
  <2>3. ASSUME NEW m \in new, NEW n \in new, f[m] = f[n] PROVE m = n
    <3>1. PICK o \in S, k \in Nat : m = <<o, k>>
      BY DEF WaitingIn
    <3>2. PICK x \in S, l \in Nat : n = <<x, l>>
      BY DEF WaitingIn
    <3>3. f[m] = IF o = r THEN <<r, k + 1>> ELSE <<o, k>>
      BY <3>1
    <3>4. f[n] = IF x = r THEN <<r, l + 1>> ELSE <<x, l>>
      BY <3>2
    <3>5. QED
      BY <2>3, <3>1, <3>2, <3>3, <3>4
  <2>4. f \in Injection(new, old \ {first})
    BY <2>2, <2>3 DEF Injection, IsInjective
  <2>5. r \in S /\ Head(box[r]) \in K => first \in old
    BY <2>1 DEF WaitingIn
  <2> HIDE DEF old, new, first, f
  <2>6. IsFiniteSet(old) /\ Cardinality(old) \in Nat
    BY <1>3, FS_CardinalityType DEF Counted, old
  <2>7. /\ IsFiniteSet(old \ {first})
        /\ Cardinality(old \ {first}) =
             IF first \in old THEN Cardinality(old) - 1 ELSE Cardinality(old)
    BY <2>6, FS_RemoveElement
  <2>8. IsFiniteSet(new) /\ Cardinality(new) =< Cardinality(old \ {first})
    BY <2>4, <2>7, FS_Injection
  <2>9. Cardinality(new) \in Nat
    BY <2>8, FS_CardinalityType
  <2>10. /\ Cardinality(new) =< Cardinality(old)
         /\ first \in old => Cardinality(new) =< Cardinality(old) - 1
    BY <2>6, <2>7, <2>8, <2>9
  <2>11. QED
    BY <1>3, <2>5, <2>8, <2>10 DEF Counted, Due, new, old
<1>4. QED
  BY <1>2, <1>3

----------------------------------------------------------------------------
(* What a question costs                                                   *)

\* OneAnswerEach for one pair of sessions, with what makes it inductive: the sets that are
\* counted are finite, and lines are counted apart from questions.
Counts(q, p) ==
  /\ Counted(inbox[q], {p}, Addresses) /\ Counted(inbox[p], Peers, {"echo"})
  /\ Counted(inbox[q], {p}, {"line"})
  /\ Answers(q, p) + Due(inbox[q], {p}, Addresses) + Due(inbox[p], Peers, {"echo"}) =< asked
  /\ shown[q][p]["line"] + Due(inbox[q], {p}, {"line"}) =< typed - asked

CountInv == \A p, q \in Peers : Counts(q, p)

LEMMA CountTypes ==
  ASSUME Wire, NEW p \in Peers, NEW q \in Peers, Counts(q, p)
  PROVE  /\ Due(inbox[q], {p}, Addresses) \in Nat /\ Due(inbox[p], Peers, {"echo"}) \in Nat
         /\ Due(inbox[q], {p}, {"line"}) \in Nat
         /\ \A k \in Printed : shown[q][p][k] \in Nat
         /\ asked \in Nat /\ typed \in Nat
<1>1. /\ Due(inbox[q], {p}, Addresses) \in Nat /\ Due(inbox[p], Peers, {"echo"}) \in Nat
      /\ Due(inbox[q], {p}, {"line"}) \in Nat
  BY DueType, Zenon DEF Counts
<1>2. QED
  BY <1>1 DEF Wire

LEMMA PrintsType ==
  ASSUME Wire, NEW p \in Peers, NEW q \in Peers
  PROVE  /\ Answers(q, p) \in Nat /\ shown[q][p]["line"] \in Nat
         /\ asked \in Nat /\ typed \in Nat
  BY DEF Wire, Answers

\* A question adds one question to answer, and a line one line to print.
LEMMA SayCounts ==
  ASSUME Wire, NEW s \in Peers, NEW kind \in {"echo", "line"}, Say(s, kind), Wire',
         NEW p \in Peers, NEW q \in Peers, Counts(q, p)
  PROVE  Counts(q, p)'
<1> DEFINE d == Due(inbox[q], {p}, Addresses)
           e == Due(inbox[p], Peers, {"echo"})
           l == Due(inbox[q], {p}, {"line"})
           dd == Due(inbox'[q], {p}, Addresses)
           ee == Due(inbox'[p], Peers, {"echo"})
           ll == Due(inbox'[q], {p}, {"line"})
<1>1. inbox \in Boxes /\ inbox' \in Boxes /\ kind \in Kinds
  BY DEF Wire
<1>2. Multicast(inbox, s, kind)
  BY DEF Say
<1>3. SentTo(inbox, inbox', s, kind)
  BY <1>1, <1>2, MulticastStep
<1>4. /\ Counted(inbox[q], {p}, Addresses) /\ Counted(inbox[p], Peers, {"echo"})
      /\ Counted(inbox[q], {p}, {"line"})
  BY DEF Counts
<1>5. {p} \in SUBSET Peers /\ Peers \in SUBSET Peers /\ kind \notin Addresses
  OBVIOUS
<1>6. Counted(inbox'[q], {p}, Addresses) /\ dd =< d
  BY <1>1, <1>3, <1>4, <1>5, SentCount, Zenon
<1>7. /\ Counted(inbox'[p], Peers, {"echo"}) /\ ee =< e + 1
      /\ kind \notin {"echo"} => ee =< e
  BY <1>1, <1>3, <1>4, <1>5, SentCount, Zenon
<1>8. /\ Counted(inbox'[q], {p}, {"line"}) /\ ll =< l + 1
      /\ kind \notin {"line"} => ll =< l
  BY <1>1, <1>3, <1>4, <1>5, SentCount, Zenon
<1>9. /\ Answers(q, p) + d + e =< asked /\ shown[q][p]["line"] + l =< typed - asked
  BY DEF Counts
<1>10. d \in Nat /\ e \in Nat /\ l \in Nat /\ dd \in Nat /\ ee \in Nat /\ ll \in Nat
  BY <1>4, <1>6, <1>7, <1>8, DueType, Zenon
<1> HIDE DEF d, e, l, dd, ee, ll
<1>11. /\ shown' = shown /\ typed' = typed + 1
       /\ asked' = IF kind = "echo" THEN asked + 1 ELSE asked
  BY DEF Say
<1>12. Answers(q, p) \in Nat /\ shown[q][p]["line"] \in Nat /\ asked \in Nat /\ typed \in Nat
  BY PrintsType, Zenon
<1>13. Answers(q, p)' = Answers(q, p) /\ shown'[q][p]["line"] = shown[q][p]["line"]
  BY <1>11 DEF Answers
<1>14. Answers(q, p)' + dd + ee =< asked'
  BY <1>6, <1>7, <1>9, <1>10, <1>11, <1>12, <1>13
<1>15. shown'[q][p]["line"] + ll =< typed' - asked'
  BY <1>8, <1>9, <1>10, <1>11, <1>12, <1>13
<1>16. QED
  BY <1>6, <1>7, <1>8, <1>14, <1>15, Zenon DEF Counts, dd, ee, ll

\* What is less can be added.
LEMMA LessAdded ==
  ASSUME NEW a \in Nat, NEW b \in Nat, NEW c \in Nat, NEW t \in Nat, NEW k \in Nat,
         c =< b, a + b =< t - k
  PROVE  a + c =< t - k
  OBVIOUS

\* A question that is answered is one question less to answer and one answer more to print.
LEMMA EchoCounts ==
  ASSUME Wire, NEW s \in Peers, NEW r \in Peers, inbox[s][r] # <<>>,
         Head(inbox[s][r]) = "echo", ip[s] \in Addresses,
         Multicast(Received(s, r), s, ip[s]), UNCHANGED <<shown, asked, typed>>, Wire',
         NEW p \in Peers, NEW q \in Peers, Counts(q, p)
  PROVE  Counts(q, p)'
<1> DEFINE mid == Received(s, r)
           kind == ip[s]
           d == Due(inbox[q], {p}, Addresses)
           e == Due(inbox[p], Peers, {"echo"})
           l == Due(inbox[q], {p}, {"line"})
           dm == Due(mid[q], {p}, Addresses)
           em == Due(mid[p], Peers, {"echo"})
           lm == Due(mid[q], {p}, {"line"})
           dd == Due(inbox'[q], {p}, Addresses)
           ee == Due(inbox'[p], Peers, {"echo"})
           ll == Due(inbox'[q], {p}, {"line"})
<1>1. inbox \in Boxes /\ inbox' \in Boxes /\ mid \in Boxes /\ TakenFrom(inbox, mid, s, r)
  BY ReceivedStep DEF Wire
<1>2. Multicast(mid, s, kind) /\ kind \in Kinds
  OBVIOUS
<1>3. kind \notin {"echo"} /\ kind \notin {"line"}
  OBVIOUS
<1> HIDE DEF mid, kind
<1>4. SentTo(mid, inbox', s, kind)
  BY <1>1, <1>2, MulticastStep
<1>5. /\ Counted(inbox[q], {p}, Addresses) /\ Counted(inbox[p], Peers, {"echo"})
      /\ Counted(inbox[q], {p}, {"line"})
  BY DEF Counts
<1>6. {p} \in SUBSET Peers /\ Peers \in SUBSET Peers /\ r \in Peers
      /\ Head(inbox[s][r]) \in {"echo"}
  OBVIOUS
<1>7. Counted(mid[q], {p}, Addresses) /\ dm =< d
  BY <1>1, <1>5, <1>6, TakenCount, Zenon
<1>8. Counted(mid[p], Peers, {"echo"}) /\ em =< e /\ (p = s => em =< e - 1)
  BY <1>1, <1>5, <1>6, TakenCount, Zenon
<1>9. Counted(mid[q], {p}, {"line"}) /\ lm =< l
  BY <1>1, <1>5, <1>6, TakenCount, Zenon
<1>10. Counted(inbox'[q], {p}, Addresses) /\ dd =< dm + 1 /\ (s \notin {p} => dd =< dm)
  BY <1>1, <1>2, <1>4, <1>6, <1>7, SentCount, Zenon
<1>11. Counted(inbox'[p], Peers, {"echo"}) /\ ee =< em
  BY <1>1, <1>2, <1>3, <1>4, <1>6, <1>8, SentCount, Zenon
<1>12. Counted(inbox'[q], {p}, {"line"}) /\ ll =< lm
  BY <1>1, <1>2, <1>3, <1>4, <1>6, <1>9, SentCount, Zenon
<1>13. /\ d \in Nat /\ e \in Nat /\ l \in Nat /\ dm \in Nat /\ em \in Nat /\ lm \in Nat
       /\ dd \in Nat /\ ee \in Nat /\ ll \in Nat
  BY <1>5, <1>7, <1>8, <1>9, <1>10, <1>11, <1>12, DueType, Zenon
<1>14. /\ Answers(q, p) + d + e =< asked /\ shown[q][p]["line"] + l =< typed - asked
  BY DEF Counts
<1> HIDE DEF d, e, l, dm, em, lm, dd, ee, ll
<1>15. Answers(q, p) \in Nat /\ shown[q][p]["line"] \in Nat /\ asked \in Nat /\ typed \in Nat
  BY PrintsType, Zenon
<1>16. /\ Answers(q, p)' = Answers(q, p) /\ shown'[q][p]["line"] = shown[q][p]["line"]
       /\ asked' = asked /\ typed' = typed
  BY DEF Answers
<1>17. Answers(q, p)' + dd + ee =< asked'
  BY <1>7, <1>8, <1>10, <1>11, <1>13, <1>14, <1>15, <1>16
<1>18. shown'[q][p]["line"] + ll =< typed' - asked'
  <2>1. ll =< l
    BY <1>9, <1>12, <1>13
  <2>2. shown[q][p]["line"] + l =< typed - asked
    BY <1>14
  <2>4. shown[q][p]["line"] + ll =< typed - asked
    BY <2>1, <2>2, <1>13, <1>15, LessAdded, Zenon
  <2>3. QED
    BY <2>4, <1>16, Zenon
<1>19. QED
  BY <1>10, <1>11, <1>12, <1>17, <1>18, Zenon DEF Counts, dd, ee, ll

\* What ListenOther prints.
LEMMA PrintedStep ==
  ASSUME Wire, NEW s \in Peers, NEW r \in Peers, ListenOther(s, r)
  PROVE  /\ inbox[s][r] # <<>> /\ Received(s, r) \in Boxes /\ inbox' = Received(s, r)
         /\ TakenFrom(inbox, inbox', s, r) /\ Head(inbox[s][r]) \in Printed
         /\ UNCHANGED <<asked, typed>>
         /\ \A q, p \in Peers, k \in Printed :
              shown'[q][p][k] = IF q = s /\ p = r /\ k = Head(inbox[s][r])
                                  THEN shown[q][p][k] + 1 ELSE shown[q][p][k]
<1>1. /\ inbox' = Received(s, r) /\ inbox[s][r] # <<>> /\ UNCHANGED <<asked, typed>>
      /\ Head(inbox[s][r]) # "echo"
      /\ shown' = [shown EXCEPT ![s][r][Head(inbox[s][r])] = @ + 1]
  BY DEF ListenOther, IsEcho
<1>2. /\ Received(s, r) \in Boxes /\ TakenFrom(inbox, Received(s, r), s, r)
      /\ Head(inbox[s][r]) \in Kinds
  BY <1>1, ReceivedStep
<1>3. Head(inbox[s][r]) \in Printed
  BY <1>1, <1>2
<1> DEFINE kind == Head(inbox[s][r])
<1>4. shown \in [Peers -> [Peers -> [Printed -> Nat]]]
  BY DEF Wire
<1>5. kind \in Printed /\ shown' = [shown EXCEPT ![s][r][kind] = @ + 1]
  BY <1>1, <1>3
<1> HIDE DEF kind
<1>6. \A q, p \in Peers, k \in Printed :
        shown'[q][p][k] = IF q = s /\ p = r /\ k = kind THEN shown[q][p][k] + 1
                                                        ELSE shown[q][p][k]
  BY <1>4, <1>5
<1>7. QED
  BY <1>1, <1>2, <1>3, <1>6 DEF kind

\* Something else that is printed is one datagram less to print.
LEMMA OtherCounts ==
  ASSUME Wire, NEW s \in Peers, NEW r \in Peers, ListenOther(s, r), Wire',
         NEW p \in Peers, NEW q \in Peers, Counts(q, p)
  PROVE  Counts(q, p)'
<1> DEFINE kind == Head(inbox[s][r])
           d == Due(inbox[q], {p}, Addresses)
           e == Due(inbox[p], Peers, {"echo"})
           l == Due(inbox[q], {p}, {"line"})
           dd == Due(inbox'[q], {p}, Addresses)
           ee == Due(inbox'[p], Peers, {"echo"})
           ll == Due(inbox'[q], {p}, {"line"})
           own == shown[q][p]["own"]
           junk == shown[q][p]["junk"]
           lines == shown[q][p]["line"]
           hit(k) == q = s /\ p = r /\ k = kind
<1>1. /\ inbox \in Boxes /\ inbox' \in Boxes /\ TakenFrom(inbox, inbox', s, r)
      /\ inbox[s][r] # <<>> /\ UNCHANGED <<asked, typed>> /\ kind \in Printed
  BY PrintedStep, Zenon DEF Wire
<1>2. /\ shown'[q][p]["own"] = IF hit("own") THEN own + 1 ELSE own
      /\ shown'[q][p]["junk"] = IF hit("junk") THEN junk + 1 ELSE junk
      /\ shown'[q][p]["line"] = IF hit("line") THEN lines + 1 ELSE lines
  <2> HIDE DEF kind
  <2>0. \A x, y \in Peers, k \in Printed :
          shown'[x][y][k] = IF x = s /\ y = r /\ k = kind THEN shown[x][y][k] + 1
                                                         ELSE shown[x][y][k]
    BY PrintedStep, Zenon DEF kind
  <2>1. \A k \in Printed :
          shown'[q][p][k] = IF hit(k) THEN shown[q][p][k] + 1 ELSE shown[q][p][k]
    BY <2>0
  <2>2. "own" \in Printed /\ "junk" \in Printed /\ "line" \in Printed
    OBVIOUS
  <2>3. QED
    BY <2>1, <2>2, Zenon
<1>3. /\ Counted(inbox[q], {p}, Addresses) /\ Counted(inbox[p], Peers, {"echo"})
      /\ Counted(inbox[q], {p}, {"line"})
  BY DEF Counts
<1>4. {p} \in SUBSET Peers /\ Peers \in SUBSET Peers
  OBVIOUS
<1>5. /\ Counted(inbox'[q], {p}, Addresses) /\ dd =< d
      /\ q = s /\ r \in {p} /\ kind \in Addresses => dd =< d - 1
  BY <1>1, <1>3, <1>4, TakenCount, Zenon
<1>6. Counted(inbox'[p], Peers, {"echo"}) /\ ee =< e
  BY <1>1, <1>3, <1>4, TakenCount, Zenon
<1>7. /\ Counted(inbox'[q], {p}, {"line"}) /\ ll =< l
      /\ q = s /\ r \in {p} /\ kind \in {"line"} => ll =< l - 1
  BY <1>1, <1>3, <1>4, TakenCount, Zenon
<1>8. /\ d \in Nat /\ e \in Nat /\ l \in Nat /\ dd \in Nat /\ ee \in Nat /\ ll \in Nat
  BY <1>3, <1>5, <1>6, <1>7, DueType, Zenon
<1>9. own \in Nat /\ junk \in Nat /\ lines \in Nat /\ asked \in Nat /\ typed \in Nat
  BY DEF Wire
<1>10. own + junk + d + e =< asked /\ lines + l =< typed - asked
  BY DEF Counts, Answers
<1>11. /\ hit("own") \/ hit("junk") => dd =< d - 1
       /\ hit("line") => ll =< l - 1
       /\ ~(hit("own") /\ hit("junk"))
  BY <1>5, <1>7
<1> HIDE DEF d, e, l, dd, ee, ll, hit, own, junk, lines, kind
<1>12. shown'[q][p]["own"] + shown'[q][p]["junk"] + dd + ee =< asked
  <2>1. CASE hit("own") \/ hit("junk")
    <3>1. shown'[q][p]["own"] + shown'[q][p]["junk"] = own + junk + 1
      BY <1>2, <1>9, <1>11, <2>1
    <3>2. dd =< d - 1
      BY <1>11, <2>1
    <3>3. QED
      BY <1>6, <1>8, <1>9, <1>10, <3>1, <3>2
  <2>2. CASE ~hit("own") /\ ~hit("junk")
    <3>1. shown'[q][p]["own"] = own /\ shown'[q][p]["junk"] = junk
      BY <1>2, <2>2
    <3>2. QED
      BY <1>5, <1>6, <1>8, <1>9, <1>10, <3>1
  <2>3. QED
    BY <2>1, <2>2, Zenon
<1>13. shown'[q][p]["line"] + ll =< typed - asked
  BY <1>2, <1>7, <1>8, <1>9, <1>10, <1>11
<1>14. QED
  BY <1>1, <1>5, <1>6, <1>7, <1>12, <1>13, Zenon DEF Counts, Answers, dd, ee, ll

LEMMA InitCounts == Init => CountInv
<1> SUFFICES ASSUME Init, NEW p \in Peers, NEW q \in Peers PROVE Counts(q, p)
  BY DEF CountInv
<1>1. \A x, o \in Peers : inbox[x][o] = <<>>
  BY DEF Init
<1>2. ASSUME NEW x \in Peers, NEW S \in SUBSET Peers, NEW K
      PROVE  Counted(inbox[x], S, K) /\ Due(inbox[x], S, K) = 0
  <2>1. WaitingIn(inbox[x], S, K) = {}
    BY <1>1 DEF WaitingIn
  <2>2. QED
    BY <2>1, FS_EmptySet DEF Counted, Due
<1>3. /\ Counted(inbox[q], {p}, Addresses) /\ Due(inbox[q], {p}, Addresses) = 0
      /\ Counted(inbox[p], Peers, {"echo"}) /\ Due(inbox[p], Peers, {"echo"}) = 0
      /\ Counted(inbox[q], {p}, {"line"}) /\ Due(inbox[q], {p}, {"line"}) = 0
  <2>1. {p} \in SUBSET Peers /\ Peers \in SUBSET Peers
    OBVIOUS
  <2>2. QED
    BY <1>2, <2>1, Zenon
<1>4. Answers(q, p) = 0 /\ shown[q][p]["line"] = 0 /\ asked = 0 /\ typed = 0
  BY DEF Init, Answers
<1>5. QED
  BY <1>3, <1>4 DEF Counts

LEMMA StepCounts == Threads /\ Wire /\ Wire' /\ CountInv /\ [Next]_vars => CountInv'
<1>0. SUFFICES ASSUME Threads, Wire, Wire', CountInv, [Next]_vars PROVE CountInv'
  OBVIOUS
<1>1. SUFFICES ASSUME NEW p \in Peers, NEW q \in Peers PROVE Counts(q, p)'
  BY Zenon DEF CountInv
<1>2. Counts(q, p)
  BY <1>0, Zenon DEF CountInv
<1>3. CASE UNCHANGED <<inbox, shown, asked, typed>>
  BY <1>2, <1>3 DEF Counts, Answers
<1>4. ASSUME NEW s \in Peers, NEW kind \in {"echo", "line"}, Say(s, kind)
      PROVE  Counts(q, p)'
  BY <1>0, <1>2, <1>4, SayCounts, Zenon
<1>5. ASSUME NEW s \in Peers, NEW r \in Peers, inbox[s][r] # <<>>,
             Head(inbox[s][r]) = "echo", ip[s] \in Addresses,
             Multicast(Received(s, r), s, ip[s]), UNCHANGED <<shown, asked, typed>>
      PROVE  Counts(q, p)'
  BY <1>0, <1>2, <1>5, EchoCounts, Zenon
<1>6. ASSUME NEW s \in Peers, NEW r \in Peers, ListenOther(s, r) PROVE Counts(q, p)'
  BY <1>0, <1>2, <1>6, OtherCounts, Zenon
<1>7. QED
  BY <1>0, <1>3, <1>4, <1>5, <1>6, Datagrams, Zenon

----------------------------------------------------------------------------
(* What an answer says                                                     *)

\* What a session that has an interface sent is no junk, on the screens and on the way.
Truth ==
  \A p, q \in Peers : p \in eth0 =>
    /\ shown[q][p]["junk"] = 0
    /\ \A k \in 1..Len(inbox[q][p]) : inbox[q][p][k] # "junk"

Clean(box) == \A k \in 1..Len(box) : box[k] # "junk"

LEMMA SentClean ==
  ASSUME NEW box \in Seq(Kinds), Clean(box), NEW kind \in Kinds, kind # "junk"
  PROVE  Clean(Append(box, kind))
BY DEF Clean

LEMMA TakenClean ==
  ASSUME NEW box \in Seq(Kinds), Clean(box), box # <<>>
  PROVE  Clean(Tail(box)) /\ Head(box) # "junk"
BY DEF Clean

LEMMA StepTruth == Threads /\ Wire /\ Truth /\ [Next]_vars => Truth'
<1>0. SUFFICES ASSUME Threads, Wire, Truth, [Next]_vars PROVE Truth'
  OBVIOUS
<1>1. eth0' = eth0
  BY <1>0 DEF Next, Main, Bind, Join, Run, Listener, ListenEcho, ListenOther, Speaker, Dash, Key,
              Line, Say, vars, hostVars
<1>2. SUFFICES ASSUME NEW p \in Peers, NEW q \in Peers, p \in eth0
               PROVE  shown'[q][p]["junk"] = 0 /\ Clean(inbox'[q][p])
  BY <1>1 DEF Truth, Clean
<1>3. shown[q][p]["junk"] = 0 /\ Clean(inbox[q][p]) /\ inbox[q][p] \in Seq(Kinds)
  BY <1>0, <1>2 DEF Truth, Clean, Wire, Boxes
<1>4. CASE UNCHANGED <<inbox, shown, asked, typed>>
  BY <1>3, <1>4
<1>5. ASSUME NEW s \in Peers, NEW kind \in {"echo", "line"}, Say(s, kind)
      PROVE  shown'[q][p]["junk"] = 0 /\ Clean(inbox'[q][p])
  <2>1. inbox \in Boxes /\ kind \in Kinds /\ Multicast(inbox, s, kind) /\ shown' = shown
    BY <1>0, <1>5 DEF Wire, Say
  <2>2. SentTo(inbox, inbox', s, kind)
    BY <2>1, MulticastStep
  <2>3. inbox'[q][p] = inbox[q][p] \/ inbox'[q][p] = Append(inbox[q][p], kind)
    BY <2>2, Zenon DEF SentTo
  <2>4. Clean(inbox'[q][p])
    BY <1>3, <2>1, <2>3, SentClean
  <2>5. QED
    BY <1>3, <2>1, <2>4
<1>6. ASSUME NEW s \in Peers, NEW r \in Peers, inbox[s][r] # <<>>, ip[s] \in Addresses,
             Multicast(Received(s, r), s, ip[s]), UNCHANGED <<shown, asked, typed>>
      PROVE  shown'[q][p]["junk"] = 0 /\ Clean(inbox'[q][p])
  <2> DEFINE mid == Received(s, r)
             kind == ip[s]
  <2>1. mid \in Boxes /\ TakenFrom(inbox, mid, s, r)
    BY <1>0, <1>6, ReceivedStep
  <2>2. Multicast(mid, s, kind) /\ kind \in Kinds /\ (s = p => kind # "junk")
    BY <1>0, <1>2, <1>6 DEF Threads
  <2> HIDE DEF mid, kind
  <2>3. SentTo(mid, inbox', s, kind)
    BY <2>1, <2>2, MulticastStep
  <2>4. mid[q][p] \in Seq(Kinds) /\ Clean(mid[q][p])
    <3>1. mid[q][p] = IF q = s /\ p = r THEN Tail(inbox[q][p]) ELSE inbox[q][p]
      BY <2>1, Zenon DEF TakenFrom
    <3>2. CASE q = s /\ p = r
      <4>1. inbox[q][p] # <<>> /\ mid[q][p] = Tail(inbox[q][p])
        BY <1>6, <3>1, <3>2
      <4>2. Clean(Tail(inbox[q][p]))
        BY <1>3, <4>1, TakenClean
      <4>3. QED
        BY <2>1, <4>1, <4>2 DEF Boxes
    <3>3. CASE ~(q = s /\ p = r)
      BY <1>3, <3>1, <3>3
    <3>4. QED
      BY <3>2, <3>3
  <2>5. inbox'[q][p] = mid[q][p] \/ (p = s /\ inbox'[q][p] = Append(mid[q][p], kind))
    BY <2>3, Zenon DEF SentTo
  <2>6. Clean(inbox'[q][p])
    BY <2>2, <2>4, <2>5, SentClean
  <2>7. QED
    BY <1>3, <1>6, <2>6
<1>7. ASSUME NEW s \in Peers, NEW r \in Peers, ListenOther(s, r)
      PROVE  shown'[q][p]["junk"] = 0 /\ Clean(inbox'[q][p])
  <2> DEFINE kind == Head(inbox[s][r])
  <2>1. TakenFrom(inbox, inbox', s, r) /\ inbox[s][r] # <<>>
    BY <1>0, <1>7, PrintedStep, Zenon
  <2>2. inbox'[q][p] = IF q = s /\ p = r THEN Tail(inbox[q][p]) ELSE inbox[q][p]
    BY <2>1, Zenon DEF TakenFrom
  <2>3. q = s /\ p = r => kind # "junk" /\ Clean(Tail(inbox[q][p]))
    BY <1>3, <2>1, TakenClean
  <2> HIDE DEF kind
  <2>4. \A x, y \in Peers, k \in Printed :
          shown'[x][y][k] = IF x = s /\ y = r /\ k = kind THEN shown[x][y][k] + 1
                                                         ELSE shown[x][y][k]
    BY <1>0, <1>7, PrintedStep, Zenon DEF kind
  <2>5. shown'[q][p]["junk"] = 0
    BY <1>3, <2>3, <2>4
  <2>6. QED
    BY <1>3, <2>2, <2>3, <2>5
<1>8. QED
  BY <1>0, <1>4, <1>5, <1>6, <1>7, Datagrams, Zenon

----------------------------------------------------------------------------
(* The theorems                                                            *)

Hosts == eth0 \subseteq Peers /\ lossy \in BOOLEAN /\ member \in [Peers -> BOOLEAN]

LEMMA StepHosts == Hosts /\ [Next]_vars => Hosts'
<1>0. SUFFICES ASSUME Hosts, [Next]_vars PROVE Hosts'
  OBVIOUS
<1>1. eth0' = eth0 /\ lossy' = lossy
  BY <1>0, Zenon DEF Next, Main, Bind, Join, Run, Listener, ListenEcho, ListenOther, Speaker, Dash,
                     Key, Line, Say, vars, hostVars
<1>2. member' = member \/ \E p \in Peers : member' = [member EXCEPT ![p] = TRUE]
  BY <1>0, Zenon DEF Next, Main, Bind, Join, Run, Listener, ListenEcho, ListenOther, Speaker, Dash,
                     Key, Line, Say, vars
<1>3. member' \in [Peers -> BOOLEAN]
  BY <1>0, <1>2, Zenon DEF Hosts
<1>4. QED
  BY <1>0, <1>1, <1>3, Zenon DEF Hosts

\* The inductive invariant.
Inv == Hosts /\ Threads /\ Wire /\ CountInv /\ Truth

LEMMA Initially == Init => Inv
<1>1. SUFFICES ASSUME Init PROVE Inv
  OBVIOUS
<1>2. Hosts
  BY <1>1, Zenon DEF Init, Hosts
<1>3. Threads
  BY <1>1 DEF Init, Threads
<1>4. Wire /\ Truth
  BY <1>1 DEF Init, Wire, Boxes, Truth
<1>5. QED
  BY <1>1, <1>2, <1>3, <1>4, InitCounts, Zenon DEF Inv

LEMMA Invariance == Spec => []Inv
<1>1. Inv /\ [Next]_vars => Inv'
  BY StepHosts, StepThreads, StepWire, StepCounts, StepTruth, Zenon DEF Inv
<1>2. QED
  BY Initially, <1>1, PTL DEF Spec

\* Every variable keeps its type.  That no counter of printed datagrams exceeds MaxTyped
\* follows from OneAnswerEach and from the same count of the lines (session.c, both threads).
THEOREM TypeCorrect == Spec => []TypeOK
<1>1. Inv => TypeOK
  <2>1. SUFFICES ASSUME Inv PROVE TypeOK
    OBVIOUS
  <2>2. Hosts /\ Threads /\ Wire /\ CountInv
    BY <2>1, Zenon DEF Inv
  <2>3. ASSUME NEW q \in Peers, NEW p \in Peers, NEW k \in Printed
        PROVE  shown[q][p][k] \in 0..MaxTyped
    <3>1. Counts(q, p)
      BY <2>2, Zenon DEF CountInv
    <3>2. /\ Due(inbox[q], {p}, Addresses) \in Nat /\ Due(inbox[p], Peers, {"echo"}) \in Nat
          /\ Due(inbox[q], {p}, {"line"}) \in Nat
          /\ \A i \in Printed : shown[q][p][i] \in Nat
          /\ asked \in Nat /\ typed \in Nat
      BY <2>2, <3>1, CountTypes, Zenon
    <3>3. asked =< typed /\ typed =< MaxTyped
      BY <2>2 DEF Wire
    <3>4. shown[q][p]["own"] + shown[q][p]["junk"] =< asked /\ shown[q][p]["line"] =< typed
      BY <3>1, <3>2 DEF Counts, Answers
    <3>5. QED
      BY <3>2, <3>3, <3>4
  <2>4. shown \in [Peers -> [Peers -> [Printed -> 0..MaxTyped]]]
    BY <2>2, <2>3 DEF Wire
  <2>5. asked \in 0..typed /\ typed \in 0..MaxTyped /\ inbox \in [Peers -> [Peers -> Seq(Kinds)]]
    BY <2>2 DEF Wire, Boxes
  <2>6. QED
    BY <2>2, <2>4, <2>5, Zenon DEF TypeOK, Hosts, Threads
<1>2. QED
  BY Invariance, <1>1, PTL

\* A question costs every session one answer: answers that are printed, answers that wait
\* and questions that wait are no more than the questions users asked, however datagrams
\* are lost and mixed (session.c, listen_thread()).
THEOREM QuestionsCostOneAnswer == Spec => []OneAnswerEach
<1>1. Inv => OneAnswerEach
  <2>1. SUFFICES ASSUME Inv, NEW p \in Peers, NEW q \in Peers
                 PROVE  Answers(q, p) + Cardinality(Waiting(q, {p}, Addresses))
                          + Cardinality(Waiting(p, Peers, {"echo"})) =< asked
    BY Zenon DEF OneAnswerEach
  <2>2. Counts(q, p)
    BY <2>1, Zenon DEF Inv, CountInv
  <2>3. /\ Waiting(q, {p}, Addresses) = WaitingIn(inbox[q], {p}, Addresses)
        /\ Waiting(p, Peers, {"echo"}) = WaitingIn(inbox[p], Peers, {"echo"})
    BY WaitingIs, Zenon
  <2>4. QED
    BY <2>2, <2>3, Zenon DEF Counts, Due
<1>2. QED
  BY Invariance, <1>1, PTL

\* No listener runs without the string ip, and the answers of a session with an interface
\* eth0 name that session (session.c, main() and getip()).
THEOREM AnswersAreTrue == Spec => []AddressesTrue
<1>1. Inv => AddressesTrue
  <2>1. SUFFICES ASSUME Inv, NEW p \in Peers, NEW q \in Peers
                 PROVE  /\ pc[p] # "crashed"
                        /\ p \in eth0 => /\ shown[q][p]["junk"] = 0
                                         /\ Waiting(q, {p}, {"junk"}) = {}
    BY Zenon DEF AddressesTrue
  <2>2. Threads /\ Truth
    BY <2>1, Zenon DEF Inv
  <2>3. pc[p] # "crashed"
    BY <2>2, Zenon DEF Threads
  <2>4. ASSUME p \in eth0 PROVE shown[q][p]["junk"] = 0 /\ Waiting(q, {p}, {"junk"}) = {}
    <3>1. shown[q][p]["junk"] = 0 /\ \A k \in 1..Len(inbox[q][p]) : inbox[q][p][k] # "junk"
      BY <2>2, <2>4, Zenon DEF Truth
    <3>2. QED
      BY <3>1 DEF Waiting
  <2>5. QED
    BY <2>3, <2>4
<1>2. QED
  BY Invariance, <1>1, PTL
=============================================================================
