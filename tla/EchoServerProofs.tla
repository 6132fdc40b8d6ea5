-------------------------- MODULE EchoServerProofs --------------------------
(***************************************************************************)
(* Theorems about EchoServer, for every number of clients, every buffer    *)
(* and every queue: what is returned to a client, and who can bring the    *)
(* server down.                                                            *)
(***************************************************************************)
EXTENDS EchoServer, TLAPS

USE EchoAssumption

\* Where the server is, it has a client, and bytes to return.
Served ==
  /\ pc = "accept" => client = Nobody
  /\ pc \in {"greet", "recv", "echo", "close"} => client \in Clients
  /\ pc = "greet" => ~greeted[client]
  /\ pc = "echo" => accepted_bytes > 0

\* Nothing was done for a client that waits in the queue or has not come, and
\* none waits twice.
Unserved(c) == taken[c] = 0 /\ ~greeted[c] /\ client # c

Waiting ==
  /\ \A j, k \in 1..Len(queue) : queue[j] = queue[k] => j = k
  /\ \A k \in 1..Len(queue) : there[queue[k]] # "out" /\ Unserved(queue[k])
  /\ \A c \in Clients : there[c] = "out" => Unserved(c)

\* The bytes taken from a client are returned or held, or lost once it has gone.
Counts ==
  \A c \in Clients :
    /\ taken[c] =< typed[c]
    /\ returned[c] + Held(c) =< taken[c]
    /\ there[c] = "here" /\ pc # "down" => taken[c] = returned[c] + Held(c)

\* A polite client that has gone has everything, so nothing is sent to it any more.
Manners ==
  /\ \A c \in polite : there[c] = "gone" /\ pc # "down" => Content(c)
  /\ \A c \in Clients : late[c] => c \notin polite
  /\ \A c \in Clients : reset[c] => late[c]

Inv == TypeOK /\ Served /\ Waiting /\ Counts /\ Manners /\ StaysUp

LEMMA InitInv == Init => Inv
  BY DEF Init, Inv, TypeOK, Served, Waiting, Unserved, Counts, Held, Manners, StaysUp,
         Zeros, None

----------------------------------------------------------------------------
(* Clients                                                                 *)

LEMMA ConnectInv == ASSUME Inv, NEW c \in Clients, Connect(c) PROVE Inv'
<1> USE DEF Inv, Connect, manners, srvVars, sentVars
<1>1. /\ queue \in Seq(Clients) /\ queue' = Append(queue, c)
      /\ Len(queue') = Len(queue) + 1 /\ Len(queue) \in Nat
      /\ queue' \in Seq(Clients)
      /\ \A k \in 1..Len(queue) : queue'[k] = queue[k]
      /\ queue'[Len(queue) + 1] = c
  BY DEF TypeOK
<1>2. TypeOK'
  <2>1. queue' \in Seq(Clients) /\ Len(queue') =< Backlog
    BY <1>1 DEF TypeOK
  <2>2. there' \in [Clients -> {"out", "here", "gone"}]
    BY DEF TypeOK
  <2>3. QED
    BY <2>1, <2>2 DEF TypeOK
<1>3. Served'
  BY DEF Served
<1>4. there' = [there EXCEPT ![c] = "here"] /\ there[c] = "out" /\ there \in [Clients -> {"out", "here", "gone"}]
  BY DEF TypeOK
<1>5. Waiting'
  <2>1. \A k \in 1..Len(queue) : queue[k] # c /\ queue[k] \in Clients
    BY <1>1, <1>4 DEF Waiting
  <2>2. \A k \in 1..Len(queue') : k \in 1..Len(queue) \/ k = Len(queue) + 1
    BY <1>1
  <2>3. ASSUME NEW j \in 1..Len(queue'), NEW k \in 1..Len(queue'), queue'[j] = queue'[k]
        PROVE  j = k
    BY <1>1, <2>1, <2>2, <2>3 DEF Waiting
  <2>4. \A d \in Clients : Unserved(d)' <=> Unserved(d)
    BY DEF Unserved
  <2>5. ASSUME NEW k \in 1..Len(queue')
        PROVE  /\ there'[queue'[k]] # "out" /\ taken'[queue'[k]] = 0
               /\ ~greeted'[queue'[k]] /\ client' # queue'[k]
    <3>1. CASE k \in 1..Len(queue)
      BY <1>1, <1>4, <2>1, <3>1 DEF Waiting, Unserved
    <3>2. CASE k = Len(queue) + 1
      BY <1>1, <1>4, <3>2 DEF Waiting, Unserved
    <3>3. QED
      BY <2>2, <3>1, <3>2
  <2>6. \A d \in Clients : there'[d] = "out" => Unserved(d)'
    BY <1>4, <2>4 DEF Waiting
  <2>7. QED
    BY <2>3, <2>5, <2>6 DEF Waiting, Unserved
<1>6. Counts'
  <2>1. \A d \in Clients : there'[d] = "here" => there[d] = "here" \/ d = c
    BY <1>4
  <2>2. taken[c] = 0 /\ returned[c] \in Nat /\ Held(c) = 0
    BY <1>4 DEF TypeOK, Waiting, Unserved, Held
  <2>3. Held(c)' = Held(c)
    BY DEF Held
  <2>4. returned[c] = 0
    BY <2>2 DEF Counts
  <2>5. QED
    BY <2>1, <2>2, <2>4 DEF Counts, Held
<1>7. Manners'
  BY <1>4 DEF Manners, Content, TypeOK
<1>8. StaysUp'
  BY DEF StaysUp
<1>9. QED
  BY <1>2, <1>3, <1>5, <1>6, <1>7, <1>8

LEMMA TypeInv == ASSUME Inv, NEW c \in Clients, Type(c) PROVE Inv'
<1> USE DEF Inv, Type, manners, srvVars, sentVars
<1>1. TypeOK'
  BY DEF TypeOK
<1>2. Served' /\ StaysUp'
  BY DEF Served, StaysUp
<1>3. Waiting'
  BY DEF Waiting, Unserved
<1>4. Counts'
  BY DEF Counts, Held, TypeOK
<1>5. Manners'
  BY DEF Manners, Content, TypeOK
<1>6. QED
  BY <1>1, <1>2, <1>3, <1>4, <1>5

LEMMA HangUpInv == ASSUME Inv, NEW c \in Clients, HangUp(c) PROVE Inv'
<1> USE DEF Inv, HangUp, manners, srvVars, sentVars
<1>1. TypeOK'
  BY DEF TypeOK
<1>2. Served' /\ StaysUp'
  BY DEF Served, StaysUp
<1>3. Waiting'
  <2>1. \A d \in Clients : (there'[d] = "out" => there[d] = "out") /\ (Unserved(d)' <=> Unserved(d))
    BY DEF Unserved, TypeOK
  <2>2. \A k \in 1..Len(queue) : queue[k] \in Clients
    BY DEF TypeOK
  <2>3. QED
    BY <2>1, <2>2 DEF Waiting
<1>4. Counts'
  BY DEF Counts, Held, TypeOK
<1>5. Manners'
  BY DEF Manners, Content, TypeOK
<1>6. QED
  BY <1>1, <1>2, <1>3, <1>4, <1>5

LEMMA ResetInv == ASSUME Inv, NEW c \in Clients, Reset(c) PROVE Inv'
<1> USE DEF Inv, Reset, manners, srvVars, sentVars, cliVars
<1>1. TypeOK'
  BY DEF TypeOK
<1>2. Served' /\ StaysUp' /\ Waiting' /\ Counts'
  BY DEF Served, StaysUp, Waiting, Unserved, Counts, Held
<1>3. Manners'
  BY DEF Manners, Content, TypeOK
<1>4. QED
  BY <1>1, <1>2, <1>3

----------------------------------------------------------------------------
(* The server                                                              *)

LEMMA AcceptInv == ASSUME Inv, Accept PROVE Inv'
<1> USE DEF Inv, Accept, manners, cliVars, sentVars
<1>1. /\ queue \in Seq(Clients) /\ Len(queue) \in Nat /\ Len(queue) > 0
      /\ client' = queue[1] /\ client' \in Clients
      /\ queue' \in Seq(Clients) /\ Len(queue') = Len(queue) - 1
      /\ \A k \in 1..Len(queue') : k + 1 \in 1..Len(queue) /\ queue'[k] = queue[k + 1]
  BY DEF TypeOK
<1>2. TypeOK'
  <2>1. queue' \in Seq(Clients) /\ Len(queue') =< Backlog /\ client' \in Clients
    BY <1>1 DEF TypeOK
  <2>2. QED
    BY <2>1 DEF TypeOK
<1>3. Unserved(client') /\ there[client'] # "out"
  BY <1>1 DEF Waiting
<1>4. Served'
  BY <1>1, <1>3 DEF Served, Unserved
<1>5. Waiting'
  <2>1. \A j, k \in 1..Len(queue') : queue'[j] = queue'[k] => j = k
    BY <1>1 DEF Waiting
  <2>2. ASSUME NEW k \in 1..Len(queue')
        PROVE  /\ there'[queue'[k]] # "out" /\ taken'[queue'[k]] = 0
               /\ ~greeted'[queue'[k]] /\ client' # queue'[k]
    <3>1. queue'[k] # client'
      BY <1>1 DEF Waiting
    <3>2. there[queue'[k]] # "out" /\ Unserved(queue'[k])
      BY <1>1 DEF Waiting
    <3>3. QED
      BY <3>1, <3>2 DEF Unserved
  <2>3. \A c \in Clients : there'[c] = "out" => Unserved(c)'
    BY <1>3 DEF Waiting, Unserved
  <2>4. QED
    BY <2>1, <2>2, <2>3 DEF Waiting, Unserved
<1>6. Counts'
  BY DEF Counts, Held
<1>7. Manners'
  BY DEF Manners, Content
<1>8. StaysUp'
  BY DEF StaysUp
<1>9. QED
  BY <1>2, <1>4, <1>5, <1>6, <1>7, <1>8

\* A send() to a client leaves those facts alone that are not about bytes: what is
\* sent to one that has gone is too late, and then it was not polite.
LEMMA SendKeepsManners ==
  ASSUME Inv, pc \in {"greet", "echo"}, AfterSend("recv"),
         UNCHANGED <<manners, client, cliVars, reset>>,
         greeted' \in [Clients -> BOOLEAN], \A c \in Clients : greeted[c] => greeted'[c],
         \A c \in Clients : there[c] = "gone" => returned'[c] = returned[c]
  PROVE  Manners' /\ StaysUp' /\ late' \in [Clients -> BOOLEAN]
<1> USE DEF Inv, AfterSend, manners, cliVars
<1>1. client \in Clients /\ pc # "down" /\ pc' \in {"recv", "down"}
  BY DEF Served
<1>2. late \in [Clients -> BOOLEAN]
  BY DEF TypeOK
<1>3. there[client] = "gone" => client \notin polite
  <2>1. SUFFICES ASSUME there[client] = "gone", client \in polite PROVE FALSE
    OBVIOUS
  <2>2. greeted[client] /\ returned[client] = typed[client]
    BY <1>1, <2>1 DEF Manners, Content
  <2>3. pc = "echo" /\ accepted_bytes > 0 /\ Held(client) = accepted_bytes
    BY <2>2 DEF Served, Held
  <2>4. /\ taken[client] =< typed[client] /\ returned[client] + Held(client) =< taken[client]
        /\ taken[client] \in Nat /\ returned[client] \in Nat /\ accepted_bytes \in Nat
    BY <1>1 DEF Counts, TypeOK
  <2>5. QED
    BY <2>2, <2>3, <2>4
<1>4. late' = [late EXCEPT ![client] = @ \/ there[client] = "gone"]
  OBVIOUS
<1>5. late' \in [Clients -> BOOLEAN]
  BY <1>2, <1>4
<1>6. \A c \in Clients : late'[c] => c \notin polite
  BY <1>1, <1>2, <1>3, <1>4 DEF Manners
<1>7. \A c \in Clients : reset'[c] => late'[c]
  BY <1>1, <1>2, <1>4 DEF Manners
<1>8. \A c \in polite' : there'[c] = "gone" /\ pc' # "down" => Content(c)'
  BY <1>1 DEF Manners, Content, TypeOK
<1>9. StaysUp'
  BY <1>1 DEF StaysUp, Manners
<1>10. QED
  BY <1>5, <1>6, <1>7, <1>8, <1>9 DEF Manners

LEMMA GreetInv == ASSUME Inv, Greet PROVE Inv'
<1> USE DEF Inv, Greet, manners, cliVars
<1>1. client \in Clients /\ pc' \in {"recv", "down"}
  BY DEF Served, AfterSend
<1>2. greeted' \in [Clients -> BOOLEAN] /\ \A c \in Clients : greeted[c] => greeted'[c]
  BY DEF TypeOK
<1>3. Manners' /\ StaysUp' /\ late' \in [Clients -> BOOLEAN]
  BY <1>2, SendKeepsManners
<1>4. TypeOK'
  BY <1>1, <1>2, <1>3 DEF TypeOK
<1>5. Served'
  BY <1>1 DEF Served
<1>6. Waiting'
  <2>1. \A c \in Clients : c # client => greeted'[c] = greeted[c]
    BY DEF TypeOK
  <2>2. \A c \in Clients : Unserved(c) => Unserved(c)'
    BY <2>1 DEF Unserved
  <2>3. \A k \in 1..Len(queue) : queue[k] \in Clients
    BY DEF TypeOK
  <2>4. QED
    BY <2>2, <2>3 DEF Waiting
<1>7. Counts'
  BY <1>1 DEF Counts, Held
<1>8. QED
  BY <1>3, <1>4, <1>5, <1>6, <1>7

LEMMA RecvInv == ASSUME Inv, Recv PROVE Inv'
<1> USE DEF Inv, Recv, manners, cliVars, sentVars
<1>1. client \in Clients /\ pc = "recv" /\ pc' = "echo"
  BY DEF Served
<1>2. PICK n \in 1..Buffer :
        /\ n =< Available /\ accepted_bytes' = n
        /\ taken' = [taken EXCEPT ![client] = @ + n]
  OBVIOUS
<1>3. /\ typed[client] \in 0..MaxTyped /\ taken[client] \in 0..MaxTyped
      /\ taken \in [Clients -> 0..MaxTyped] /\ n \in Nat /\ n > 0
      /\ taken[client] + n =< typed[client]
  BY <1>1, <1>2 DEF TypeOK, Available
<1>4. /\ taken'[client] = taken[client] + n
      /\ \A c \in Clients : c # client => taken'[c] = taken[c]
      /\ taken' \in [Clients -> 0..MaxTyped]
  BY <1>1, <1>2, <1>3
<1>5. TypeOK'
  BY <1>1, <1>2, <1>4 DEF TypeOK
<1>6. Served'
  BY <1>1, <1>2, <1>3 DEF Served
<1>7. Waiting'
  <2>1. \A c \in Clients : Unserved(c) => Unserved(c)'
    BY <1>4 DEF Unserved
  <2>2. \A k \in 1..Len(queue) : queue[k] \in Clients
    BY DEF TypeOK
  <2>3. QED
    BY <2>1, <2>2 DEF Waiting
<1>8. Counts'
  <2>1. Held(client)' = n /\ Held(client) = 0 /\ \A c \in Clients : c # client => Held(c)' = 0 /\ Held(c) = 0
    BY <1>1, <1>2 DEF Held
  <2>2. returned \in [Clients -> Nat] /\ typed \in [Clients -> 0..MaxTyped]
    BY DEF TypeOK
  <2>3. QED
    BY <1>1, <1>3, <1>4, <2>1, <2>2 DEF Counts
<1>9. Manners' /\ StaysUp'
  BY <1>1 DEF Manners, Content, StaysUp
<1>10. QED
  BY <1>5, <1>6, <1>7, <1>8, <1>9

LEMMA RecvEndInv == ASSUME Inv, RecvEnd PROVE Inv'
<1> USE DEF Inv, RecvEnd, AfterEnd, manners, cliVars, sentVars
<1>1. TypeOK' /\ Served'
  BY DEF TypeOK, Served
<1>2. Waiting' /\ Counts'
  BY DEF Waiting, Unserved, Counts, Held
<1>3. Manners' /\ StaysUp'
  BY DEF Manners, Content, StaysUp
<1>4. QED
  BY <1>1, <1>2, <1>3

LEMMA EchoInv == ASSUME Inv, Echo PROVE Inv'
<1> USE DEF Inv, Echo, Echoed, manners, cliVars
<1>1. client \in Clients /\ pc = "echo" /\ pc' \in {"recv", "down"}
  BY DEF Served, AfterSend
<1>2. /\ accepted_bytes \in Nat /\ returned \in [Clients -> Nat]
      /\ returned' = [returned EXCEPT ![client] =
           IF there[client] = "here" THEN @ + accepted_bytes ELSE @]
  BY DEF TypeOK
<1>3. /\ returned' \in [Clients -> Nat]
      /\ \A c \in Clients : c # client \/ there[c] # "here" => returned'[c] = returned[c]
      /\ there[client] = "here" => returned'[client] = returned[client] + accepted_bytes
  BY <1>1, <1>2
<1>4. Manners' /\ StaysUp' /\ late' \in [Clients -> BOOLEAN]
  <2>1. greeted' \in [Clients -> BOOLEAN] /\ \A c \in Clients : greeted[c] => greeted'[c]
    BY DEF TypeOK
  <2>2. \A c \in Clients : there[c] = "gone" => returned'[c] = returned[c]
    BY <1>3
  <2>3. QED
    BY <2>1, <2>2, <1>1, SendKeepsManners
<1>5. TypeOK'
  BY <1>1, <1>3, <1>4 DEF TypeOK
<1>6. Served'
  BY <1>1 DEF Served
<1>7. Waiting'
  BY DEF Waiting, Unserved
<1>8. Counts'
  <2>1. /\ Held(client) = accepted_bytes
        /\ \A c \in Clients : Held(c)' = 0 /\ (c # client => Held(c) = 0)
    BY <1>1 DEF Held
  <2>2. taken \in [Clients -> 0..MaxTyped] /\ typed \in [Clients -> 0..MaxTyped]
    BY DEF TypeOK
  <2>3. QED
    BY <1>1, <1>2, <1>3, <2>1, <2>2 DEF Counts
<1>9. QED
  BY <1>4, <1>5, <1>6, <1>7, <1>8

LEMMA CloseInv == ASSUME Inv, Close PROVE Inv'
<1> USE DEF Inv, Close, manners, cliVars, sentVars
<1>1. TypeOK' /\ Served'
  BY DEF TypeOK, Served
<1>2. Waiting'
  <2>1. \A k \in 1..Len(queue) : queue[k] \in Clients
    BY DEF TypeOK
  <2>2. \A c \in Clients : Unserved(c) => Unserved(c)'
    BY DEF Unserved
  <2>3. QED
    BY <2>1, <2>2 DEF Waiting
<1>3. Counts'
  BY DEF Counts, Held
<1>4. Manners' /\ StaysUp'
  BY DEF Manners, Content, StaysUp
<1>5. QED
  BY <1>1, <1>2, <1>3, <1>4

----------------------------------------------------------------------------
LEMMA Invariance == Spec => []Inv
<1>1. Inv /\ [Next]_vars => Inv'
  <2>1. SUFFICES ASSUME Inv, [Next]_vars PROVE Inv'
    OBVIOUS
  <2>2. CASE Server
    BY <2>1, <2>2, AcceptInv, GreetInv, RecvInv, RecvEndInv, EchoInv, CloseInv DEF Server
  <2>3. ASSUME NEW c \in Clients, Connect(c) \/ Type(c) \/ HangUp(c) \/ Reset(c) PROVE Inv'
    BY <2>1, <2>3, ConnectInv, TypeInv, HangUpInv, ResetInv
  <2>4. CASE UNCHANGED vars
    BY <2>1, <2>4 DEF vars, manners, srvVars, cliVars, sentVars, Inv, TypeOK, Served, Waiting,
                      Unserved, Counts, Held, Manners, Content, StaysUp
  <2>5. QED
    BY <2>1, <2>2, <2>3, <2>4 DEF Next
<1>2. QED
  BY <1>1, InitInv, PTL DEF Spec

\* The variables keep their types, whatever the clients do.
THEOREM TypeCorrect == Spec => []TypeOK
<1>1. Inv => TypeOK
  BY DEF Inv
<1>2. QED
  BY <1>1, Invariance, PTL

\* The server returns to each client exactly what it took from it, for every
\* number of clients and every size of the buffer and of the queue.
THEOREM EchoIsExact == Spec => []EchoExact
<1>1. Inv => EchoExact
  <2>1. SUFFICES ASSUME Inv, NEW c \in Clients
                 PROVE  /\ there[c] = "here" /\ pc # "down" => taken[c] = returned[c] + Held(c)
                        /\ taken[c] =< typed[c] /\ returned[c] =< taken[c]
                        /\ (\E k \in 1..Len(queue) : queue[k] = c)
                             => taken[c] = 0 /\ ~greeted[c] /\ client # c
    BY DEF EchoExact
  <2>2. Held(c) \in Nat /\ returned[c] \in Nat /\ taken[c] \in Nat
    BY <2>1 DEF Inv, TypeOK, Held
  <2>3. QED
    BY <2>1, <2>2 DEF Inv, Counts, Waiting, Unserved
<1>2. QED
  BY <1>1, Invariance, PTL

\* Nobody but the client that is being served brings the server down, and only
\* if it has no name or hangs up while its bytes are under way.
THEOREM ServerStaysUp == Spec => []StaysUp
<1>1. Inv => StaysUp
  BY DEF Inv
<1>2. QED
  BY <1>1, Invariance, PTL
=============================================================================
