----------------------------- MODULE EchoServer -----------------------------
(***************************************************************************)
(* lab2/simple_server.c: a TCP echo server that serves one client at a     *)
(* time.  It greets the client with its host name, sends back what it      *)
(* receives until the client hangs up, and accepts the next one.  The      *)
(* results of send() are not looked at, nor is the signal SIGPIPE handled. *)
(*                                                                         *)
(* External: the clients, which read at once what they are sent; TCP,      *)
(* where a byte of a client is named by its number; the queue of           *)
(* connections that are complete but not accepted; the name service.       *)
(***************************************************************************)
EXTENDS Integers, Sequences

CONSTANTS
  Clients,
  Buffer,    \* bytes in accepted_data
  MaxTyped,  \* bound: bytes a client types
  Backlog,   \* connections that may wait to be accepted
  Nameless   \* the clients whose address may have no name

Nobody == "nobody"

ASSUME EchoAssumption ==
  /\ Nobody \notin Clients
  /\ Buffer \in Nat \ {0} /\ MaxTyped \in Nat /\ Backlog \in Nat \ {0}
  /\ Nameless \subseteq Clients

VARIABLES
  polite,          \* the clients that hang up only when everything was returned to them
  nameless,        \* the clients whose address has no name
  pc,              \* the server: "accept", "greet", "recv", "echo", "close" or "down"
  client,          \* the client it serves, or Nobody
  accepted_bytes,
  queue,           \* connections to be accepted
  there,           \* each client: "out", "here" or "gone"
  typed, taken,    \* bytes each client has sent, the server has received
  returned,        \* bytes that were sent back to it
  greeted,         \* it was sent its name
  late,            \* something was sent to it after it had gone
  reset            \* its kernel's answer to that has come

manners  == <<polite, nameless>>
srvVars  == <<pc, client, accepted_bytes>>
cliVars  == <<there, typed>>
sentVars == <<returned, greeted, late>>
vars == <<manners, srvVars, queue, cliVars, taken, sentVars, reset>>

None   == [c \in Clients |-> FALSE]
Zeros  == [c \in Clients |-> 0]

Init ==
  /\ polite \in SUBSET Clients /\ nameless \in SUBSET Nameless
  /\ pc = "accept" /\ client = Nobody /\ accepted_bytes = 0 /\ queue = <<>>
  /\ there = [c \in Clients |-> "out"] /\ typed = Zeros /\ taken = Zeros
  /\ returned = Zeros /\ greeted = None /\ late = None /\ reset = None

----------------------------------------------------------------------------
(* Clients and TCP (external)                                              *)

Connect(c) ==
  /\ there[c] = "out" /\ pc # "down" /\ Len(queue) < Backlog
  /\ there' = [there EXCEPT ![c] = "here"] /\ queue' = Append(queue, c)
  /\ UNCHANGED <<manners, srvVars, typed, taken, sentVars, reset>>

Type(c) ==
  /\ there[c] = "here" /\ typed[c] < MaxTyped
  /\ typed' = [typed EXCEPT ![c] = @ + 1]
  /\ UNCHANGED <<manners, srvVars, queue, there, taken, sentVars, reset>>

Content(c) == greeted[c] /\ returned[c] = typed[c]

HangUp(c) ==
  /\ there[c] = "here" /\ there' = [there EXCEPT ![c] = "gone"]
  /\ c \in polite => Content(c) \/ pc = "down"
  /\ UNCHANGED <<manners, srvVars, queue, typed, taken, sentVars, reset>>

Reset(c) ==
  /\ late[c] /\ ~reset[c] /\ reset' = [reset EXCEPT ![c] = TRUE]
  /\ UNCHANGED <<manners, srvVars, queue, cliVars, taken, sentVars>>

----------------------------------------------------------------------------
(* The server                                                              *)

\* getClientInfo() is given *gethostbyaddr(...), which is NULL for an address
\* without a name.
Accept ==
  /\ pc = "accept" /\ queue # <<>>
  /\ client' = Head(queue) /\ queue' = Tail(queue)
  /\ pc' = IF client' \in nameless THEN "down" ELSE "greet"
  /\ UNCHANGED <<manners, accepted_bytes, cliVars, taken, sentVars, reset>>

\* The server goes on to l if send() returns, whatever it returns; on a connection
\* that was reset it may raise SIGPIPE instead.
AfterSend(l) ==
  /\ pc' = l \/ (reset[client] /\ pc' = "down")
  /\ late' = [late EXCEPT ![client] = @ \/ there[client] = "gone"]

Greet ==
  /\ pc = "greet" /\ AfterSend("recv")
  /\ greeted' = [greeted EXCEPT ![client] = @ \/ there[client] = "here"]
  /\ UNCHANGED <<manners, client, accepted_bytes, queue, cliVars, taken, returned, reset>>

\* Mutant: recv() is taken to fill the buffer.
AvailableFull == Buffer

Available == typed[client] - taken[client]

Recv ==
  /\ pc = "recv" /\ Available > 0
  /\ \E n \in 1..Buffer :
       /\ n =< Available /\ accepted_bytes' = n
       /\ taken' = [taken EXCEPT ![client] = @ + n]
  /\ pc' = "echo"
  /\ UNCHANGED <<manners, client, queue, cliVars, sentVars, reset>>

\* Mutants: the loop goes on; the echo is sent before the result is looked at.
AfterEndRecv == "recv"
AfterEndEcho == "echo"
AfterEnd     == "close"

\* recv() returns 0 or -1.
RecvEnd ==
  /\ pc = "recv" /\ there[client] = "gone" /\ (Available = 0 \/ reset[client])
  /\ accepted_bytes' = 0 /\ pc' = AfterEnd
  /\ UNCHANGED <<manners, client, queue, cliVars, taken, sentVars, reset>>

\* Mutant: the whole buffer is sent.
EchoedBuffer == Buffer

Echoed == accepted_bytes

Echo ==
  /\ pc = "echo" /\ AfterSend("recv")
  /\ returned' = [returned EXCEPT ![client] = IF there[client] = "here" THEN @ + Echoed ELSE @]
  /\ UNCHANGED <<manners, client, accepted_bytes, queue, cliVars, taken, greeted, reset>>

Close ==
  /\ pc = "close" /\ pc' = "accept" /\ client' = Nobody
  /\ UNCHANGED <<manners, accepted_bytes, queue, cliVars, taken, sentVars, reset>>

----------------------------------------------------------------------------
Server == Accept \/ Greet \/ Recv \/ RecvEnd \/ Echo \/ Close
Next == Server \/ \E c \in Clients : Connect(c) \/ Type(c) \/ HangUp(c) \/ Reset(c)

\* The server runs, TCP delivers, and no client that has everything back stays for
\* ever; a client that finds the queue full tries again.
Spec == /\ Init /\ [][Next]_vars /\ WF_vars(Server)
        /\ \A c \in Clients : /\ SF_vars(Connect(c))
                            /\ WF_vars(Content(c) /\ HangUp(c)) /\ WF_vars(Reset(c))

----------------------------------------------------------------------------
(* Properties                                                              *)

TypeOK ==
  /\ polite \subseteq Clients /\ nameless \subseteq Nameless
  /\ pc \in {"accept", "greet", "recv", "echo", "close", "down"}
  /\ client \in Clients \union {Nobody} /\ accepted_bytes \in 0..Buffer
  /\ queue \in Seq(Clients) /\ Len(queue) =< Backlog
  /\ there \in [Clients -> {"out", "here", "gone"}]
  /\ typed \in [Clients -> 0..MaxTyped] /\ taken \in [Clients -> 0..MaxTyped]
  /\ returned \in [Clients -> Nat] /\ greeted \in [Clients -> BOOLEAN]
  /\ late \in [Clients -> BOOLEAN] /\ reset \in [Clients -> BOOLEAN]

\* The bytes of c that the server holds between its recv() and its send().
Held(c) == IF pc = "echo" /\ client = c THEN accepted_bytes ELSE 0

\* A client that is there has every byte back that was taken from it, no other and
\* none twice, but those in accepted_data; nothing before it was greeted; and a
\* client that waits keeps all it has typed.
EchoExact ==
  \A c \in Clients :
    /\ there[c] = "here" /\ pc # "down" => taken[c] = returned[c] + Held(c)
    /\ taken[c] =< typed[c] /\ returned[c] =< taken[c]
    /\ (\E k \in 1..Len(queue) : queue[k] = c) => taken[c] = 0 /\ ~greeted[c] /\ client # c

\* Only a client without a name, or one that hangs up while its bytes are under
\* way, brings the server down, and only while it is being served.
StaysUp == pc = "down" => client \in nameless \/ client \notin polite

\* If there is none, everybody is served in the end and gets everything back.
Everyone ==
  polite = Clients /\ nameless = {} =>
    \A c \in Clients : <>(greeted[c] /\ there[c] = "gone" /\ returned[c] = typed[c])

\* lab2/Readme: the client may type anything, and "each time" it is returned, as
\* long as the client itself stays.
Returned ==
  \A c \in Clients :
    (there[c] = "here" /\ returned[c] < typed[c])
      ~> (returned[c] = typed[c] \/ there[c] = "gone")
=============================================================================
