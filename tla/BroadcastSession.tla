-------------------------- MODULE BroadcastSession --------------------------
(***************************************************************************)
(* lab3_2/session_v3.c: a chat without a server.  Every session broadcasts *)
(* what its user types.  A session that starts broadcasts two datagrams,   *)
(* the word "*_EC" and its own address; whoever hears the word takes the   *)
(* next datagram for an address and adds it to a list, which the user can  *)
(* look at.  Two threads share the list without a lock.                    *)
(*                                                                         *)
(* UDP is external: a datagram reaches every session whose socket is bound *)
(* when it is sent, the sender's own too, or is lost on the way.  What one *)
(* session sends arrives in order; what several send is mixed differently  *)
(* at every receiver.                                                      *)
(***************************************************************************)
EXTENDS Integers, Sequences, FiniteSets

CONSTANTS
  Peers,
  Room,       \* rows of the array client, of 1000 bytes each
  LongRows,   \* rows that a long line of 1000 characters or more takes
  MaxStarts,  \* bound: starts of a session, of all peers together
  MaxEvents   \* bound: lines that are typed, looks at a list and faults, together;
              \* a fault is a port that is taken, a datagram's loss, a recvfrom() that
              \* fails, a host without eth0 or a kill

ASSUME SessionAssumption ==
  /\ Room \in Nat \ {0} /\ LongRows \in Nat \ {0, 1}
  /\ MaxStarts \in Nat /\ MaxEvents \in Nat

VARIABLES
  patient,     \* users wait for each other's news, see Quiet
  pc,          \* main(): "off", "deaf", "bound", "entered" or "running"
  inbox,       \* inbox[q][p]: what q has not received yet of what p sent
  lpc,         \* listen_thread(): "recv", "addr", "copy" or "overrun"
  buffer_rd,   \* the datagram it is about to copy
  clientsNum, client,
  spc, i,      \* speak_thread(): "kbhit" or "list", and its loop variable
  screen,      \* the peers whose address each listener has printed
  starts, events,
  killed,      \* a session was killed
  joins,       \* how often "*_EC" was broadcast
  empties      \* how often an empty datagram was, or an address was not received

lstVars == <<lpc, buffer_rd, clientsNum, client, screen>>
spkVars == <<spc, i>>
cntVars == <<starts, events, killed, joins, empties>>
vars    == <<patient, pc, inbox, lstVars, spkVars, cntVars>>

\* What a datagram says: the word, its sender's address, something else, nothing, or
\* more than a row of the list holds.
Kinds     == {"enter", "ip", "text", "empty", "long"}
Datagrams == [kind : Kinds, from : Peers]
Blank     == [kind |-> "blank"]
Texts     == Datagrams \union {Blank}
Slots     == 0..(Room - 1)

\* What a row of the list begins with: an entry, or the rest of a long one.
Rest(d)  == [kind |-> "rest", from |-> d.from]
RowTexts == Texts \union [kind : {"rest"}, from : Peers]

Init ==
  /\ patient \in BOOLEAN
  /\ pc = [p \in Peers |-> "off"]
  /\ inbox = [q \in Peers |-> [p \in Peers |-> <<>>]]
  /\ lpc = [p \in Peers |-> "recv"] /\ buffer_rd = [p \in Peers |-> Blank]
  /\ clientsNum = [p \in Peers |-> 0] /\ client = [p \in Peers |-> [k \in Slots |-> Blank]]
  /\ spc = [p \in Peers |-> "kbhit"] /\ i = [p \in Peers |-> 0]
  /\ screen = [p \in Peers |-> {}]
  /\ starts = 0 /\ events = 0 /\ killed = FALSE /\ joins = 0 /\ empties = 0

----------------------------------------------------------------------------
(* UDP (external)                                                          *)

Reachable == {q \in Peers : pc[q] \notin {"off", "deaf"}}

Happen(n) == events + n =< MaxEvents /\ events' = events + n
Fault     == ~patient /\ Happen(1)

\* n counts what happened for the datagram to be sent.
Broadcast(p, kind, n) ==
  /\ \E S \in SUBSET Reachable :
       /\ IF S = Reachable THEN Happen(n) ELSE ~patient /\ Happen(n + 1)
       /\ inbox' = [q \in Peers |-> IF q \in S THEN [inbox[q] EXCEPT ![p] = Append(@, kind)]
                                               ELSE inbox[q]]
  /\ joins' = IF kind = "enter" THEN joins + 1 ELSE joins
  /\ empties' = IF kind = "empty" THEN empties + 1 ELSE empties

\* No session is starting and no datagram is under way.  Patient users start a
\* session or type only then, and type lines that are neither empty nor long nor "*_EC".
Quiet ==
  /\ \A p \in Peers : pc[p] \notin {"bound", "entered"} /\ lpc[p] # "copy"
  /\ \A p, q \in Peers : inbox[q][p] = <<>>

----------------------------------------------------------------------------
(* main()                                                                  *)

\* The status of bind() is printed and not looked at: a session whose port was
\* taken goes on, hears nothing and sends to port 0.
Bind(p) ==
  /\ pc[p] = "off" /\ starts < MaxStarts /\ starts' = starts + 1
  /\ patient => Quiet
  /\ \/ pc' = [pc EXCEPT ![p] = "bound"] /\ UNCHANGED events
     \/ Fault /\ pc' = [pc EXCEPT ![p] = "deaf"]
  /\ UNCHANGED <<patient, inbox, lstVars, spkVars, killed, joins, empties>>

SendEnter(p) ==
  /\ pc[p] = "bound" /\ pc' = [pc EXCEPT ![p] = "entered"]
  /\ Broadcast(p, "enter", 0)
  /\ UNCHANGED <<patient, lstVars, spkVars, killed, starts>>

\* ioctl() is not looked at: on a host without eth0 the address is what was in the
\* structure.
getip == IF patient THEN {"ip"} ELSE {"ip", "text"}

\* The address goes out, and both threads are created.
SendAddress(p) ==
  /\ pc[p] = "entered" /\ pc' = [pc EXCEPT ![p] = "running"]
  /\ \E ip \in getip : Broadcast(p, ip, IF ip = "ip" THEN 0 ELSE 1)
  /\ UNCHANGED <<patient, lstVars, spkVars, killed, starts>>

\* The user kills the session; the kernel drops what it had not received.
Kill(p) ==
  /\ pc[p] # "off" /\ Fault /\ killed' = TRUE
  /\ pc' = [pc EXCEPT ![p] = "off"]
  /\ inbox' = [inbox EXCEPT ![p] = [r \in Peers |-> <<>>]]
  /\ lpc' = [lpc EXCEPT ![p] = "recv"] /\ buffer_rd' = [buffer_rd EXCEPT ![p] = Blank]
  /\ clientsNum' = [clientsNum EXCEPT ![p] = 0]
  /\ client' = [client EXCEPT ![p] = [k \in Slots |-> Blank]]
  /\ spc' = [spc EXCEPT ![p] = "kbhit"] /\ i' = [i EXCEPT ![p] = 0]
  /\ screen' = [screen EXCEPT ![p] = {}]
  /\ UNCHANGED <<patient, starts, joins, empties>>

----------------------------------------------------------------------------
(* listen_thread()                                                         *)

\* recvfrom() returns the next datagram from r, whatever it was waited for.
Recvfrom(p, r) ==
  /\ pc[p] = "running" /\ inbox[p][r] # <<>>
  /\ inbox' = [inbox EXCEPT ![p][r] = Tail(@)]

\* memset() has cleared the buffer, and an empty datagram leaves it so.
Received(p, r) ==
  IF Head(inbox[p][r]) = "empty" THEN Blank ELSE [kind |-> Head(inbox[p][r]), from |-> r]

\* Mutant: strcmp() is taken to be true when the strings are equal.
IsEnterNot(kind) == kind # "enter"
IsEnter(kind)    == kind = "enter"

\* The word is not kept, anything else is printed.
Listen(p, r) ==
  /\ lpc[p] = "recv" /\ Recvfrom(p, r)
  /\ IF IsEnter(Head(inbox[p][r]))
       THEN lpc' = [lpc EXCEPT ![p] = "addr"] /\ UNCHANGED screen
       ELSE screen' = [screen EXCEPT ![p] = @ \union {s \in {r} : Head(inbox[p][r]) = "ip"}]
            /\ UNCHANGED lpc
  /\ UNCHANGED <<patient, pc, buffer_rd, clientsNum, client, spkVars, cntVars>>

\* The operand clientsNum++ is evaluated before strcpy() is called.
TakeAddress(p, d) ==
  /\ lpc[p] = "addr" /\ lpc' = [lpc EXCEPT ![p] = "copy"]
  /\ buffer_rd' = [buffer_rd EXCEPT ![p] = d]
  /\ clientsNum' = [clientsNum EXCEPT ![p] = @ + 1]

ListenAddress(p, r) ==
  /\ Recvfrom(p, r) /\ TakeAddress(p, Received(p, r))
  /\ UNCHANGED <<patient, pc, client, screen, spkVars, cntVars>>

\* recvfrom() fails, its status is not looked at, and the cleared buffer is copied.
\* (In the other recvfrom() this only prints an empty line.)
ListenNothing(p) ==
  /\ pc[p] = "running" /\ Fault /\ TakeAddress(p, Blank)
  /\ empties' = empties + 1
  /\ UNCHANGED <<patient, pc, inbox, client, screen, spkVars, starts, killed, joins>>

\* Mutants: the index is not advanced after the first entry; it is advanced
\* before it is used.
SlotFirst(p) == 0
SlotPre(p)   == clientsNum[p]

Slot(p) == clientsNum[p] - 1

\* Mutant: the next datagram is taken for an address too.
AfterCopyAddr == "addr"
AfterCopy     == "recv"

RowsOf(d) == IF d.kind = "long" THEN LongRows ELSE 1

\* strcpy() into the list, whatever the length, and memset() of the buffer.  A long line
\* goes on in the following rows.  Past the list's end it overwrites other variables;
\* what the session does then is not modelled.
Copy(p) ==
  /\ lpc[p] = "copy"
  /\ client' = [client EXCEPT ![p] = [k \in Slots |->
       IF k = Slot(p) THEN buffer_rd[p]
       ELSE IF k > Slot(p) /\ k < Slot(p) + RowsOf(buffer_rd[p]) THEN Rest(buffer_rd[p])
       ELSE client[p][k]]]
  /\ lpc' = [lpc EXCEPT ![p] = IF Slot(p) + RowsOf(buffer_rd[p]) =< Room THEN AfterCopy
                                                                        ELSE "overrun"]
  /\ buffer_rd' = [buffer_rd EXCEPT ![p] = Blank]
  /\ UNCHANGED <<patient, pc, inbox, clientsNum, screen, spkVars, cntVars>>

----------------------------------------------------------------------------
(* speak_thread()                                                          *)

Speaking(p) == pc[p] = "running" /\ lpc[p] # "overrun"

\* The user types a line; it may be the word itself, or nothing, or long.
Lines == {"enter", "text", "empty", "long"}

Say(p, kind) ==
  /\ Speaking(p) /\ spc[p] = "kbhit"
  /\ patient => Quiet /\ kind = "text"
  /\ Broadcast(p, kind, 1)
  /\ UNCHANGED <<patient, pc, lstVars, spkVars, killed, starts>>

\* The user types '-'.
List(p) ==
  /\ Speaking(p) /\ spc[p] = "kbhit"
  /\ spc' = [spc EXCEPT ![p] = "list"] /\ Happen(1)
  /\ UNCHANGED <<patient, pc, inbox, lstVars, i, starts, killed, joins, empties>>

\* Mutant: the loop runs one entry too far.
InListLe(p) == i[p] =< clientsNum[p]

InList(p) == i[p] < clientsNum[p]

\* One printf() of an entry, or the end of the loop.
ListEntry(p) ==
  /\ Speaking(p) /\ spc[p] = "list"
  /\ IF InList(p)
       THEN i' = [i EXCEPT ![p] = @ + 1] /\ UNCHANGED spc
       ELSE spc' = [spc EXCEPT ![p] = "kbhit"] /\ i' = [i EXCEPT ![p] = 0]
  /\ UNCHANGED <<patient, pc, inbox, lstVars, cntVars>>

----------------------------------------------------------------------------
Main(p)     == SendEnter(p) \/ SendAddress(p)
Listener(p) == Copy(p) \/ \E r \in Peers : Listen(p, r) \/ ListenAddress(p, r)
Speaker(p)  == (\E kind \in Lines : Say(p, kind)) \/ List(p) \/ ListEntry(p)

Next ==
  \E p \in Peers : \/ Bind(p) \/ Kill(p) \/ Main(p) \/ Listener(p) \/ ListenNothing(p)
                  \/ Speaker(p)

\* Programs run; users need not start, type or kill anything, and nothing need fail.
Fairness == \A p \in Peers : WF_vars(Main(p)) /\ WF_vars(Listener(p))

Spec == Init /\ [][Next]_vars /\ Fairness

----------------------------------------------------------------------------
(* Properties                                                              *)

TypeOK ==
  /\ patient \in BOOLEAN
  /\ pc \in [Peers -> {"off", "deaf", "bound", "entered", "running"}]
  /\ inbox \in [Peers -> [Peers -> Seq(Kinds)]]
  /\ lpc \in [Peers -> {"recv", "addr", "copy", "overrun"}]
  /\ buffer_rd \in [Peers -> Texts]
  /\ clientsNum \in [Peers -> 0..(Room + 1)]
  /\ client \in [Peers -> [Slots -> RowTexts]]
  /\ spc \in [Peers -> {"kbhit", "list"}]
  /\ i \in [Peers -> Nat] /\ \A p \in Peers : i[p] =< clientsNum[p]
  /\ screen \in [Peers -> SUBSET Peers]
  /\ events \in 0..MaxEvents /\ killed \in BOOLEAN
  /\ starts \in 0..MaxStarts /\ joins \in Nat /\ empties \in Nat

\* The entries of p's list that are blank, but for the one that is being copied.
Blanks(p) ==
  {k \in Slots : k < clientsNum[p] /\ client[p][k] = Blank /\ ~(lpc[p] = "copy" /\ k = Slot(p))}

\* A user who looks at the list while the listener adds to it sees every entry but the
\* last; an entry that is there and blank took an empty datagram, which a bare Enter
\* sends, or a failed recvfrom() for an address, and each of them blanks one at most.
BlanksWereSent == \A p \in Peers : Cardinality(Blanks(p)) =< empties

\* The list has no more entries than "*_EC" was broadcast, however datagrams are
\* mixed or lost, and a session that is killed and started again counts each time.
\* So the array is overrun only after more of them than it has room for, or by a long
\* line that was taken for an address.
EntriesNeedJoins ==
  \A p \in Peers :
    /\ clientsNum[p] =< joins
    /\ lpc[p] = "overrun" => joins > Room \/ \E k \in Slots : client[p][k].kind = "long"

\* p's address is an entry of q's list.
Lists(q, p) == \E k \in Slots : client[q][k] = [kind |-> "ip", from |-> p]

\* p's address is on its way into q's list or to q's screen, or is there; q's list may
\* have been overrun, and whoever is killed has lost it.
Arriving(q, p) ==
  \/ \E k \in 1..Len(inbox[q][p]) : inbox[q][p][k] = "ip"
  \/ lpc[q] = "copy" /\ buffer_rd[q] = [kind |-> "ip", from |-> p]
Known(q, p) == Lists(q, p) \/ p \in screen[q] \/ lpc[q] = "overrun" \/ killed

\* An address that is under way to q is never lost before it gets into q's list or on
\* q's screen, gets there in the end, and stays there, whatever else q receives before,
\* between and after.
AddressKept ==
  /\ [][\A p, q \in Peers :
          /\ Arriving(q, p) => Arriving(q, p)' \/ Known(q, p)'
          /\ Known(q, p) => Known(q, p)']_vars
  /\ []<>(\A p, q \in Peers : Arriving(q, p) => Known(q, p))

\* If users wait, nothing but an address gets into a list, and none twice.
EntriesAreAddresses ==
  patient => \A p \in Peers :
    /\ \A k \in Slots : client[p][k] = Blank \/ client[p][k].kind = "ip"
    /\ \A j, k \in Slots : client[p][j] = client[p][k] /\ client[p][j] # Blank => j = k

\* If users wait, then once their news have arrived every running session whose
\* list has not been overrun lists itself, and of any two at least one lists the
\* other.
PeersMeet ==
  patient /\ Quiet => \A p, q \in Peers :
    Speaking(p) /\ Speaking(q) => Lists(p, q) \/ Lists(q, p)
=============================================================================
