-------------------------- MODULE MulticastSession --------------------------
(***************************************************************************)
(* lab4_2/session.c: a chat in a multicast group.  What a user types goes  *)
(* to all members of the group.  The word "*_ECHO", which the key '-'      *)
(* sends, asks every member for its address; each answers to the whole     *)
(* group.  One thread listens and answers, another reads the keyboard.     *)
(*                                                                         *)
(* UDP is external: a datagram reaches every member, its sender too, or is *)
(* lost on the way; what several members send is mixed differently at      *)
(* every receiver.  Sessions run on different hosts.                       *)
(***************************************************************************)
EXTENDS Integers, Sequences, FiniteSets

CONSTANTS
  Peers,
  MaxTyped,  \* bound: questions and lines that are sent, by all users together
  Faults     \* see FaultKinds

FaultKinds == {"start",  \* the port is taken, or no interface can do multicast
               "join",   \* the membership is refused
               "lose"}   \* datagrams are lost

ASSUME MulticastAssumption == MaxTyped \in Nat /\ Faults \subseteq FaultKinds

VARIABLES
  eth0,    \* the peers that have a network interface of that name
  lossy,   \* datagrams may be lost in this behaviour
  pc,      \* main(): "off", "bound", "joined", "running", "exit" or "crashed"
  member,  \* the membership of sock_rd in the group
  ip,      \* the string ip: "null", the "own" address, or "junk"
  inbox,   \* inbox[q][p]: what q has not received yet of what p sent
  shown,   \* shown[q][p][kind]: how often q has printed such a datagram of p
  spc,     \* speak_thread(): "kbhit" or "gets"
  asked, typed

hostVars == <<eth0, lossy>>
vars     == <<hostVars, pc, member, ip, inbox, shown, spc, asked, typed>>

\* A datagram is the word, what a session takes for its address, or a line.
Addresses == {"own", "junk"}
Printed   == Addresses \union {"line"}
Kinds     == Printed \union {"echo"}

Init ==
  /\ eth0 \in SUBSET Peers /\ lossy \in BOOLEAN /\ (lossy => "lose" \in Faults)
  /\ pc = [p \in Peers |-> "off"] /\ member = [p \in Peers |-> FALSE]
  /\ ip = [p \in Peers |-> "null"]
  /\ inbox = [q \in Peers |-> [p \in Peers |-> <<>>]]
  /\ shown = [q \in Peers |-> [p \in Peers |-> [k \in Printed |-> 0]]]
  /\ spc = [p \in Peers |-> "kbhit"]
  /\ asked = 0 /\ typed = 0

Goto(p, l) == pc' = [pc EXCEPT ![p] = l]

----------------------------------------------------------------------------
(* UDP multicast (external)                                                *)

Members == {q \in Peers : member[q]}

\* The inboxes when those of the members that p's datagram reaches have it.
Multicast(from, p, kind) ==
  \E S \in SUBSET Members :
    /\ lossy \/ S = Members
    /\ inbox' = [q \in Peers |-> IF q \in S THEN [from[q] EXCEPT ![p] = Append(@, kind)]
                                            ELSE from[q]]

----------------------------------------------------------------------------
(* main()                                                                  *)

\* A session ends here if it finds no interface or cannot bind its port.
Bind(p) ==
  /\ pc[p] = "off"
  /\ Goto(p, "bound") \/ ("start" \in Faults /\ Goto(p, "exit"))
  /\ UNCHANGED <<hostVars, member, ip, inbox, shown, spc, asked, typed>>

\* Mutant: the threads are created before the address is known.
AfterJoinEarly == "running"
AfterJoin      == "joined"

\* The status of IP_ADD_MEMBERSHIP is not looked at: a session that was refused
\* goes on and hears nothing.  From here on the kernel keeps what arrives.
Join(p) ==
  /\ pc[p] = "bound" /\ Goto(p, AfterJoin)
  /\ member' = [member EXCEPT ![p] = TRUE] \/ ("join" \in Faults /\ UNCHANGED member)
  /\ UNCHANGED <<hostVars, ip, inbox, shown, spc, asked, typed>>

\* The address of eth0; without one, ioctl() leaves ifr as it was on the stack.
getip(p) == IF p \in eth0 THEN {"own"} ELSE Addresses

\* ip is set and both threads are created.
Run(p) ==
  /\ pc[p] = "joined" /\ Goto(p, "running")
  /\ \E address \in getip(p) : ip' = [ip EXCEPT ![p] = address]
  /\ UNCHANGED <<hostVars, member, inbox, shown, spc, asked, typed>>

----------------------------------------------------------------------------
(* listen_thread()                                                         *)

\* Mutant: a session does not answer itself.
IsEchoOthers(p, r) == Head(inbox[p][r]) = "echo" /\ p # r

\* The datagram from r that p receives is the word.
IsEcho(p, r) == Head(inbox[p][r]) = "echo"

\* Mutant: the datagram is looked at and stays.
ReceivedPeek(p, r) == inbox

Received(p, r) == [inbox EXCEPT ![p][r] = Tail(@)]

\* Mutant: a session that asks is answered with the question.
AnswerEcho(p) == "echo"

Answer(p) == ip[p]

\* recvfrom() returns the word: the session answers to the whole group.
ListenEcho(p, r) ==
  /\ pc[p] = "running" /\ inbox[p][r] # <<>> /\ IsEcho(p, r)
  /\ IF ip[p] = "null"
       THEN Goto(p, "crashed") /\ inbox' = Received(p, r)
       ELSE Multicast(Received(p, r), p, Answer(p)) /\ UNCHANGED pc
  /\ UNCHANGED <<hostVars, member, ip, shown, spc, asked, typed>>

\* recvfrom() returns anything else: it is printed.
ListenOther(p, r) ==
  /\ pc[p] = "running" /\ inbox[p][r] # <<>> /\ ~IsEcho(p, r)
  /\ inbox' = Received(p, r)
  /\ shown' = [shown EXCEPT ![p][r][Head(inbox[p][r])] = @ + 1]
  /\ UNCHANGED <<hostVars, pc, member, ip, spc, asked, typed>>

----------------------------------------------------------------------------
(* speak_thread()                                                          *)

\* A datagram of the user's, which may be the word.
Say(p, kind) ==
  /\ typed < MaxTyped /\ typed' = typed + 1
  /\ asked' = IF kind = "echo" THEN asked + 1 ELSE asked
  /\ Multicast(inbox, p, kind)
  /\ UNCHANGED <<hostVars, pc, member, ip, shown>>

\* kbhit() reads '-', also when that is the first character of a line: the word
\* is sent at once.
Dash(p) ==
  /\ pc[p] = "running" /\ spc[p] = "kbhit"
  /\ Say(p, "echo") /\ UNCHANGED spc

\* kbhit() reads another character and puts it back: gets() waits for the line.
Key(p) ==
  /\ pc[p] = "running" /\ spc[p] = "kbhit" /\ typed < MaxTyped
  /\ spc' = [spc EXCEPT ![p] = "gets"]
  /\ UNCHANGED <<hostVars, pc, member, ip, inbox, shown, asked, typed>>

\* The line is complete; the user may have typed the word itself.
Line(p) ==
  /\ pc[p] = "running" /\ spc[p] = "gets"
  /\ spc' = [spc EXCEPT ![p] = "kbhit"]
  /\ Say(p, "line") \/ Say(p, "echo")

----------------------------------------------------------------------------
Main(p)     == Bind(p) \/ Join(p) \/ Run(p)
Listener(p) == \E r \in Peers : ListenEcho(p, r) \/ ListenOther(p, r)
Speaker(p)  == Dash(p) \/ Key(p) \/ Line(p)

Next == \E p \in Peers : Main(p) \/ Listener(p) \/ Speaker(p)

\* Programs that were started run; users need not start or type anything.
Fairness == \A p \in Peers : WF_vars(Join(p) \/ Run(p)) /\ WF_vars(Listener(p))

Spec == Init /\ [][Next]_vars /\ Fairness

----------------------------------------------------------------------------
(* Properties                                                              *)

TypeOK ==
  /\ eth0 \subseteq Peers /\ lossy \in BOOLEAN
  /\ pc \in [Peers -> {"off", "bound", "joined", "running", "exit", "crashed"}]
  /\ member \in [Peers -> BOOLEAN] /\ ip \in [Peers -> Addresses \union {"null"}]
  /\ inbox \in [Peers -> [Peers -> Seq(Kinds)]]
  /\ shown \in [Peers -> [Peers -> [Printed -> 0..MaxTyped]]]
  /\ spc \in [Peers -> {"kbhit", "gets"}]
  /\ asked \in 0..typed /\ typed \in 0..MaxTyped

\* The datagrams of kinds K that q has still to receive from S: their senders and places.
Waiting(q, S, K) ==
  UNION {{p} \X {k \in 1..Len(inbox[q][p]) : inbox[q][p][k] \in K} : p \in S}

\* How many answers of p are on q's screen.
Answers(q, p) == shown[q][p]["own"] + shown[q][p]["junk"]

\* A question costs every session one answer: the answers of p that q has or will
\* get, and the questions p has still to answer, are no more than the questions
\* that users have asked.  So answers cause no answers, and the group falls silent.
OneAnswerEach ==
  \A p, q \in Peers :
    Answers(q, p) + Cardinality(Waiting(q, {p}, Addresses))
      + Cardinality(Waiting(p, Peers, {"echo"})) =< asked

\* An answer names its sender, if that has an interface eth0; the string exists
\* when the listener needs it.
AddressesTrue ==
  \A p, q \in Peers :
    /\ pc[p] # "crashed"
    /\ p \in eth0 => shown[q][p]["junk"] = 0 /\ Waiting(q, {p}, {"junk"}) = {}

\* Whoever asks hears once more from each session that the question reaches,
\* itself too, if it was let into the group and datagrams are not lost.
AskerLearns ==
  \A p, q \in Peers, n \in 0..(MaxTyped - 1) :
    ~lossy /\ member[q] /\ Waiting(p, {q}, {"echo"}) # {} /\ Answers(q, p) = n
      ~> Answers(q, p) > n
=============================================================================
