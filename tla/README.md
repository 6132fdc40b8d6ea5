# Verification of the network-programming labs (050502_alensky)

The repository is a collection of small C programs: seven labs on BSD sockets
and two on MPI.  They share one helper library (`src/spolks_lib/sockcore.c`);
apart from that, a lab is a system of its own: two or more copies of one or two
programs and the network between them.  This directory holds TLA+ models of the
labs whose behaviour depends on what the network, another process, another
thread or a signal handler does next, the TLC configurations that check them,
and proofs that TLAPS checks.

`tlc -config X.cfg M` checks a run (the table in section 4 says which module),
`tlapm M.tla` checks the proofs of a module.

## 1. Inventory

| component | source | state | operations | how it interacts |
|---|---|---|---|---|
| socket helpers | `spolks_lib/sockcore.c` | none of its own; returns descriptors, -1 for failure | `createListener`, `bindAddr`, `bindSocket`, `acceptClient`, `connectToRemote`, `addr_from_hostname`, `create_socket_ICMP`, UDP sockets | called by lab3, lab4, lab1_2; the UDP part only by lab5, which does not build |
| TCP file transfer `ns` | `lab3/main.c`, `lab3/netsender.c` | socket, file, counters `totalSentBytes` / `totalReceivedBytes` | `main`, `sendFile`, `recieveFile` | two processes over one TCP connection, either is the server |
| the same with urgent data | `lab4/main.c`, `lab4/netsender.c` | as lab3, plus `percent`, the urgent mark in TCP | `sendFile`, `recieveFile`, signal handler `sig_urg` | TCP stream, urgent bytes, SIGURG |
| echo server | `lab2/simple_server.c` | listening socket, current client, `accepted_data` | accept loop, echo loop | many clients, served one after the other |
| point-to-point matrix product | `Lab5/mpi-peer.c` | A, B, C, block sizes, arrays of `MPI_Request` | scatter, compute, collect, validate; synchronous or asynchronous | one master, W workers, MPI messages |
| collective matrix product | `Lab6/mpi-collective.c` | `group_numbers`, sizes, displacements, one communicator per group | `groupsPrepare`, `prepareCalculate`, `scatterCalculate`, `saveBlockToFile`, `groupsFinalize` | collectives of all processes, then of each group |
| broadcast chat | `lab3_2/session_v3.c` | list `client[10]`, `clientsNum`, shared by two threads | `main`, `listen_thread`, `speak_thread` | UDP broadcasts to every session |
| earlier versions, bounce pair | `lab3_2/{broadcast,session,session_v2,server,client}.c` | as above; one datagram at a time | | UDP |
| multicast chat | `lab4_2/session.c` | two sockets and `ip`, shared by two threads | `main`, `getip`, `listen_thread`, `speak_thread`, `kbhit` | UDP multicast; a word asks every session for its address |
| ping | `lab1_2/main.c`, `lab1_2/ping.c` | raw socket, `dst_addr`, `ident`, `sequence`, the timer | request on a timer signal, receive loop, checksum | ICMP, SIGALRM |
| UDP file transfer | `lab5/main.c`, `lab5/netsenderUDP.c` | | does not build: the functions `main.c` calls do not exist | |
| one UDP broadcast | `vksis/*.c` | none to speak of | send one datagram, print one | UDP |

### What is hard, and what makes each component correct

* **File transfer.**  TCP gives a stream, not blocks, while the receiver takes
  a `recv()` of less than `BUFFSIZE` bytes for the last one; `send()` accepts
  part of a block; the connection may break, be rejected or fall silent;
  either program may be killed; `write()` may store less than it is given; a
  failed `read()` gives its -1 to `send()` as a length.
  Correct: the destination is always a prefix of the source (after a failed
  `read()`: of what was read, and bytes of the program's stack), what either side
  reports is true, both sides end, and with no fault the whole file arrives.
* **Urgent data.**  TCP knows one urgent mark: a newer urgent byte turns the
  older into ordinary data.  SIGURG interrupts the receiver anywhere.  Correct:
  urgent bytes stay out of the file, file bytes keep their order, both end.
* **Echo server.**  A client may hang up while its bytes are under way, and the
  next `send()` raises SIGPIPE.  One buffer serves all clients.  Correct: what
  a client gets is exactly what was taken from it; everybody is served.
* **Point-to-point product.**  Standard-mode sends may be buffered or wait;
  master and workers must agree on order and sizes; the last worker's block is
  larger; asynchronous sends read memory later.  Correct: no deadlock, every
  message fits its buffer, every row in its place, the verdict is right.
* **Collective product.**  Random group sizes, integer division of a value that
  may be zero or negative, groups that run at different speeds, a collective
  call made by one rank only, a file that several processes append to through
  buffers of their own.  Correct: no division by zero and no write past the array
  unless the groups are too many, each group gets a whole product, every byte of
  it is in the file when all have ended, all processes end.
* **Broadcast chat.**  An announcement is two datagrams and another session's
  may come between them; two threads share a list without a lock; the array has
  no bound check, neither on its rows nor on their length; datagrams are lost,
  empty, or longer than a row.  Correct: only addresses in the list, a blank entry
  only for an empty datagram or a failed `recvfrom()`, whoever hears an
  announcement lists its sender.
* **Multicast chat.**  Every session answers the word of any session, its own
  included, to everybody; the thread that types uses the same sockets; datagrams
  wait from the moment of the membership, the address is looked up later.
  Correct: answers cause no answers, an answer names its sender, who asks learns.

* **Ping.**  The handler of SIGALRM builds and sends the request while `main()`
  is anywhere in its loop, also inside the allocator; the timer runs once, and is
  set again only after a packet; `recvfrom()` writes over the address the next
  request goes to; the checksum is taken over memory nobody cleared.  Correct:
  the checksum completes the header to all ones, the handler does not meet
  `main()` in the allocator, requests go on.

`PROJECT.json` lists these hazards one by one with the lines where they bite
and the properties that are about them.

## 2. Modules

| module | models | abstract specification |
|---|---|---|
| `FileTransfer` | lab3 and the helpers it calls | `FileCopy` |
| `OobTransfer` | lab4 | |
| `EchoServer` | lab2 | |
| `MpiPeer` (`MCMpiPeer` for TLC) | Lab5 | `RowProduct` |
| `MpiGroups` | Lab6 | |
| `Ping` | lab1_2 and the helpers it calls | |
| `BroadcastSession` | `lab3_2/session_v3.c` | |
| `MulticastSession` | `lab4_2/session.c` | |
| `FileTransferProofs`, `OobTransferProofs`, `EchoServerProofs`, `MpiPeerProofs`, `MpiGroupsProofs`, `PingProofs`, `BroadcastSessionProofs`, `MulticastSessionProofs` | the theorems on each, section 5; the first holds the refinement of `FileCopy`, the fourth that of `RowProduct` | |

Conventions.  A program counter (`pc`, `spc`, `wpc`, `at` ...) names the
blocking call, or the group of calls up to the next one that another process
can observe, that a process is about to make.  An action is one such step, with
everything the code does until the next one.  Data is named by its place: a
byte by its offset in the file, a row by its number, a datagram by its kind and
its sender; so "in order", "in place" and "whose" can be stated.  The network
(TCP, UDP, MPI, the kernel's signals) is not in the repository; it is modelled
from what the calls return, in sections marked *external*.

A definition whose comment says *Mutant* is not used by the model: it is the
form a plausible mistake in the code would have, kept beside the definition it
would replace, and it breaks the property that the comment is about.

### FileTransfer (lab3)

One process per role, `"snd"` (`-s`) and `"rcv"` (`-r`); `server` is the one
that was started with `-l`.  The stream is three positions,
`recvd =< arrived =< sent`, and place `i` of it holds byte `i` of the file as long
as `i =< fpos`, the bytes that `read()` has returned.  It goes on past `fpos` only
when `read()` fails: `sendFile()` does not look at the -1 and hands it to `send()`,
where it is a length of nearly the whole address space, and the kernel takes what it
finds on the program's stack until it meets a page that is not mapped, `len` bytes, at
most `Stack`.  -1 is less than `BUFFSIZE`: the loop ends and "was sent" is printed.
`Reach` is the place where the stream ends when the current `send()` is through.

| action | code |
|---|---|
| `Listen`, `createListener`, `bindAddr`, `bindSocket` | `main()` to `createListener()`; a helper is the set of results it may return, 1 or -1, and since -1 is true a failed one ends the program or leaves it on a stray port |
| `Connect`, `Accept` | `connectToRemote()`, `acceptClient()`, whose results `main()` does not look at: `fd` may be `"bad"` |
| `OpenSource`, `ReadBlock`, `SendPart`, `SendRest`, `SendShort`, `SendFails`, `SendKilled` | `sendFile()`: a block is `read()`, or `read()` fails and the block is -1; it is accepted by the kernel in parts as there is `Room`; `send()` fails with -1, comes back short, or raises SIGPIPE |
| `OpenDest`, `RecvData`, `RecvEnd`, `RecvFails` | `recieveFile()`: one `recv()`, the `write()` (that may be cut short by a full disk) and the test for the end |
| `Close` | the end of `main()` |
| `Kill`, `Break`, `Reset`, `Rejected`, `GiveUp`, `Deliver`, `DeliverFin` | external: the user, the network, TCP |

`Faults` is what the environment may do (`FaultKinds`: calls of `main()`, `read()`,
the disk, dropped or rejected packets, a kill), `full` whether the receiver's disk may
refuse data in this behaviour.  In a behaviour that is `calm` nothing fails and
TCP delivers whole blocks; in the others the stream is cut anywhere, whether
something fails or not.

`FileCopy` is what a user is promised in all of them: the old destination is
emptied and then only extended, by bytes that lie further on in the source,
without a gap unless the disk is full; nothing is added after a verdict; and in
calm "received" is said of whole files only.  If the source cannot be read on
(`lost`), what could be read of it, `end` bytes, may be followed by at most `Stack`
bytes that are not of the source.  `Lose` may happen once, never in calm, and not
after anything beyond `end` was copied.

### OobTransfer (lab4)

`Listen`, `Connect`, `Accept` are `main()` up to the connection, as in
FileTransfer: `mpc` is `"stray"` for a server on a port nobody knows, `conn` is
`"none"` for a client that goes on without a connection, and `"reset"` if
`acceptClient()` failed and the server left.  `OpenSource` and `OpenDest`
follow, on whatever descriptor there is. `stream` is the sequence of all bytes
sent, ordinary and urgent, with one `mark`; `urgent` is what the kernel knows of
the urgent byte (`TCP_URG_VALID`, `TCP_URG_READ` in Linux).  `Read`,
`SendBlock`, `Wait`, `SendUrgent` are the loop of `sendFile()`; `RecvData`,
`RecvSkip`, `RecvEnd` that of `recieveFile()`, and `RecvFails` a `recv()` of -1;
`SigUrg` is the handler, which can run whenever a signal is pending.  `paced`
says that the sender's `usleep(10000)` is long enough for the receiver to take
what was sent.  Both programs end with a `getchar()`, the keys.

### EchoServer (lab2)

The server's loop is `Accept`, `Greet` (`gethostbyaddr`, the first `send`),
`Recv`, `Echo`, `RecvEnd`, `Close`; the clients `Connect`, `Type`, `HangUp`;
`Reset` is the answer of a client's kernel to bytes that come too late, after
which the next `send()` kills the server.  `polite` are the clients that hang up
only when they have everything back, `nameless` those whose address has no name
(`gethostbyaddr()` returns NULL); both are chosen at the start of a behaviour.

### MpiPeer (Lab5)

The master goes through the phases `bcast`, `size`, `block`, `result`,
`validate`, with one action per message and one, `EndPhase`, where it leaves the
loop (in the asynchronous mode: after `MPI_Waitall`).  A worker makes `RecvB`,
`RecvSize`, `RecvBlock`, `SendResult`, `Finish`.  `posted[t]` and `taken[t]` are
the workers whose message with tag `t` was sent and received.  `async` is the
mode and `eager` the set of tags that MPI buffers, both chosen from `Setups` at
the start, so that every property is checked under every buffering MPI allows.
`slot` is the stack slot of `current_worker_block_size`, which `MPI_Isend` reads
when it likes.

`RowProduct` promises that rows of `C` are filled with their own values only and
that "No errors." is printed once, of a whole product.

### MpiGroups (Lab6)

Each process is at a stage of `main()`, most of them a collective operation;
`LeavesBcast` and `LeavesGather` say when MPI lets a process go on.  Rank 0
also runs `PrepareGroup`, `PrepareLast`, `EndPrepare`: the loop of
`groupsPrepare()` with C's division and remainder, which may be negative.  With
many more groups than ranks it writes past the end of `group_numbers` and goes on
(`overran`): the loop, the broadcast, the split and all that follows are the same
actions, and what was behind the array may bring rank 0 down at any later time, or
never (`Damage`).  The groups the array had no room for have no members then.  Sizes
and displacements are counted in rows.  `PassBcast` is the `MPI_Bcast` of A and the
one of B.  `buffered` and `freeWaits` are what MPI leaves open: whether
it buffers messages, and whether `MPI_Comm_free` synchronises the group (left out where
there are more groups than processes: nobody shares a group then).

`masterInitMatrix` is part of `Begin(0)`: if a file cannot be opened, its null
pointer ends the job.  `saveBlockToFile` begins in `PassDisplacements`, where the file is
opened, whose name fits `rank[]` up to the group number `LargestName`; a name that
does not fit may or may not overwrite something that matters (`"smashed"`).  A row is
`RowLen` bytes of output.  While it prints, a process `Flush`es its buffer of
`StdioBuf` bytes whenever that is full, wherever the rows end; `PassSave` leaves the
rest in the buffer, and since the file is never closed only `Exit` writes it.
`saved` are the bytes a process has in the file.  All members of a group append to
one file: bytes that are written while another member's part ends in the middle of
a row cut that row, which `cut` remembers.
`MPI_Finalize` may let a process go at once or only when all have come.

### Ping (lab1_2)

`Setup`, `Recvfrom` or `RecvFails`, `Renew` (`free()` and `malloc()` of the
buffer), `Alarm` are `main()` and the loop of `ping()`; `clock_handler` may come
between any two of them while the timer runs, and finds `main()` in the allocator
(`pc = "heap"`).  It calls `pinger`, with the header built over any content of
the memory.  What follows from the calls the code makes, and is the shape of the
model:

* `optval` is 0, so `IP_HDRINCL` stays off: the kernel adds a header of its own,
  and what goes out as an ICMP message begins with the byte `0x45`, no type that
  any host answers.  Only a request to this host comes back, since the kernel
  hands every message that arrives here to the raw socket.
* The loop has no timeout.  `SO_RCVTIMEO` takes a `struct timeval`; given an
  `int` the call fails and nobody looks.  `signal()` restarts `recvfrom()`.
  So "not response" is printed only without a socket, and then without pause.
* `alarm(2)` runs once and is called again only after a packet.
* A name that cannot be resolved leaves `dst_addr` at 255.255.255.255
  (`"nobody"`), and the program goes on.
* `recvfrom()` stores the sender of any packet in `dst_addr`.
* `sequence` is an `int`, of `Ints` values, and goes on counting where the header's
  field, its lower half (`% M`), starts again.

Packets that come unasked (`Stray`) are external, and bounded by `MaxStrays`.

### BroadcastSession (lab3_2)

Per peer: `Bind`, `SendEnter`, `SendAddress` (`main()`), `Listen`,
`ListenAddress`, `Copy` (`listen_thread()`; the last is the `strcpy` after
`clientsNum` was incremented), `Say`, `List`, `ListEntry` (`speak_thread()`).
`inbox[q][p]` holds what `q` has not received yet of what `p` sent: the word, an
address, another line, an `"empty"` line (a bare Enter sends a datagram without a
byte), or a `"long"` one, of 1000 characters or more.  Whatever follows the word is
taken for an address and copied (`TakeAddress`): an empty datagram leaves the cleared
buffer as it is and so a blank entry for good, and so does a `recvfrom()` that fails,
whose status the code does not look at (`ListenNothing`); `empties` counts both.
`strcpy()` goes on into the following rows if the line is long, `LongRows` of them
with its own, and past the list's end if they are not there: the listener is at
`"overrun"` then, as after an entry more than there is `Room` for.

In a behaviour with `patient` users nobody starts a session or types while another
one's news is under way, nobody types an empty or a long line or the word, and nothing
fails.  What fails in the others is a port that is taken, a datagram that is lost, a
`recvfrom()`, a host without `eth0`, or a session that is killed and may be started
again.

### MulticastSession (lab4_2)

Per peer: `Bind`, `Join`, `Run` (`main()`, up to the creation of the threads),
`ListenEcho`, `ListenOther` (a round of `listen_thread()`: a datagram that is
the word is answered, any other is printed), `Dash`, `Key`, `Line` (a round of
`speak_thread()`: `kbhit()` sends the word when it reads '-', and otherwise
`gets()` waits for a line, which may be the word too).  `member` are the peers
that were let into the group: a datagram is put into the `inbox` of each of
them, its sender's included, or is lost on the way to any of them if the
behaviour is `lossy`.  `ip` is "null" until `main()` has set it, the peer's "own"
address if it has an interface `eth0`, and "junk" or by chance the own address
if it has none, since `getip()` ignores that `ioctl()` failed.  Sessions are
assumed to run on different hosts.

## 3. Properties

| property | module | says |
|---|---|---|
| `DestinationIsPrefix` | FileTransfer | the destination is the old file, or a prefix of the source of exactly the length the receiver counts, and after a failed `read()` a prefix of what was read and at most `Stack` bytes of memory |
| `SentReportHonest` | FileTransfer | the number `sendFile()` reports is what the kernel accepted; "was sent" is said of a file read to its end, unless `read()` failed |
| `NothingLost` | FileTransfer | in calm, when the receiver has ended the file is there, byte for byte |
| `ImplementsCopy` | FileTransfer | in every behaviour the transfer implements `FileCopy` |
| `BothEnd` | FileTransfer | once connected, the sender ends whatever fails, and so does the receiver unless its network broke |
| `OnlyData`, `DataInOrder`, `BothEnd` | OobTransfer | no urgent byte in the file (paced); file bytes in order, none skipped, before the end; the client ends, connected or not, and so does a server that was connected to |
| `EchoExact`, `StaysUp`, `Everyone` | EchoServer | returned bytes are those that were taken; only the client that is being served can bring the server down, and only if it is impolite or has no name; if none is, all are served |
| `RowsInPlace`, `MessagesFit`, `Finishes`, `ImplementsProduct` | MpiPeer | no row in a wrong place, no receive into too short a buffer, every process ends and the master finds no errors, the job implements `RowProduct` |
| `SplitsSafely`, `GroupsWhole`, `ResultWhole`, `OnlyFreeHangs` | MpiGroups | `groupsPrepare()` divides by zero, or overruns its array by a negative modulus, exactly when it is too tight, each for its own number of groups; all groups have ranks unless the array was overrun; every group that has ranks gets the whole product; nobody waits for ever, but rank 0 of a group in `MPI_Comm_free` if that synchronises, and for it in `MPI_Finalize` |
| `NamesFit`, `FilesWhole` | MpiGroups | a file name is too long only in jobs of more groups than have one-digit numbers; every row is printed by one process of a group, and when all have exited all bytes are in the file; a process that has printed can lose a buffer at most; a row is cut by another process's bytes only if its process prints more than a buffer |
| `ChecksumRight` | Ping | the words of a request's header add up to all ones, with every carry added back as it occurs, exactly if the checksum's field held a zero before |
| `HeapSafe` | Ping | the handler meets `main()` in the allocator only after a packet that came unasked, or without a socket |
| `LastsOnlyAtHome` | Ping | requests go on for ever just if from some time on they are sent to this host |
| `BlanksWereSent` | BroadcastSession | below the entry being copied a list has no more blank entries than there were empty datagrams and failed `recvfrom()`s in place of an address |
| `AddressKept` | BroadcastSession | an address under way to a session is in no step lost before it is listed or shown, gets there, and stays, unless the list is overrun or a session is killed |
| `EntriesNeedJoins` | BroadcastSession | entries are at most announcements, and a list is overrun only by more of these than it has rows, or by a long line |
| `EntriesAreAddresses`, `PeersMeet` | BroadcastSession | with patient users only addresses are listed, and of two sessions one knows the other |
| `OneAnswerEach` | MulticastSession | the answers of a session that are shown or under way, and the questions it has still to answer, are no more than the questions users have asked: answers cause no answers |
| `AddressesTrue` | MulticastSession | the address is there when the listener needs it, and names the sender if that has an `eth0` |
| `AskerLearns` | MulticastSession | a question that reaches a session is answered, and a member hears the answer, if nothing is lost |

`TypeOK` is the type invariant of each module.  `Conservation` and
`DestinationInOrder` (FileTransfer) and `ValidatesAll` (MpiPeer) are stated for the
proofs and proved: the positions of the stream keep their order, no byte is written
twice or out of order, the master validates whole products.  No run checks them by
name, since the refinements imply the last two and the first is part of the
inductive invariant.

## 4. Runs

| run | module, bounds | shows |
|---|---|---|
| `ft_segments` | FileTransfer, sizes 0..5, `BUFFSIZE` 2, `SockBuf` 3, `Stack` 2, calm behaviours and those with segments cut anywhere and every fault | safety, a complete copy in calm, refinement of `FileCopy`, and that the programs end |
| `ft_short_recv` | FileTransfer, size 4 | expected violation, section 7 |
| `mp_uneven` | MCMpiPeer, 5 rows, 3 workers, both modes; any buffering, but the asynchronous mode copies the sizes | blocks of 1, 1 and 3 rows: no deadlock, whole product, refinement of `RowProduct` |
| `mp_slot` | MCMpiPeer, 3 rows, 2 workers, asynchronous, the sizes not copied | expected violation |
| `gr_groups` | MpiGroups, 5 processes, 0, 1, 2, 3, 4, 6 or 7 groups, 3 rows of 2 bytes, names for the groups 0 to 2, buffers of 3 bytes, MPI buffers or not | all divisions, by zero and by a negative number too, the overrun and what may follow, the product and the file of every group, the end |
| `bs_chat` | BroadcastSession, 2 sessions, a list of 2, long lines of 2 rows, 2 starts, 2 events (a line, a look at the list, a fault) | the list under all interleavings of threads and datagrams, with and without patient users; empty and long lines, faults, restarts, the list overrun |
| `mc_group` | MulticastSession, 2 sessions, 2 lines or questions, with and without loss, refused memberships, hosts without `eth0` | one answer to each question, true addresses, who asks learns |
| `ob_signals` | OobTransfer, sizes 0..5, `BUFFSIZE` 2, paced or not, either program the server, files missing, calls failing | the file, the signals and the end |
| `ob_counted` | OobTransfer, size 5 | expected violation |
| `ec_clients` | EchoServer, 3 clients, 2 bytes each, a buffer of 2, a queue of 2, any of them impolite, one possibly nameless | the echo, the server's life, everybody's turn |
| `ec_returned` | EchoServer, 2 clients | expected violation |
| `pg_requests` | Ping, this host, another one or none, words of 4 bits, an int of 5, 2 packets unasked | the checksum of every request over every memory, the handler and the allocator, how long it lasts |

**Why the bounds are enough.**  A file of 5 bytes in blocks of 2 has an empty
last block (sizes 0, 2, 4), a short one (1, 3, 5), a first, a middle and a last
block; `SockBuf` 3 lets a block be accepted in two parts and lets the sender be
more than one block ahead.  5 rows on 3 workers make the last block larger than
the others; fewer rows than workers, and equal blocks, are covered by the
theorems, which hold for every size. With 5 processes the modulus of
`groupsPrepare()` is positive for 2 and 3 groups; with 4 and 6 groups there is one
rank to spare, or one is missing, two thirds of which are 0, and it divides by zero;
with 7 groups two are missing and the modulus is -1: each group takes a rank, the sixth one
that is not there, and the loop goes on.  Groups have one to five ranks, and two groups run
independently of each other.  3 rows divide evenly by one or three ranks only, and a
group of four or five has members without a row.  Rows of 2 bytes and buffers of 3 let a process that prints two
rows or more write its first buffer in the middle of a row, and one that prints
one row write nothing before it exits.
With names for three groups the jobs of four and more may have a name that does not
fit; the theorem holds for the ten of the code. Two sessions suffice for a
datagram to fall between another session's two, and for a session that restarts; a
list of two rows is overrun by a third announcement or by a long line in its second
row, and a long line in its first fills it.
In the multicast chat two sessions ask themselves and each other, and two
questions, of one user or of two, overlap.  Three clients and a queue of two let
one client be served, one wait and one be turned away.  Words of 4 bits give
sums of four words every number of carries they can have, and the sequence number
passes the end of the header's field and of the int; the theorems hold for 16 and
32 bits.  Two bytes of stack are as many as a block, so that the receiver may take
what follows a failed `read()` for a whole block or for the last.  Two unasked packets are enough
to let a request of the handler meet `main()` in the allocator and to end a ping
of this host, and one more adds nothing but a longer queue.  The counters that
the code leaves unbounded are bounded by `MaxTyped` (lines or bytes typed),
`MaxEvents` (what users and faults do), `MaxStarts` (sessions started) and
`MaxStrays`, which appear only in guards of actions of users and the
environment.

**Deadlock.**  Every configuration says `CHECK_DEADLOCK FALSE`: these programs
end, and the servers and sessions among them wait for users who have stopped.
That nobody waits for ever is stated by the liveness properties instead.

**Fairness.**  The processes and threads are scheduled by the operating system:
weak fairness of each process's own steps.  TCP delivers what it has accepted,
and gives up after its retransmissions, in bounded time: weak fairness of
`Deliver`, `DeliverFin`, `Reset`, `GiveUp` (`Arrive` in OobTransfer).  The
network's faults, kills and UDP's losses have no fairness.  In MpiPeer and
MpiGroups MPI's progress is part of the processes' steps, which is what the MPI
standard promises for matching operations; `Progress` of MpiGroups does not
demand that `MPI_Finalize` lets a process go before all have come.  In Ping
`main()` runs, and a timer that was set expires: weak fairness of the handler,
but only where `main()` is blocked, since otherwise it may set the timer again
before it expires.  Of a person only two things are assumed, and only for the
properties that need them: the key at the end of lab4 is pressed, and in lab2 a
client tries until there is room in the queue (strong fairness of `Connect`,
since the queue fills and empties) and hangs up when it has everything back.
BroadcastSession and MulticastSession assume no user does anything, not even
that a session is started; one that was started sets itself up and listens.

## 5. Proofs

TLAPS proves the following for **every** value of the constants that satisfies
the modules' assumptions.

*FileTransferProofs* (`TypeCorrect`, `PositionsOrdered`, `SentReports`,
`DestinationOrdered`, `DestinationPrefix`): `TypeOK`, `Conservation`,
`SentReportHonest`, `DestinationInOrder`, `DestinationIsPrefix`.  The types and the
order of the positions are inductive together (`Inv1`): the types of the
positions need their order, since a difference of two must be a natural number.
A `read()` that fails is the last one: `Order` says that the sender is past it, and
that the stream ends at `Reach`, at most `Stack` bytes beyond what was read.
What `sendFile()` reports needs one more fact, `SenderCount`: at every point
of the loop `total` plus `len`, what the current `send()` was given, is `sent` plus
`left`, what it has still to accept.  The destination needs `ReceiverFile`: the file is `Prefix(total)` and `total` is
`recvd`, unless the disk has failed, from the moment it is opened.

The same module proves that the transfer implements `FileCopy`
(`TransferCopies`), with no assumption on what fails or how the stream is cut.  A
`read()` that fails is `Lose`, where `end` is what was read, and allowed because
the destination holds only bytes that were sent.
To the invariant it adds `Verdict` (while the receiver can still receive it has
said nothing) and `Blocks` (in calm the receiver's kernel and program stand at
the end of a block or of the file).  `Blocks` is what makes a short
`recv()` mean the end of the file in calm; that two ends of blocks are a block
apart is non-linear arithmetic over `BUFFSIZE`, in lemmas of its own.

`NothingIsLost` is `NothingLost`, the other half of what calm promises: the
receiver's end is the end of the file.  `Unconnected` says that nothing can be
broken before the handshake, `Course` that from then on no descriptor is bad, the
sender leaves its loop when all is sent and the receiver when all is written.  The
step that matters is `LastRecv`: by `Blocks` a `recv()` of less than a block can
only be the last one, of a rest or, for a multiple of `BUFFSIZE`, of nothing.

*OobTransferProofs* (`TypeCorrect`, `BytesInOrder`, `OnlyDataWritten`): `TypeOK`,
`DataInOrder`, `OnlyData`.  `OrderInv` compares places by the file's bytes before
them: the stream carries these in their order as far as the sender's loop has
come, the file holds just those among the bytes the receiver has copied, and what
the kernel has marked is an urgent byte, so that skipping it loses none.  If the
sender waits, `PacedInv` adds that at most one urgent byte is under way, the next
to come, with its mark still on it when it has come (`OneUrgent`), and that the
data behind it continue the file where it ends (`Continued`).  Without the wait
`OneUrgent` fails, which is the counterexample of `ob_counted`.

*MpiPeerProofs* (`TypeCorrect`, `ProductInPlace`, `NeverAborts`,
`ValidationComplete`, `JobComputesProduct`): `TypeOK` holds in both modes under
every buffering. `RowsInPlace`, `MessagesFit`, `ValidatesAll` and the refinement
of `RowProduct` are proved under `Agreed`, the condition that `mp_slot` shows to
be necessary: in every setup the mode is synchronous, or MPI buffers the block
sizes, or all blocks are of one size.  The inductive invariant `PeerInv` adds
`SizesAgree` (a worker past the size phase knows its own size), `InTurn` (a
phase is begun when the one before is complete, and a tag's messages are taken
only after they were posted), `RowsRight` (the rows a worker holds are its own)
and `ProductRight` (the rows of C that were received are exactly those of the
workers whose results were taken, and nothing is printed before).  In the
refinement a result that arrives is a `Fill` with the rows of its worker's
block, `Validate` is `Declare`, and all other steps stutter.  That blocks of
different workers do not overlap, and together are the matrix, is a lemma on
`FirstC` and `BlockSize` with the non-linear arithmetic done by hand.

*MpiGroupsProofs* (`SplitIsSafe`, `GroupsAreWhole`, `NamesAreShort`, `TypeCorrect`,
`ResultsAreWhole`, `FilesAreWhole`):
`SplitsSafely`, the division fails for no random values unless there are two
groups or more and fewer than two ranks to spare, and then always: by zero, or, if
two groups or more find no rank, by an overrun;
`GroupsWhole`, the groups are runs of ranks, and every group has one exactly if the
array was not overrun.  The invariant of
the loop, `LoopInv`, says that in round `i` the ranks given away and those
available add up to the ranks there are less one for every group to come, and
that at least two are available if two were at the start: a round takes less
than two thirds of them, rounded down (lemma `ModulusLeavesTwo`), so the modulus
of the next round is positive.  If the groups are too many (`Crowded`) it is negative
from the start and stays so, and the groups have used up the ranks before the last
round.  `NumbersInv` adds what the rounds have written: `group_numbers` is `Divided`
up to `next_group_rank`, among `i` groups, or among the fewer for which there was room
(`DivideEnough`).  `NamesInv` adds that a
process has the number of a group there is, from which `NamesFit` follows.

`ResultWhole` and `FilesWhole` rest on lemmas about the blocks.  The ranks of a
group are numbered from 0 without a gap (`Ranks`); the displacements, which the
code builds in a loop from the sizes before, are the multiples of the plain size
(`BlockPlaces`: a number at which they are not would have a least one before it,
which is induction without an operator to instantiate); so the blocks cover the rows
(`BlocksCover`) and do not overlap (`BlocksApart`), and a gather of them fills every
row once (`GatherWhole`).  `WholeInv` adds what each process knows: `SplitDone` (nobody
is past the split while another has no number, so that the groups no longer
change) and `Blocks` (a process's size and displacement are those of its rank in
its group).  `FileInv` says of every process how much of its output is in the file: no
more than there is, all but a buffer when it has printed, all when it has ended; and
that a process of which a row is cut has another in its group and more than a buffer
to print (`Saves`).

*EchoServerProofs* (`TypeCorrect`, `EchoIsExact`, `ServerStaysUp`): `TypeOK`,
`EchoExact`, `StaysUp`.  The invariant says where the server has a client
(`Served`), that nothing was done yet for a client that waits or has not come
(`Waiting`), that bytes taken are returned or held unless their client has gone
(`Counts`), and that a polite client that has gone has everything (`Manners`):
so nothing is sent to it, its kernel has no reason to reset the connection, and
SIGPIPE is always due to another.

*PingProofs* (`TypeCorrect`, `HandlerSafe`, `ChecksumCorrect`): `TypeOK`,
`HeapSafe`, `ChecksumRight`, for every size of an int, and of a word over 8.  The checksum is
arithmetic: a number is `M * q + r`; two folds leave `q + r`, or that less `M -
1` (`DivMod`, `FoldIs`); so the checksum is congruent to what completes the
other words to all ones, and equals it up to the two zeros exactly if the field
was a zero (`SumOfFour`).  For `HeapSafe` the invariant counts what can lead to
a signal in the allocator: while there is a socket, the running timer, the
packets in the queue and `main()` between a packet and the next `alarm()` are
together at most one more than the packets that came unasked.

*BroadcastSessionProofs* (`TypeCorrect`, `BlanksAreCounted`, `ListsAreBounded`,
`OnlyAddressesListed`, `SessionsMeet`): `TypeOK`, `BlanksWereSent`,
`EntriesNeedJoins`, `EntriesAreAddresses`, `PeersMeet`, for any set of sessions.
`ListInv` has the types and the shape of a list between the two halves of the
listener's assignment (`ListOf`): it is overrun only by an entry too many or by a long
one.  `JoinsOf` makes `EntriesNeedJoins` inductive without a
sum over the sessions: what one list holds, the announcement its listener is in
the middle of, and those that wait in its inbox are together no more than were
broadcast.  `BlanksOf` counts the blank entries in the same way, against the empty
datagrams and failed `recvfrom()`s.  For patient users `PatientInv` says of the
whole system that one session at most has news under way (`News`), that every
other is idle towards it or is at one of five points of listing it (`Pending`),
and that of two sessions that speak one lists the other or is about to (`Meet`):
so "enter" and the address behind it meet no other datagram.

*MulticastSessionProofs* (`TypeCorrect`, `QuestionsCostOneAnswer`,
`AnswersAreTrue`): `TypeOK`, `OneAnswerEach`, `AddressesTrue`.  What waits in the
inboxes is counted as a set of pairs, sender and place; `SentCount` and `TakenCount`
say that a datagram that is sent adds at most one of them, and one that is
received takes one away (the rest move up by one place, an injection).  With them
`CountInv` is inductive for each pair of sessions: a question that is answered is
one less to answer when it becomes one more to print.  Lines are counted beside
questions, since `TypeOK` bounds both by `MaxTyped`.  `Truth` extends `AddressesTrue`
to the datagrams under way, and `Threads` says that the listener runs only when
the address is there.

Only model-checked: the liveness properties, that is `BothEnd` (twice),
`Finishes`, `OnlyFreeHangs`, `Everyone`, `LastsOnlyAtHome`, `AddressKept` and
`AskerLearns`: they rest on fairness and `ENABLED`, which the installed provers
cannot reason about.  Every invariant, and both refinements, that a passing run
checks are proved; the ones of MpiPeer but `TypeOK` under `Agreed`.

## 6. Not modelled

* lab5 does not build.  `broadcast.c`, `session.c`, `session_v2.c` of lab3_2 are
  unfinished predecessors of `session_v3.c` and do not compile.
* The pair `server.c`, `client.c` of lab3_2: the server sends its datagrams to port
  0, which fails, and then waits; nothing passes between the two.  vksis: one
  datagram, no state.
* `createUDPSocket()`, `clientUDP()`, `createUDPListener()` of `sockcore.c`: only
  lab5 calls them.
* What ping prints, the IP header it puts before the kernel's, the memory each
  request loses (the handler never frees its packet), and what happens after the
  allocator was interrupted.
* `bindAddr()` and `bindSocket()` are reduced to their results, 1 or -1; argument
  parsing, the wording of messages and the layout of lists are left out.
* What the stack holds that `sendFile()` sends after a failed `read()`
  (`lab3/netsender.c:123`): only how many bytes, at most `Stack`.
* Of Lab6's output: rows are equally long, full disks are ignored as `fprintf()`'s
  result is, and the order in which the chunks of a group's members reach their
  common file is kept only as far as they cut a row (`cut`).  The file is opened to
  append: rows of earlier jobs stay in front of those of this one.  A matrix file that
  is too short leaves numbers that were not read, which are rows like others here.
* What is behind `group_numbers` and is overwritten (`mpi-collective.c:40`): the job may
  fail at any time after, or not (`Damage`); no other wrong result is modelled.
* The arithmetic of a row in Lab5 and Lab6: a row of the product is right if it is
  computed from its own row of A and all of B.  The sum Lab6 prints is left out.
* Lab5 as a job of one process: it has no workers and divides by zero at once
  (`mpi-peer.c:67`); MpiPeer assumes a worker.
* What a session of the broadcast chat does after writing past the end of its list:
  its threads stop in the model.  Long lines are all equally long, `LongRows` rows.  A
  `recvfrom()` that fails while the listener waits for the word only prints an empty
  line, and is no step.

## 7. Findings

Four runs are expected to end in a counterexample: the code disagrees with what
its own documentation or messages say.

| run | property | what the code does |
|---|---|---|
| `ft_short_recv` | `ReceivedIsWhole` | a segment shorter than `BUFFSIZE` in the middle of the stream ends `recieveFile()`, which reports the file as received (`lab3/netsender.c:94`) |
| `mp_slot` | `RunIsValidated` | `MPI_Isend` of a loop variable: a worker may get another worker's block size (`Lab5/mpi-peer.c:90`) |
| `ob_counted` | `UrgentNotCounted` | an urgent byte that a newer one overtakes is written to the file and counted (`lab4/netsender.c:85`) |
| `ec_returned` | `Returned` | a client that hangs up while its bytes are under way kills the server (`lab2/simple_server.c:56`) |

Five disagreements are visible in the code without a run.  `sendFile()` prints "File
... was sent" also of a file, or a directory, that it could not read
(`lab3/netsender.c:123`, `:133`), which is why `SentReportHonest` excepts it.  A receiver whose
packets are silently dropped waits in `recv()` for ever, which is why `BothEnd`
excepts it, while `lab3/Readme` asks for broken connections to be handled
(`lab3/netsender.c:78`).  `groupsFinalize()` adds all elements but the last
(`Lab6/mpi-collective.c:64`).  The sender of lab4 shows the share of the last
block, not the total that `lab4/Readme` asks for (`lab4/netsender.c:130`).  No
timeout of the ping works, and a request that is not answered is the last one
(`lab1_2/ping.c:137`, `:163`): `LastsOnlyAtHome` says what is true instead.

## 8. Plan

Done, in this order: FileTransfer with FileCopy and proofs; MpiPeer with
RowProduct and proofs; MpiGroups and proofs; BroadcastSession; OobTransfer;
EchoServer and proofs; MulticastSession; the two refinement theorems; Ping and
proofs; the files of MpiGroups; the start of OobTransfer; the faults of
BroadcastSession in one model with its liveness; the proofs of the invariants of OobTransfer, BroadcastSession and
MulticastSession, and of what MpiGroups computes; `NothingLost`.

Then the failed `read()` of FileTransfer and OobTransfer, the overrun of
`groupsPrepare()` and what follows it, the buffers of Lab6's files byte by byte, empty and
long datagrams, with their proofs.

Left: the safety that the liveness properties rest on, where it can be proved
without fairness: that an address under way or listed is lost in no step (the first part
of `AddressKept`), and that in MpiPeer and MpiGroups no state is reached in which
every process waits for another.
