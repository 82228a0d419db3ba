----------------------------- MODULE Connecting -----------------------------
(***************************************************************************)
(* How a client gets a channel and a miniServer of its own: the start of   *)
(* the client's main (client.c), the loop of the server's main and the     *)
(* start of miniServer (servstub.c), over the default channel all clients  *)
(* share.  The makefile builds the program with each of four transports.   *)
(*                                                                         *)
(*   fifo      a stream of bytes each way: a read takes all there is       *)
(*   msgqueue  a queue of packets each way: any client reads any reply;    *)
(*             msgget's ID is compared with msgid and never kept, so both    *)
(*             sides use the queue of ID 0, whichever one they created       *)
(*   socket    datagrams: a reply goes to whoever was heard last           *)
(*   shmem     a buffer each way with two semaphores (see Shmem), which    *)
(*             every client that connects sets again                       *)
(*                                                                         *)
(* Channels are numbered as getNextChannel gives them out, threads as main *)
(* creates them, both from 1.  What goes over a client's own channel is    *)
(* the subject of Shmem and Sessions.                                      *)
(***************************************************************************)
EXTENDS Naturals, Sequences

CONSTANTS
  NClients,    \* client processes
  Transports,  \* the builds that are looked at
  Chunk        \* 10 in the code: by how much the arrays grow

ASSUME ConnectingAssumption ==
  /\ NClients \in Nat \ {0} /\ Chunk \in Nat \ {0}
  /\ Transports \subseteq {"fifo", "msgqueue", "socket", "shmem"}

Clients == 1 .. NClients
Threads == 1 .. NClients   \* a client asks once, so main creates no more
None == 0

VARIABLES
  transport,
  queue,       \* msgqueue: there is a queue of ID 0
  requests,    \* default channel, not shmem: the clients whose requests wait
  replies,     \* default channel, not shmem: the replies that wait
  sem,         \* default channel, shmem: the semaphores of the two buffers
  buffer,      \* default channel, shmem: the channel last written for a client
  main,        \* where main is
  heard,       \* the client main heard last, where a socket replies to
  newChannel,  \* what it holds: the name given last, the channel created last
  servers,     \* how many threads main has created
  slots,       \* the length of TOArray, envs, envs2 and miniServers
  maxThreadID, \* plus one: the code starts at -1
  server,      \* thread -> where it is
  serves,      \* thread -> the channel it listens to
  id,          \* thread -> myID plus one; what it has read of maxThreadID until then
  client,      \* client -> where its process is
  channel,     \* client -> the channel it was told of
  met,         \* history: a client came while the server was busy with another
  crowded,     \* history: a thread was created while another had no ID yet
  up           \* FALSE once the server process has crashed

wireVars   == <<requests, replies, sem, buffer>>
mainVars   == <<main, heard, newChannel, servers, slots>>
serverVars == <<maxThreadID, server, serves, id>>
clientVars == <<client, channel, met>>
vars == <<transport, queue, wireVars, mainVars, serverVars, clientVars, crowded, up>>

Semaphores == {"S0", "S1", "C0", "C1"}  \* server's and client's buffer: free, full

ConnectingTypeOK ==
  /\ transport \in Transports /\ queue \in BOOLEAN
  /\ requests \in Seq(Clients)
  /\ replies \in Seq([to : Clients, channel : Threads])
  /\ sem \in [Semaphores -> Nat] /\ buffer \in Threads \cup {None}
  /\ main \in {"receive", "taken", "given", "name", "create", "spawn",
               "reply", "written", "signalled"}
  /\ heard \in Clients \cup {None}
  /\ newChannel \in [name : Threads \cup {None}, made : Threads \cup {None}]
  /\ servers \in 0 .. NClients /\ slots \in Nat
  /\ maxThreadID \in 0 .. NClients
  /\ server \in [Threads -> {"none", "created", "connected", "counting", "serving", "expired"}]
  /\ serves \in [Threads -> Threads \cup {None}]
  /\ id \in [Threads -> 0 .. NClients]
  /\ client \in [Clients -> {"out", "cleared", "ready", "written", "signalled", "asked",
                             "taken", "given", "told", "killed", "crashed"}]
  /\ channel \in [Clients -> Threads \cup {None}]
  /\ met \in BOOLEAN /\ crowded \in BOOLEAN /\ up \in BOOLEAN

\* The kernel gives 0 to the first queue there is since it started, and to no
\* later one.
Init ==
  /\ transport \in Transports
  /\ queue \in BOOLEAN /\ (transport # "msgqueue" => queue)
  /\ requests = << >> /\ replies = << >>
  /\ sem = [s \in Semaphores |-> IF s \in {"S0", "C0"} THEN 1 ELSE 0]
  /\ buffer = None
  /\ main = "receive" /\ heard = None
  /\ newChannel = [name |-> None, made |-> None]
  /\ servers = 0 /\ slots = 0 /\ maxThreadID = 0
  /\ server = [n \in Threads |-> "none"]
  /\ serves = [n \in Threads |-> None] /\ id = [n \in Threads |-> 0]
  /\ client = [c \in Clients |-> "out"] /\ channel = [c \in Clients |-> None]
  /\ met = FALSE /\ crowded = FALSE /\ up = TRUE

\* Without its queue a message queue takes nothing and gives nothing.
Works == transport = "msgqueue" => queue

-----------------------------------------------------------------------------
(* The semaphores of shmem.                                                *)

Take(s) == sem[s] > 0 /\ sem' = [sem EXCEPT ![s] = @ - 1]
Give(s) == sem' = [sem EXCEPT ![s] = @ + 1]
Lower(s) == sem' = [sem EXCEPT ![s] = 0]

\* semctl(SETVAL) of all to 0, then of the two "free" ones to 1.
ClearAll == sem' = [s \in Semaphores |-> 0]

\* Mutant: only the buffer of the client is made free.
FreeBoth_ClientOnly == sem' = [sem EXCEPT !["C0"] = 1]

FreeBoth == sem' = [sem EXCEPT !["C0"] = 1, !["S0"] = 1]

-----------------------------------------------------------------------------
(* A client.                                                               *)

MoveClient(c, step) == client' = [client EXCEPT ![c] = step]

\* The server waits in receivePacket, and nobody else is connecting.
Quiet ==
  /\ main = "receive" /\ requests = << >>
  /\ \A c \in Clients : client[c] \in {"out", "told", "killed", "crashed"}

\* connectToChannel(default), which in shmem sets the semaphores again.
ClearDefault(c) ==
  /\ up /\ transport = "shmem" /\ client[c] = "out"
  /\ ClearAll
  /\ MoveClient(c, "cleared")
  /\ met' = (met \/ ~ Quiet)
  /\ UNCHANGED <<transport, queue, requests, replies, buffer, mainVars, serverVars, channel, crowded, up>>

FreeDefault(c) ==
  /\ client[c] = "cleared"
  /\ FreeBoth
  /\ MoveClient(c, "ready")
  /\ UNCHANGED <<transport, queue, requests, replies, buffer, mainVars, serverVars, channel, met, crowded, up>>

\* sendPacket of GET_CHANNEL: in shmem a P, the bytes, a V and a SETVAL.  What a
\* queue that is not there does not take is nobody's to read.
Ask(c) ==
  \/ /\ up /\ transport # "shmem" /\ client[c] = "out"
     /\ requests' = Append(requests, c)
     /\ MoveClient(c, "asked")
     /\ met' = (met \/ ~ Quiet)
     /\ UNCHANGED sem
  \/ /\ client[c] = "ready" /\ Take("S0") /\ MoveClient(c, "written")
     /\ UNCHANGED <<requests, met>>
  \/ /\ client[c] = "written" /\ Give("S1") /\ MoveClient(c, "signalled")
     /\ UNCHANGED <<requests, met>>
  \/ /\ client[c] = "signalled" /\ Lower("S0") /\ MoveClient(c, "asked")
     /\ UNCHANGED <<requests, met>>

\* receivePacket of the reply, and stringToChannel of its beginning.
HearReply(c) ==
  \/ /\ transport # "shmem" /\ Works /\ client[c] = "asked" /\ replies # << >>
     /\ \/ /\ transport = "fifo"
           /\ channel' = [channel EXCEPT ![c] = Head(replies).channel]
           /\ replies' = << >>
        \/ /\ transport = "msgqueue"
           /\ channel' = [channel EXCEPT ![c] = Head(replies).channel]
           /\ replies' = Tail(replies)
        \/ /\ transport = "socket"
           /\ \E i \in 1 .. Len(replies) :
                /\ replies[i].to = c /\ \A j \in 1 .. i - 1 : replies[j].to # c
                /\ channel' = [channel EXCEPT ![c] = replies[i].channel]
                /\ replies' = SubSeq(replies, 1, i - 1) \o SubSeq(replies, i + 1, Len(replies))
     /\ MoveClient(c, "told")
     /\ UNCHANGED sem
  \/ /\ transport = "shmem" /\ client[c] = "asked" /\ Take("C1")
     /\ channel' = [channel EXCEPT ![c] = buffer]
     /\ MoveClient(c, "taken")
     /\ UNCHANGED replies
  \/ /\ client[c] = "taken" /\ Give("C0") /\ MoveClient(c, "given")
     /\ UNCHANGED <<replies, channel>>
  \/ /\ client[c] = "given" /\ Lower("C1") /\ MoveClient(c, "told")
     /\ UNCHANGED <<replies, channel>>

\* msgrcv fails at once, and its -1 is the length that memcpy is given.
ClientFails(c) ==
  /\ ~ Works /\ client[c] = "asked"
  /\ MoveClient(c, "crashed")
  /\ UNCHANGED <<transport, queue, wireVars, mainVars, serverVars, channel, met, crowded, up>>

Connect(c) ==
  \/ FreeDefault(c)
  \/ Ask(c) /\ UNCHANGED <<transport, queue, replies, buffer, mainVars, serverVars, channel, crowded, up>>
  \/ HearReply(c)
       /\ UNCHANGED <<transport, queue, requests, buffer, mainVars, serverVars, met, crowded, up>>
  \/ ClientFails(c)

\* SIGINT while the client has not set its handlers yet.
Killed(c) ==
  /\ client[c] \notin {"out", "told", "killed", "crashed"}
  /\ MoveClient(c, "killed")
  /\ UNCHANGED <<transport, queue, wireVars, mainVars, serverVars, channel, met, crowded, up>>

-----------------------------------------------------------------------------
(* main of the server.                                                     *)

\* receivePacket of a request; what a fifo holds comes as one.
Receive ==
  /\ up
  /\ \/ /\ transport # "shmem" /\ Works /\ main = "receive" /\ requests # << >>
        /\ heard' = Head(requests)
        /\ requests' = IF transport = "fifo" THEN << >> ELSE Tail(requests)
        /\ main' = "name"
        /\ UNCHANGED sem
     \/ /\ transport = "shmem" /\ main = "receive" /\ Take("S1") /\ main' = "taken"
        /\ UNCHANGED <<heard, requests>>
     \/ main = "taken" /\ Give("S0") /\ main' = "given" /\ UNCHANGED <<heard, requests>>
     \/ main = "given" /\ Lower("S1") /\ main' = "name" /\ UNCHANGED <<heard, requests>>
  /\ UNCHANGED <<transport, queue, replies, buffer, newChannel, servers, slots, serverVars,
                 clientVars, crowded, up>>

\* Mutant: the number is not stepped.
NextNumber_Same == IF newChannel.name = None THEN 1 ELSE newChannel.name

NextNumber == newChannel.name + 1

\* getNextChannel writes the names into newChannel ...
GetNextChannel ==
  /\ up /\ main = "name" /\ main' = "create"
  /\ newChannel' = [newChannel EXCEPT !.name = NextNumber]
  /\ UNCHANGED <<transport, queue, wireVars, heard, servers, slots, serverVars, clientVars, crowded, up>>

\* ... and createChannel the descriptors.
CreateChannel ==
  /\ up /\ main = "create" /\ main' = "spawn"
  /\ newChannel' = [newChannel EXCEPT !.made = newChannel.name]
  /\ UNCHANGED <<transport, queue, wireVars, heard, servers, slots, serverVars, clientVars, crowded, up>>

\* Mutant: the arrays are as long as the threads there were.
Grown_TooShort == IF servers % Chunk = 0 THEN servers ELSE slots

Grown == IF servers % Chunk = 0 THEN servers + Chunk ELSE slots

Uncounted == {n \in Threads : server[n] \in {"created", "connected", "counting"}}

\* The arrays grow, and the thread is created with the address of newChannel.
Spawn ==
  /\ up /\ main = "spawn" /\ main' = "reply"
  /\ slots' = Grown
  /\ servers' = servers + 1
  /\ server' = [server EXCEPT ![servers + 1] = "created"]
  /\ crowded' = (crowded \/ Uncounted # {})
  /\ UNCHANGED <<transport, queue, wireVars, heard, newChannel, maxThreadID, serves, id,
                 clientVars, up>>

\* sendPacket of the channel.
Reply ==
  /\ up
  /\ \/ /\ transport # "shmem" /\ main = "reply" /\ main' = "receive"
        /\ replies' = Append(replies, [to |-> heard, channel |-> newChannel.made])
        /\ UNCHANGED <<sem, buffer>>
     \/ /\ transport = "shmem" /\ main = "reply" /\ Take("C0") /\ main' = "written"
        /\ buffer' = newChannel.made
        /\ UNCHANGED replies
     \/ main = "written" /\ Give("C1") /\ main' = "signalled" /\ UNCHANGED <<buffer, replies>>
     \/ main = "signalled" /\ Lower("C0") /\ main' = "receive" /\ UNCHANGED <<buffer, replies>>
  /\ UNCHANGED <<transport, queue, requests, heard, newChannel, servers, slots, serverVars,
                 clientVars, crowded, up>>

Main == Receive \/ GetNextChannel \/ CreateChannel \/ Spawn \/ Reply

-----------------------------------------------------------------------------
(* The n-th miniServer.                                                    *)

\* A fifo and a message queue are found by name, a socket and a shared memory
\* by the descriptor of its creation; a fifo that is not made yet is not opened.
Listened ==
  CASE transport = "fifo" /\ newChannel.name > newChannel.made -> None
    [] transport \in {"fifo", "msgqueue"} -> newChannel.name
    [] OTHER -> newChannel.made

\* memcpy(channel, channels, 200), of whatever main has in newChannel by now,
\* and connectToChannel.
ConnectServer(n) ==
  /\ up /\ server[n] = "created"
  /\ server' = [server EXCEPT ![n] = "connected"]
  /\ serves' = [serves EXCEPT ![n] = Listened]
  /\ UNCHANGED <<transport, queue, wireVars, mainVars, maxThreadID, id, clientVars, crowded, up>>

\* myID = ++maxThreadID, a read and a write.
ReadMax(n) ==
  /\ up /\ server[n] = "connected"
  /\ server' = [server EXCEPT ![n] = "counting"]
  /\ id' = [id EXCEPT ![n] = maxThreadID]
  /\ UNCHANGED <<transport, queue, wireVars, mainVars, maxThreadID, serves, clientVars, crowded, up>>

WriteMax(n) ==
  /\ up /\ server[n] = "counting"
  /\ server' = [server EXCEPT ![n] = "serving"]
  /\ maxThreadID' = id[n] + 1
  /\ id' = [id EXCEPT ![n] = id[n] + 1]
  /\ UNCHANGED <<transport, queue, wireVars, mainVars, serves, clientVars, crowded, up>>

StartServer(n) == ConnectServer(n) \/ ReadMax(n) \/ WriteMax(n)

\* A connection expires and its channel is destroyed (Sessions).  The message
\* queue is one for all; whoever finds it gone ends the process.
Expire(n) ==
  /\ up /\ transport = "msgqueue" /\ server[n] = "serving"
  /\ server' = [server EXCEPT ![n] = "expired"]
  /\ queue' = FALSE
  /\ up' = queue
  /\ UNCHANGED <<transport, wireVars, mainVars, maxThreadID, serves, id, clientVars, crowded>>

\* main or a thread receives where there is no queue, like ClientFails.
ServerFails ==
  /\ up /\ ~ Works
  /\ main = "receive" \/ \E n \in Threads : server[n] = "serving"
  /\ up' = FALSE
  /\ UNCHANGED <<transport, queue, wireVars, mainVars, serverVars, clientVars, crowded>>

Next ==
  \/ Main \/ ServerFails
  \/ \E c \in Clients : ClearDefault(c) \/ Connect(c) \/ Killed(c)
  \/ \E n \in Threads : StartServer(n) \/ Expire(n)

Spec == Init /\ [][Next]_vars

\* Whoever has begun to connect, main and the threads go on unless blocked;
\* nobody needs to come, to be killed or to fall silent.
FairSpec ==
  /\ Spec
  /\ WF_vars(Main) /\ WF_vars(ServerFails)
  /\ \A c \in Clients : WF_vars(Connect(c) /\ client[c] # "out")
  /\ \A n \in Threads : WF_vars(StartServer(n))

-----------------------------------------------------------------------------
(* Properties.                                                             *)

Told == {c \in Clients : client[c] = "told"}

\* No two clients are told of one channel, whoever reads whose reply; only in
\* shared memory may two that come at once both read the later reply.
NoSharedChannel ==
  \A c, d \in Told : c # d /\ channel[c] = channel[d] => transport = "shmem" /\ met

\* Whatever the threads lose of each other's counts, an ID is below the length
\* of the arrays it indexes, and so is every entry the timeout thread copies;
\* and threads that start one after another have the indices main gave them,
\* by which the timeout thread cancels them.
IDsInBounds ==
  /\ maxThreadID <= slots
  /\ \A n \in Threads : server[n] \in {"serving", "expired"} =>
       /\ id[n] \in 1 .. slots
       /\ crowded \/ id[n] = n

\* A thread that has not copied its channel before main goes on may have that
\* of the next client, or none.
CopiedLate == \E n \in Threads : server[n] \notin {"none", "created"} /\ serves[n] # n

Served(c) == \E n \in Threads :
  server[n] \in {"connected", "counting", "serving", "expired"} /\ serves[n] = channel[c]

\* A client that comes gets a channel with somebody at its other end.  In a
\* queue or a socket it may only be missed by a late copy; a fifo and a shared
\* memory also lose what two clients ask for at once.  Over a message queue this
\* holds while the queue has ID 0: nobody connects to another one, which is what
\* the kernel gives to all but the first, and what is left after an expiry.
EveryoneConnects ==
  \A c \in Clients :
    client[c] # "out"
      ~> \/ client[c] = "told" /\ Served(c)
         \/ client[c] = "killed" \/ ~ Works \/ CopiedLate
         \/ transport \in {"fifo", "shmem"} /\ met

=============================================================================
