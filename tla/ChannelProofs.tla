-------------------------- MODULE ChannelProofs ----------------------------
(***************************************************************************)
(* Connecting for any number of clients, any of the transports and any     *)
(* Chunk: the IDs of the threads stay inside the arrays they index, and    *)
(* two clients are told of one channel only where NoSharedChannel says.    *)
(*                                                                         *)
(* Shmem for any number of requests and prompts: one process at a time is  *)
(* in a buffer, and messages are read once and in order.                   *)
(***************************************************************************)
EXTENDS Connecting, Shmem, FiniteSetTheorems, SequenceTheorems, TLAPS

-----------------------------------------------------------------------------
(* The counting of threads.                                                *)

Finished == {n \in Threads : server[n] \in {"serving", "expired"}}

CountTypes ==
  /\ server \in [Threads -> {"none", "created", "connected", "counting", "serving", "expired"}]
  /\ id \in [Threads -> Nat]
  /\ servers \in Nat /\ slots \in Nat /\ maxThreadID \in Nat /\ crowded \in BOOLEAN

\* The arrays grow by whole chunks, ahead of the threads.
Room ==
  /\ servers <= slots
  /\ \E k \in Nat : slots = k * Chunk
  /\ \A n \in Threads : n > servers => server[n] = "none"

\* What a thread reads of maxThreadID, it was counted to by threads that have
\* finished counting, each by one.
Counted ==
  /\ maxThreadID <= Cardinality(Finished)
  /\ \A n \in Threads :
       /\ server[n] = "counting" => id[n] <= Cardinality(Finished)
       /\ n \in Finished => id[n] \in 1 .. Cardinality(Finished)

\* As long as they start one after another, nobody's count is lost.
InTurn ==
  crowded \/
    /\ \A n \in Uncounted : /\ n = servers /\ maxThreadID = n - 1
                            /\ server[n] = "counting" => id[n] = n - 1
    /\ Uncounted = {} /\ servers <= NClients => maxThreadID = servers
    /\ \A n \in Finished : id[n] = n

CountInvariant == CountTypes /\ Room /\ Counted /\ InTurn

\* A length that is whole chunks and not a multiple of Chunk is not full.
LEMMA NotFull ==
  ASSUME NEW s \in Nat, NEW k \in Nat, NEW c \in Nat \ {0}, s % c # 0
  PROVE  s # k * c
<1> SUFFICES ASSUME s = k * c PROVE s % c = 0
  OBVIOUS
<1>1. s = (s \div c) * c + (s % c) /\ s % c \in 0 .. c - 1 /\ s \div c \in Nat
  BY SMT
<1> DEFINE q == s \div c
           r == s % c
<1>2. q \in Nat /\ r \in 0 .. c - 1 /\ k * c = q * c + r
  BY <1>1
<1> HIDE DEF q, r
<1>3. (k - q) * c = r
  BY <1>2
<1>4. k - q < 1
  BY <1>2, <1>3
<1>5. k - q > -1
  BY <1>2, <1>3
<1>6. k - q = 0
  BY <1>2, <1>4, <1>5
<1> QED
  BY <1>3, <1>6 DEF r

LEMMA FinishedIsFinite == IsFiniteSet(Finished) /\ Cardinality(Finished) \in Nat
<1>1. IsFiniteSet(1 .. NClients)
  BY FS_Interval, ConnectingAssumption
<1>2. IsFiniteSet(Finished)
  BY <1>1, FS_Subset DEF Finished, Threads
<1> QED
  BY <1>2, FS_CardinalityType

\* No more threads have finished than were created.
LEMMA FinishedAreCreated ==
  ASSUME CountTypes, Room
  PROVE  Cardinality(Finished) <= servers
<1>1. Finished \subseteq 1 .. servers
  BY ConnectingAssumption DEF CountTypes, Room, Finished, Threads
<1>2. IsFiniteSet(1 .. servers) /\ Cardinality(1 .. servers) = servers
  BY FS_Interval DEF CountTypes
<1> QED
  BY <1>1, <1>2, FS_Subset

LEMMA CountStart == Init => CountInvariant
<1> SUFFICES ASSUME Init PROVE CountInvariant
  OBVIOUS
<1>1. Finished = {} /\ Uncounted = {}
  BY DEF Init, Finished, Uncounted
<1>2. Cardinality(Finished) = 0
  BY <1>1, FS_EmptySet
<1>3. 0 \in Nat /\ 0 = 0 * Chunk
  BY ConnectingAssumption
<1>4. CountTypes
  BY DEF Init, CountTypes
<1>5. Room
  BY <1>3 DEF Init, Room
<1>6. Counted /\ InTurn
  BY <1>1, <1>2 DEF Init, Counted, InTurn
<1> QED
  BY <1>4, <1>5, <1>6 DEF CountInvariant

\* main makes room and creates a thread.
LEMMA SpawnCounts ==
  ASSUME CountInvariant, Spawn
  PROVE  CountInvariant'
<1> USE DEF CountInvariant
<1>1. /\ slots' = IF servers % Chunk = 0 THEN servers + Chunk ELSE slots
      /\ servers' = servers + 1
      /\ server' = [server EXCEPT ![servers + 1] = "created"]
      /\ crowded' = (crowded \/ Uncounted # {})
      /\ UNCHANGED <<maxThreadID, id>>
  BY DEF Spawn, Grown, serverVars
<1>2. CountTypes'
  <2>1. slots' \in Nat
    <3> DEFINE allUsed == servers % Chunk = 0
    <3> HIDE DEF allUsed
    <3> QED
      BY <1>1, ConnectingAssumption DEF CountTypes, allUsed
  <2>2. crowded' \in BOOLEAN
    BY <1>1 DEF CountTypes
  <2>3. server' \in [Threads -> {"none", "created", "connected", "counting", "serving", "expired"}]
    BY <1>1 DEF CountTypes
  <2> QED
    BY <1>1, <2>1, <2>2, <2>3 DEF CountTypes
<1>3. Finished' = Finished
  BY <1>1 DEF Finished, CountTypes, Room
<1>4. servers' <= slots'
  <2>1. CASE servers % Chunk = 0
    BY <2>1, <1>1, ConnectingAssumption DEF CountTypes
  <2>2. CASE servers % Chunk # 0
    <3>1. servers # slots
      BY <2>2, NotFull, ConnectingAssumption DEF CountTypes, Room
    <3>2. slots' = slots
      BY <2>2, <1>1
    <3> QED
      BY <3>1, <3>2, <1>1 DEF CountTypes, Room
  <2> QED
    BY <2>1, <2>2
<1>5. \E k \in Nat : slots' = k * Chunk
  <2>1. CASE servers % Chunk # 0
    BY <2>1, <1>1 DEF Room
  <2>2. CASE servers % Chunk = 0
    <3>1. servers = (servers \div Chunk) * Chunk + (servers % Chunk) /\ servers \div Chunk \in Nat
      BY ConnectingAssumption DEF CountTypes
    <3> DEFINE q == servers \div Chunk
    <3>2. q \in Nat /\ servers = q * Chunk
      BY <2>2, <3>1, ConnectingAssumption
    <3> HIDE DEF q
    <3>3. servers + Chunk = (q + 1) * Chunk /\ q + 1 \in Nat
      BY <3>2, ConnectingAssumption
    <3> QED
      BY <1>1, <2>2, <3>3
  <2> QED
    BY <2>1, <2>2
<1>6. Room'
  BY <1>1, <1>4, <1>5 DEF Room, CountTypes, Threads
<1>7. Counted'
  BY <1>1, <1>3 DEF Counted, CountTypes
<1>8. InTurn'
  <2> SUFFICES ASSUME ~ crowded' PROVE InTurn'
    BY DEF InTurn
  <2>1. ~ crowded /\ Uncounted = {}
    BY <1>1 DEF CountTypes
  <2>2. Uncounted' = {servers + 1} \cap Threads
    BY <1>1, <2>1 DEF Uncounted, CountTypes
  <2>3. servers + 1 \in Threads => maxThreadID = servers
    BY <2>1, ConnectingAssumption DEF InTurn, Threads, CountTypes
  <2>4. servers + 1 \in Threads => server'[servers + 1] = "created"
    BY <1>1 DEF CountTypes
  <2>5. servers' <= NClients => Uncounted' # {}
    BY <1>1, <2>2, ConnectingAssumption DEF Threads, CountTypes
  <2> QED
    BY <1>1, <1>3, <2>1, <2>2, <2>3, <2>4, <2>5 DEF InTurn, CountTypes
<1> QED
  BY <1>2, <1>6, <1>7, <1>8

\* A thread connects, reads and writes maxThreadID, and expires.
LEMMA ServerCounts ==
  ASSUME CountInvariant, NEW n \in Threads, StartServer(n) \/ Expire(n)
  PROVE  CountInvariant'
<1> USE DEF CountInvariant
<1>1. n \in Nat /\ n >= 1
  BY ConnectingAssumption DEF Threads
<1>2. CASE ConnectServer(n)
  <2>1. /\ server[n] = "created" /\ server' = [server EXCEPT ![n] = "connected"]
        /\ UNCHANGED <<maxThreadID, id, servers, slots, crowded>>
    BY <1>2 DEF ConnectServer, mainVars
  <2>2. Finished' = Finished /\ Uncounted' = Uncounted
    BY <2>1 DEF Finished, Uncounted, CountTypes
  <2> QED
    BY <2>1, <2>2 DEF CountTypes, Room, Counted, InTurn
<1>3. CASE ReadMax(n)
  <2>1. /\ server[n] = "connected" /\ server' = [server EXCEPT ![n] = "counting"]
        /\ id' = [id EXCEPT ![n] = maxThreadID]
        /\ UNCHANGED <<maxThreadID, servers, slots, crowded>>
    BY <1>3 DEF ReadMax, mainVars
  <2>2. Finished' = Finished /\ Uncounted' = Uncounted /\ n \in Uncounted /\ n \notin Finished
    BY <2>1 DEF Finished, Uncounted, CountTypes
  <2>3. CountTypes' /\ Room'
    BY <2>1 DEF CountTypes, Room
  <2>4. Counted'
    BY <2>1, <2>2 DEF CountTypes, Counted
  <2>5. InTurn'
    BY <2>1, <2>2 DEF CountTypes, InTurn, Finished
  <2> QED
    BY <2>3, <2>4, <2>5
<1>4. CASE WriteMax(n)
  <2>1. /\ server[n] = "counting" /\ server' = [server EXCEPT ![n] = "serving"]
        /\ id' = [id EXCEPT ![n] = id[n] + 1] /\ maxThreadID' = id[n] + 1
        /\ UNCHANGED <<servers, slots, crowded>>
    BY <1>4 DEF WriteMax, mainVars
  <2>2. /\ Finished' = Finished \cup {n} /\ n \notin Finished
        /\ Uncounted' = Uncounted \ {n} /\ n \in Uncounted
    BY <2>1 DEF Finished, Uncounted, CountTypes
  <2>3. Cardinality(Finished') = Cardinality(Finished) + 1 /\ Cardinality(Finished) \in Nat
    BY <2>2, FinishedIsFinite, FS_AddElement
  <2>4. CountTypes' /\ Room'
    BY <2>1 DEF CountTypes, Room
  <2>5. Counted'
    <3>1. maxThreadID' <= Cardinality(Finished')
      BY <2>1, <2>3 DEF CountTypes, Counted
    <3>2. ASSUME NEW m \in Threads, server'[m] = "counting"
          PROVE  id'[m] <= Cardinality(Finished')
      BY <2>1, <2>3, <3>2 DEF CountTypes, Counted
    <3>3. ASSUME NEW m \in Threads, m \in Finished'
          PROVE  id'[m] \in 1 .. Cardinality(Finished')
      <4>1. CASE m = n
        BY <2>1, <2>3, <4>1 DEF CountTypes, Counted
      <4>2. CASE m # n
        BY <2>1, <2>2, <2>3, <3>3, <4>2 DEF CountTypes, Counted
      <4> QED
        BY <4>1, <4>2
    <3> QED
      BY <3>1, <3>2, <3>3 DEF Counted
  <2>6. InTurn'
    BY <1>1, <2>1, <2>2 DEF CountTypes, InTurn, Finished
  <2> QED
    BY <2>4, <2>5, <2>6
<1>5. CASE Expire(n)
  <2>1. /\ server[n] = "serving" /\ server' = [server EXCEPT ![n] = "expired"]
        /\ UNCHANGED <<maxThreadID, id, servers, slots, crowded>>
    BY <1>5 DEF Expire, mainVars
  <2>2. Finished' = Finished /\ Uncounted' = Uncounted
    BY <2>1 DEF Finished, Uncounted, CountTypes
  <2> QED
    BY <2>1, <2>2 DEF CountTypes, Room, Counted, InTurn
<1> QED
  BY <1>2, <1>3, <1>4, <1>5 DEF StartServer

\* Nothing else touches what is counted.
LEMMA OthersDoNotCount ==
  ASSUME CountInvariant,
         \/ Receive \/ GetNextChannel \/ CreateChannel \/ Reply \/ ServerFails
         \/ \E c \in Clients : ClearDefault(c) \/ Connect(c) \/ Killed(c)
         \/ UNCHANGED vars
  PROVE  CountInvariant'
<1>1. UNCHANGED <<server, id, servers, slots, maxThreadID, crowded>>
  BY DEF Receive, GetNextChannel, CreateChannel, Reply, ClearDefault, Connect, FreeDefault,
         ClientFails, Killed, ServerFails, vars, mainVars, serverVars
<1>2. Finished' = Finished /\ Uncounted' = Uncounted
  BY <1>1 DEF Finished, Uncounted
<1> QED
  BY <1>1, <1>2 DEF CountInvariant, CountTypes, Room, Counted, InTurn

\* miniServer's ++maxThreadID and the growth of the arrays in main: however many
\* threads count at once, their IDs and maxThreadID are inside the arrays, and
\* threads that start in turn have the indices main gave them.
THEOREM IDsStayInBounds == Spec => []IDsInBounds
<1>1. Init => CountInvariant
  BY CountStart
<1>2. CountInvariant /\ [Next]_vars => CountInvariant'
  BY SpawnCounts, ServerCounts, OthersDoNotCount DEF Next, Main
<1>3. CountInvariant => IDsInBounds
  <2> SUFFICES ASSUME CountInvariant PROVE IDsInBounds
    OBVIOUS
  <2>1. Cardinality(Finished) <= servers /\ Cardinality(Finished) \in Nat
    BY FinishedAreCreated, FinishedIsFinite DEF CountInvariant
  <2> QED
    BY <2>1 DEF CountInvariant, CountTypes, Room, Counted, InTurn, Finished, IDsInBounds
<1> QED
  BY <1>1, <1>2, <1>3, PTL DEF Spec
-----------------------------------------------------------------------------
(* The channels.                                                           *)

\* Clients that have been told of a channel, or have just read its name.
Held(c) == client[c] \in {"taken", "given", "told"}

Starting == {c \in Clients : client[c] \notin {"out", "told", "killed", "crashed"}}

ChannelTypes ==
  /\ client \in [Clients -> {"out", "cleared", "ready", "written", "signalled", "asked",
                             "taken", "given", "told", "killed", "crashed"}]
  /\ channel \in [Clients -> Nat]
  /\ newChannel \in [name : Nat, made : Nat]
  /\ requests \in Seq(Clients) /\ heard \in Clients \cup {None}
  /\ replies \in Seq([to : Clients \cup {None}, channel : Nat])
  /\ main \in {"receive", "taken", "given", "name", "create", "spawn",
               "reply", "written", "signalled"}
  /\ sem \in [Semaphores -> Nat] /\ buffer \in Nat /\ met \in BOOLEAN

\* Channels are named and made in turn; the one that main is about to send is
\* nobody's yet.
MadeInTurn ==
  /\ newChannel.name = IF main = "create" THEN newChannel.made + 1 ELSE newChannel.made
  /\ \A c \in Clients : Held(c) =>
       /\ channel[c] <= newChannel.made
       /\ main \in {"spawn", "reply"} => channel[c] # newChannel.made
  /\ buffer <= newChannel.made
  /\ main \in {"spawn", "reply"} => buffer # newChannel.made
  /\ \A i \in 1 .. Len(replies) :
       /\ replies[i].channel <= newChannel.made
       /\ main \in {"spawn", "reply"} => replies[i].channel # newChannel.made

\* A channel is in one place.
Apart ==
  /\ \A c, d \in Clients : Held(c) /\ Held(d) /\ c # d => channel[c] # channel[d]
  /\ \A i, j \in 1 .. Len(replies) : i # j => replies[i].channel # replies[j].channel
  /\ \A c \in Clients, i \in 1 .. Len(replies) : Held(c) => channel[c] # replies[i].channel

\* The reply in the buffer is nobody's yet.
Unread == buffer = newChannel.made /\ \A c \in Clients : Held(c) => channel[c] # buffer

\* The token that goes round while one client connects over shared memory: the
\* request's permit, main, the reply's permit.
Token(c) ==
  \/ /\ client[c] \in {"cleared", "ready", "written"}
     /\ main = "receive" /\ sem["S1"] = 0 /\ sem["C1"] = 0
  \/ /\ client[c] \in {"signalled", "asked"}
     /\ \/ main = "receive" /\ sem["S1"] = 1 /\ sem["C1"] = 0
        \/ /\ main \notin {"receive", "signalled"} /\ sem["S1"] = 0 /\ sem["C1"] = 0
           /\ main = "written" => Unread
        \/ /\ main \in {"receive", "signalled"} /\ sem["S1"] = 0 /\ sem["C1"] = 1
           /\ Unread
  \/ /\ client[c] \in {"taken", "given"}
     /\ main \in {"receive", "signalled"} /\ sem["S1"] = 0 /\ sem["C1"] = 0

OneAtATime ==
  /\ \A c, d \in Starting : c = d
  /\ \A c \in Starting : Token(c)

ChannelInvariant ==
  /\ ChannelTypes /\ MadeInTurn
  /\ transport = "shmem" => replies = << >>
  /\ transport # "shmem" \/ ~ met => Apart
  /\ transport = "shmem" /\ ~ met => OneAtATime

LEMMA ChannelStart == Init => ChannelInvariant
<1> SUFFICES ASSUME Init PROVE ChannelInvariant
  OBVIOUS
<1>1. ChannelTypes
  <2>1. sem \in [Semaphores -> Nat]
    BY DEF Init
  <2>2. requests = << >> /\ replies = << >> /\ requests \in Seq(Clients)
        /\ replies \in Seq([to : Clients \cup {None}, channel : Nat])
    BY DEF Init
  <2> QED
    BY <2>1, <2>2 DEF Init, ChannelTypes, None
<1>2. MadeInTurn /\ Apart /\ OneAtATime
  BY DEF Init, MadeInTurn, Apart, OneAtATime, Held, Starting, None
<1> QED
  BY <1>1, <1>2 DEF Init, ChannelInvariant

\* A client begins in shared memory: if it is alone, so is its token.
LEMMA ClearKeepsChannels ==
  ASSUME ChannelInvariant, NEW c \in Clients, ClearDefault(c) \/ FreeDefault(c)
  PROVE  ChannelInvariant'
<1> USE DEF ChannelInvariant, mainVars, MoveClient
<1>1. CASE ClearDefault(c)
  <2>1. /\ client[c] = "out" /\ client' = [client EXCEPT ![c] = "cleared"] /\ transport = "shmem"
        /\ sem' = [s \in Semaphores |-> 0] /\ met' = (met \/ ~ Quiet)
        /\ UNCHANGED <<transport, requests, replies, buffer, main, heard, newChannel, channel>>
    BY <1>1 DEF ClearDefault, ClearAll
  <2>2. ChannelTypes'
    BY <2>1 DEF ChannelTypes
  <2>3. \A d \in Clients : Held(d)' = Held(d)
    BY <2>1 DEF Held, ChannelTypes
  <2>4. MadeInTurn'
    BY <2>1, <2>3 DEF MadeInTurn
  <2>5. ~ met' => Apart'
    BY <2>1, <2>3 DEF Apart, ChannelTypes
  <2>6. ~ met' => OneAtATime'
    <3> SUFFICES ASSUME Quiet PROVE OneAtATime'
      BY <2>1
    <3>1. Starting' = {c} /\ client'[c] = "cleared"
      BY <2>1 DEF Quiet, Starting, ChannelTypes
    <3>2. main' = "receive" /\ sem'["S1"] = 0 /\ sem'["C1"] = 0
      BY <2>1 DEF Quiet, Semaphores
    <3> QED
      BY <3>1, <3>2 DEF OneAtATime, Token
  <2> QED
    BY <2>1, <2>2, <2>4, <2>5, <2>6
<1>2. CASE FreeDefault(c)
  <2>1. /\ client[c] = "cleared" /\ client' = [client EXCEPT ![c] = "ready"]
        /\ sem' = [sem EXCEPT !["C0"] = 1, !["S0"] = 1]
        /\ UNCHANGED <<transport, requests, replies, buffer, main, heard, newChannel, channel, met>>
    BY <1>2 DEF FreeDefault, FreeBoth
  <2>2. ChannelTypes'
    BY <2>1 DEF ChannelTypes
  <2>3. \A d \in Clients : Held(d)' = Held(d)
    BY <2>1 DEF Held, ChannelTypes
  <2>4. MadeInTurn' /\ (Apart => Apart')
    BY <2>1, <2>3 DEF MadeInTurn, Apart
  <2>5. sem'["S1"] = sem["S1"] /\ sem'["C1"] = sem["C1"] /\ Starting' = Starting
    BY <2>1 DEF ChannelTypes, Semaphores, Starting
  <2>6. OneAtATime => OneAtATime'
    BY <2>1, <2>3, <2>5 DEF OneAtATime, Token, Unread, ChannelTypes, Starting
  <2> QED
    BY <2>1, <2>2, <2>4, <2>6
<1> QED
  BY <1>1, <1>2

\* A client asks, or its process ends: it holds no channel before or after, and the
\* permit it gives is the request's.
LEMMA AskKeepsChannels ==
  ASSUME ChannelInvariant, NEW c \in Clients,
         \/ Ask(c) /\ UNCHANGED <<transport, replies, buffer, mainVars, channel>>
         \/ Killed(c) \/ ClientFails(c)
  PROVE  ChannelInvariant'
<1> USE DEF ChannelInvariant, mainVars, wireVars, MoveClient
<1>1. UNCHANGED <<transport, replies, buffer, main, heard, newChannel, channel>>
  BY DEF Killed, ClientFails
<1>2. ChannelTypes'
  <2>1. sem' \in [Semaphores -> Nat]
    <3>1. sem \in [Semaphores -> Nat] /\ {"S0", "S1"} \subseteq Semaphores
      BY DEF ChannelTypes, Semaphores
    <3>2. sem' = sem \/ Take("S0") \/ Give("S1") \/ Lower("S0")
      BY DEF Ask, Killed, ClientFails
    <3> QED
      BY <3>1, <3>2 DEF Take, Give, Lower
  <2>2. requests' \in Seq(Clients) /\ met' \in BOOLEAN
    <3>1. requests' = requests \/ requests' = Append(requests, c)
      BY DEF Ask, Killed, ClientFails
    <3>2. met' = met \/ met' = (met \/ ~ Quiet)
      BY DEF Ask, Killed, ClientFails
    <3>3. Append(requests, c) \in Seq(Clients)
      BY AppendProperties DEF ChannelTypes
    <3>4. (met \/ ~ Quiet) \in BOOLEAN /\ met \in BOOLEAN
      BY DEF ChannelTypes
    <3>5. met' \in BOOLEAN
      BY <3>2, <3>4
    <3> QED
      BY <3>1, <3>3, <3>5 DEF ChannelTypes
  <2>3. client' \in [Clients -> {"out", "cleared", "ready", "written", "signalled", "asked",
                                 "taken", "given", "told", "killed", "crashed"}]
    BY DEF Ask, Killed, ClientFails, ChannelTypes
  <2> QED
    BY <1>1, <2>1, <2>2, <2>3 DEF ChannelTypes
<1>3. \A d \in Clients : Held(d)' => Held(d)
  BY DEF Ask, Killed, ClientFails, Held, ChannelTypes
<1>4. MadeInTurn' /\ (Apart => Apart')
  BY <1>1, <1>3 DEF MadeInTurn, Apart
<1>5. transport # "shmem" \/ ~ met' => Apart'
  BY <1>1, <1>4 DEF Ask, Killed, ClientFails
<1>6. ASSUME transport = "shmem", ~ met'
      PROVE  OneAtATime'
  <2>1. OneAtATime /\ Starting' \subseteq Starting
    BY <1>6 DEF Ask, Killed, ClientFails, Starting, ChannelTypes
  <2> SUFFICES ASSUME NEW d \in Starting' PROVE Token(d)'
    BY <2>1 DEF OneAtATime
  <2>2. d \in Clients /\ Token(d)
    BY <2>1 DEF OneAtATime, Starting
  <2>3. CASE Killed(c) \/ ClientFails(c)
    <3>1. client'[d] = client[d] /\ sem' = sem
      BY <2>2, <2>3 DEF Killed, ClientFails, Starting, ChannelTypes
    <3> QED
      BY <1>1, <1>3, <2>2, <3>1 DEF Token, Unread
  <2>4. CASE Ask(c)
    <3>1. d = c /\ c \in Starting
      BY <1>6, <2>1, <2>4 DEF Ask, OneAtATime, Starting, ChannelTypes
    <3>2. CASE client[c] = "ready" /\ Take("S0") /\ MoveClient(c, "written")
      BY <1>1, <2>2, <3>1, <3>2 DEF Take, Token, ChannelTypes, Semaphores
    <3>3. CASE client[c] = "written" /\ Give("S1") /\ MoveClient(c, "signalled")
      BY <1>1, <2>2, <3>1, <3>3 DEF Give, Token, ChannelTypes, Semaphores
    <3>4. CASE client[c] = "signalled" /\ Lower("S0") /\ MoveClient(c, "asked")
      <4>1. /\ sem'["S1"] = sem["S1"] /\ sem'["C1"] = sem["C1"]
            /\ client'[d] = "asked" /\ client[d] = "signalled"
        BY <3>1, <3>4 DEF Lower, ChannelTypes, Semaphores
      <4> QED
        BY <1>1, <1>3, <2>2, <4>1 DEF Token, Unread
    <3> QED
      BY <1>6, <2>4, <3>2, <3>3, <3>4 DEF Ask
  <2> QED
    BY <2>3, <2>4, <1>6
<1> QED
  BY <1>1, <1>2, <1>4, <1>5, <1>6
\* What is left of a sequence without its i-th element, and where it was.
Dropped(s, i) == SubSeq(s, 1, i - 1) \o SubSeq(s, i + 1, Len(s))
Was(i, j) == IF j < i THEN j ELSE j + 1

LEMMA WithoutOne ==
  ASSUME NEW S, NEW s \in Seq(S), NEW i \in 1 .. Len(s)
  PROVE  /\ Dropped(s, i) \in Seq(S) /\ Len(Dropped(s, i)) = Len(s) - 1
         /\ \A j \in 1 .. Len(Dropped(s, i)) : Dropped(s, i)[j] = s[Was(i, j)]
<1> DEFINE t == Dropped(s, i)
           a == SubSeq(s, 1, i - 1)
           b == SubSeq(s, i + 1, Len(s))
<1>1. Len(s) \in Nat /\ i \in Int /\ \A j \in 1 .. Len(s) : s[j] \in S
  OBVIOUS
<1>2. a \in Seq(S) /\ Len(a) = i - 1 /\ \A j \in 1 .. i - 1 : a[j] = s[j]
  <2>1. \A j \in 1 .. i - 1 : s[j] \in S
    BY <1>1
  <2>2. /\ a \in Seq(S) /\ Len(a) = (IF 1 <= i - 1 THEN (i - 1) - 1 + 1 ELSE 0)
        /\ \A j \in 1 .. (i - 1) - 1 + 1 : a[j] = s[1 + j - 1]
    BY <1>1, <2>1, SubSeqProperties
  <2> QED
    BY <1>1, <2>2
<1>3. b \in Seq(S) /\ Len(b) = Len(s) - i /\ \A j \in 1 .. Len(s) - i : b[j] = s[i + j]
  <2>1. \A j \in i + 1 .. Len(s) : s[j] \in S
    BY <1>1
  <2>2. /\ b \in Seq(S) /\ Len(b) = (IF i + 1 <= Len(s) THEN Len(s) - (i + 1) + 1 ELSE 0)
        /\ \A j \in 1 .. Len(s) - (i + 1) + 1 : b[j] = s[(i + 1) + j - 1]
    BY <1>1, <2>1, SubSeqProperties
  <2> QED
    BY <1>1, <2>2
<1>4. t = a \o b
  BY DEF Dropped
<1> HIDE DEF a, b, t
<1>5. /\ t \in Seq(S) /\ Len(t) = Len(a) + Len(b)
      /\ \A j \in 1 .. Len(a) + Len(b) : t[j] = IF j <= Len(a) THEN a[j] ELSE b[j - Len(a)]
  <2>1. a \in Seq(S) /\ b \in Seq(S)
    BY <1>2, <1>3
  <2> QED
    BY ONLY <1>4, <2>1, ConcatProperties
<1>6. Len(t) = Len(s) - 1
  <2>1. /\ Len(s) \in Nat /\ i \in Int /\ Len(a) = i - 1 /\ Len(b) = Len(s) - i
        /\ Len(t) = Len(a) + Len(b)
    BY <1>1, <1>2, <1>3, <1>5
  <2> QED
    BY ONLY <2>1
<1>7. ASSUME NEW j \in 1 .. Len(t)
      PROVE  t[j] = s[Was(i, j)]
  <2>1. CASE j < i
    BY <1>1, <1>2, <1>3, <1>5, <1>6, <2>1 DEF Was
  <2>2. CASE ~ (j < i)
    <3>1. j - Len(a) \in 1 .. Len(s) - i /\ ~ (j <= Len(a)) /\ i + (j - Len(a)) = j + 1
      <4>1. Len(a) = i - 1 /\ Len(s) \in Nat /\ i \in 1 .. Len(s) /\ j \in 1 .. Len(s) - 1
        BY <1>1, <1>2, <1>6
      <4> QED
        BY ONLY <4>1, <2>2
    <3> QED
      BY <1>1, <1>2, <1>3, <1>5, <1>6, <2>2, <3>1 DEF Was
  <2> QED
    BY <2>1, <2>2
<1> QED
  BY <1>5, <1>6, <1>7 DEF t

\* A client reads a reply: the channel moves from the wire to the client.
LEMMA HearKeepsChannels ==
  ASSUME ChannelInvariant, NEW c \in Clients, HearReply(c),
         UNCHANGED <<transport, requests, buffer, mainVars, met>>
  PROVE  ChannelInvariant'
<1> USE DEF ChannelInvariant
<1> DEFINE R == [to : Clients \cup {None}, channel : Nat]
<1>0. replies \in Seq(R) /\ \A r \in R : r.channel \in Nat
  BY DEF ChannelTypes
<1> HIDE DEF R
<1>1. UNCHANGED <<transport, requests, buffer, main, heard, newChannel, met>>
  BY DEF mainVars
<1>2. CASE /\ transport # "shmem" /\ client[c] = "asked" /\ replies # << >>
           /\ client' = [client EXCEPT ![c] = "told"] /\ sem' = sem
           /\ \E i \in 1 .. Len(replies) :
                /\ channel' = [channel EXCEPT ![c] = replies[i].channel]
                /\ replies' \in Seq(R)
                /\ \A j \in 1 .. Len(replies') : /\ replies'[j] = replies[Was(i, j)]
                                                 /\ Was(i, j) \in 1 .. Len(replies)
  <2>1. PICK i \in 1 .. Len(replies) :
                /\ channel' = [channel EXCEPT ![c] = replies[i].channel]
                /\ replies' \in Seq(R)
                /\ \A j \in 1 .. Len(replies') : /\ replies'[j] = replies[Was(i, j)]
                                                 /\ Was(i, j) \in 1 .. Len(replies)
    BY <1>2
  <2>2. /\ i \in Nat /\ Len(replies') \in Nat
        /\ \A j, k \in 1 .. Len(replies') : /\ Was(i, j) # i
                                            /\ j # k => Was(i, j) # Was(i, k)
    BY <2>1 DEF Was
  <2>3. replies[i].channel \in Nat
    <3>1. replies[i] \in R
      BY <1>0
    <3> QED
      BY <1>0, <3>1
  <2>4. ChannelTypes'
    BY <1>1, <1>2, <2>1, <2>3 DEF ChannelTypes, R
  <2>5. \A d \in Clients : /\ Held(d)' <=> Held(d) \/ d = c
                           /\ channel'[d] = IF d = c THEN replies[i].channel ELSE channel[d]
                           /\ ~ Held(c)
    BY <1>2, <2>1 DEF Held, ChannelTypes
  <2>6. MadeInTurn'
    BY <1>1, <2>1, <2>5 DEF MadeInTurn
  <2>7. Apart'
    <3>1. Apart
      BY <1>2
    <3>2. \A d, e \in Clients : Held(d)' /\ Held(e)' /\ d # e => channel'[d] # channel'[e]
      BY <2>5, <3>1 DEF Apart
    <3>3. \A j, k \in 1 .. Len(replies') : j # k => replies'[j].channel # replies'[k].channel
      <4> SUFFICES ASSUME NEW j \in 1 .. Len(replies'), NEW k \in 1 .. Len(replies'), j # k
                   PROVE  replies'[j].channel # replies'[k].channel
        OBVIOUS
      <4>1. /\ Was(i, j) \in 1 .. Len(replies) /\ replies'[j] = replies[Was(i, j)]
            /\ Was(i, k) \in 1 .. Len(replies) /\ replies'[k] = replies[Was(i, k)]
            /\ Was(i, j) # Was(i, k)
        BY <2>1, <2>2
      <4> QED
        BY <3>1, <4>1 DEF Apart
    <3>4. \A d \in Clients, j \in 1 .. Len(replies') : Held(d)' => channel'[d] # replies'[j].channel
      <4> SUFFICES ASSUME NEW d \in Clients, NEW j \in 1 .. Len(replies'), Held(d)'
                   PROVE  channel'[d] # replies'[j].channel
        OBVIOUS
      <4>1. /\ Was(i, j) \in 1 .. Len(replies) /\ replies'[j] = replies[Was(i, j)]
            /\ Was(i, j) # i
        BY <2>1, <2>2
      <4>2. CASE d = c
        <5>1. replies[i].channel # replies[Was(i, j)].channel
          BY <3>1, <4>1 DEF Apart
        <5>2. channel'[d] = replies[i].channel
          BY <2>5, <4>2
        <5> QED
          BY ONLY <4>1, <5>1, <5>2
      <4>3. CASE d # c
        <5>1. Held(d) /\ channel'[d] = channel[d]
          BY <2>5, <4>3
        <5>2. channel[d] # replies[Was(i, j)].channel
          BY <3>1, <4>1, <5>1 DEF Apart
        <5> QED
          BY ONLY <4>1, <5>1, <5>2
      <4> QED
        BY <4>2, <4>3
    <3> QED
      BY <3>2, <3>3, <3>4 DEF Apart
  <2> QED
    BY <1>1, <1>2, <2>4, <2>6, <2>7
<1>3. CASE /\ transport = "shmem" /\ client[c] = "asked" /\ Take("C1") /\ replies' = replies
           /\ channel' = [channel EXCEPT ![c] = buffer]
           /\ client' = [client EXCEPT ![c] = "taken"]
  <2>1. /\ sem["C1"] > 0 /\ sem'["C1"] = sem["C1"] - 1 /\ sem'["S1"] = sem["S1"]
        /\ sem' \in [Semaphores -> Nat]
    BY <1>3 DEF Take, ChannelTypes, Semaphores
  <2>2. ChannelTypes'
    BY <1>1, <1>3, <2>1 DEF ChannelTypes
  <2>3. \A d \in Clients : /\ Held(d)' <=> Held(d) \/ d = c
                           /\ channel'[d] = IF d = c THEN buffer ELSE channel[d]
                           /\ ~ Held(c)
    BY <1>3 DEF Held, ChannelTypes
  <2>4. MadeInTurn'
    BY <1>1, <1>3, <2>3 DEF MadeInTurn
  <2>5. ASSUME ~ met PROVE Apart' /\ OneAtATime'
    <3>1. c \in Starting /\ Starting' = Starting /\ client'[c] = "taken"
      BY <1>3 DEF Starting, ChannelTypes
    <3>2. Token(c) /\ \A d \in Starting : d = c
      BY <1>3, <2>5, <3>1 DEF OneAtATime
    <3>3. Unread /\ main \in {"receive", "signalled"} /\ sem["S1"] = 0 /\ sem["C1"] = 1
      BY <1>3, <2>1, <3>2 DEF Token
    <3>4. Apart'
      BY <1>3, <2>3, <2>5, <3>3 DEF Apart, Unread
    <3>5. Token(c)'
      BY <1>1, <2>1, <3>1, <3>3 DEF Token
    <3> QED
      BY <3>1, <3>2, <3>4, <3>5 DEF OneAtATime
  <2> QED
    BY <1>1, <1>3, <2>2, <2>4, <2>5
<1>4. CASE /\ UNCHANGED <<replies, channel>>
           /\ \/ client[c] = "taken" /\ Give("C0") /\ client' = [client EXCEPT ![c] = "given"]
              \/ client[c] = "given" /\ Lower("C1") /\ client' = [client EXCEPT ![c] = "told"]
  <2>1. \A d \in Clients : Held(d)' = Held(d)
    BY <1>4 DEF Held, ChannelTypes
  <2>2. sem' \in [Semaphores -> Nat]
    <3>1. sem \in [Semaphores -> Nat] /\ {"C0", "C1"} \subseteq Semaphores
      BY DEF ChannelTypes, Semaphores
    <3>2. Give("C0") \/ Lower("C1")
      BY <1>4
    <3> QED
      BY ONLY <3>1, <3>2 DEF Give, Lower
  <2>3. ChannelTypes'
    BY <1>1, <1>4, <2>2 DEF ChannelTypes
  <2>4. MadeInTurn' /\ (Apart => Apart')
    BY <1>1, <1>4, <2>1 DEF MadeInTurn, Apart
  <2>5. ASSUME OneAtATime PROVE OneAtATime'
    <3>1. c \in Starting /\ Token(c) /\ \A d \in Starting : d = c
      BY <1>4, <2>5 DEF OneAtATime, Starting
    <3>2. Starting' \subseteq Starting
      BY <1>4 DEF Starting, ChannelTypes
    <3>3. CASE client'[c] = "given"
      <4>1. sem'["S1"] = sem["S1"] /\ sem'["C1"] = sem["C1"] /\ client[c] = "taken"
        BY <1>4, <3>3 DEF Give, ChannelTypes, Semaphores
      <4>2. Token(c)'
        BY <1>1, <3>1, <3>3, <4>1 DEF Token
      <4> QED
        BY <3>1, <3>2, <4>2 DEF OneAtATime
    <3>4. CASE client'[c] = "told"
      BY <3>1, <3>2, <3>4 DEF OneAtATime, Starting
    <3>5. client'[c] \in {"given", "told"}
      BY <1>4 DEF ChannelTypes
    <3> QED
      BY <3>3, <3>4, <3>5
  <2> QED
    BY <1>1, <1>4, <2>3, <2>4, <2>5
<1>5. ASSUME transport # "shmem", replies # << >>
      PROVE  /\ Len(replies) \in Nat \ {0} /\ << >> \in Seq(R) /\ Len(<< >>) = 0
             /\ Head(replies) = replies[1]
             /\ Tail(replies) \in Seq(R) /\ Len(Tail(replies)) = Len(replies) - 1
             /\ \A j \in 1 .. Len(Tail(replies)) : Tail(replies)[j] = replies[j + 1]
  <2>1. Len(replies) \in Nat \ {0} /\ << >> \in Seq(R) /\ Len(<< >>) = 0
    BY <1>0, <1>5, EmptySeq
  <2> QED
    BY <1>0, <1>5, <2>1, HeadTailProperties
<1>6. CASE /\ transport # "shmem" /\ client[c] = "asked" /\ replies # << >>
           /\ MoveClient(c, "told") /\ sem' = sem
           /\ channel' = [channel EXCEPT ![c] = Head(replies).channel]
           /\ replies' \in {<< >>, Tail(replies)}
  <2>1. /\ 1 \in 1 .. Len(replies)
        /\ channel' = [channel EXCEPT ![c] = replies[1].channel]
        /\ replies' \in Seq(R)
        /\ \A j \in 1 .. Len(replies') : /\ replies'[j] = replies[Was(1, j)]
                                         /\ Was(1, j) \in 1 .. Len(replies)
    <3> DEFINE h == Head(replies)
               u == Tail(replies)
    <3>1. /\ Len(replies) \in Nat \ {0} /\ << >> \in Seq(R) /\ Len(<< >>) = 0 /\ h = replies[1]
          /\ u \in Seq(R) /\ Len(u) = Len(replies) - 1
          /\ \A j \in 1 .. Len(u) : u[j] = replies[j + 1]
      BY <1>5, <1>6
    <3>2. /\ channel' = [channel EXCEPT ![c] = h.channel]
          /\ replies' = << >> \/ replies' = u
      BY <1>6
    <3> HIDE DEF h, u
    <3>3. 1 \in 1 .. Len(replies) /\ channel' = [channel EXCEPT ![c] = replies[1].channel]
      BY ONLY <3>1, <3>2
    <3>4. CASE replies' = << >>
      BY ONLY <3>1, <3>3, <3>4
    <3>5. CASE replies' = u
      BY ONLY <3>1, <3>3, <3>5 DEF Was
    <3> QED
      BY <3>2, <3>4, <3>5
  <2> QED
    BY <1>2, <1>6, <2>1 DEF MoveClient
<1>7. CASE /\ transport # "shmem" /\ client[c] = "asked" /\ replies # << >>
           /\ MoveClient(c, "told") /\ sem' = sem
           /\ \E i \in 1 .. Len(replies) :
                /\ channel' = [channel EXCEPT ![c] = replies[i].channel]
                /\ replies' = SubSeq(replies, 1, i - 1) \o SubSeq(replies, i + 1, Len(replies))
  <2>1. PICK i \in 1 .. Len(replies) :
                /\ channel' = [channel EXCEPT ![c] = replies[i].channel]
                /\ replies' = SubSeq(replies, 1, i - 1) \o SubSeq(replies, i + 1, Len(replies))
    BY <1>7
  <2>2. /\ replies' \in Seq(R) /\ Len(replies') = Len(replies) - 1
        /\ \A j \in 1 .. Len(replies') : replies'[j] = replies[Was(i, j)]
    <3> DEFINE u == Dropped(replies, i)
    <3>1. /\ u \in Seq(R) /\ Len(u) = Len(replies) - 1
          /\ \A j \in 1 .. Len(u) : u[j] = replies[Was(i, j)]
      BY ONLY <1>0, WithoutOne
    <3>2. replies' = u
      BY <2>1 DEF Dropped
    <3> HIDE DEF u
    <3> QED
      BY ONLY <3>1, <3>2
  <2>3. \A j \in 1 .. Len(replies') : Was(i, j) \in 1 .. Len(replies)
    <3>1. Len(replies) \in Nat /\ i \in 1 .. Len(replies) /\ Len(replies') = Len(replies) - 1
      BY <1>5, <1>7, <2>2
    <3> QED
      BY ONLY <3>1 DEF Was
  <2> QED
    BY <1>2, <1>7, <2>1, <2>2, <2>3 DEF MoveClient
<1> QED
  BY <1>3, <1>4, <1>6, <1>7 DEF HearReply, MoveClient
\* main reads a request; the request's permit becomes main's.
LEMMA ReceiveKeepsChannels ==
  ASSUME ChannelInvariant, Receive
  PROVE  ChannelInvariant'
<1> USE DEF ChannelInvariant
<1>1. UNCHANGED <<transport, replies, buffer, newChannel, client, channel, met>>
  BY DEF Receive, clientVars
<1>2. \A d \in Clients : Held(d)' = Held(d)
  BY <1>1 DEF Held
<1>3. main \in {"receive", "taken", "given"} /\ main' \in {"taken", "given", "name"}
  BY DEF Receive
<1>4. MadeInTurn' /\ (Apart => Apart')
  BY <1>1, <1>2, <1>3 DEF MadeInTurn, Apart
<1>5. sem' \in [Semaphores -> Nat]
  <2>1. sem \in [Semaphores -> Nat] /\ {"S0", "S1"} \subseteq Semaphores
    BY DEF ChannelTypes, Semaphores
  <2>2. sem' = sem \/ Take("S1") \/ Give("S0") \/ Lower("S1")
    BY DEF Receive
  <2> QED
    BY <2>1, <2>2 DEF Take, Give, Lower
<1>6. requests' \in Seq(Clients) /\ heard' \in Clients \cup {None}
  <2>1. requests \in Seq(Clients) /\ heard \in Clients \cup {None} /\ << >> \in Seq(Clients)
    BY EmptySeq DEF ChannelTypes
  <2>2. \/ requests' = requests /\ heard' = heard
        \/ requests # << >> /\ heard' = Head(requests) /\ requests' \in {<< >>, Tail(requests)}
    BY DEF Receive
  <2>3. requests # << >> => Head(requests) \in Clients /\ Tail(requests) \in Seq(Clients)
    BY <2>1, HeadTailProperties
  <2> QED
    BY ONLY <2>1, <2>2, <2>3
<1>7. ChannelTypes'
  BY <1>1, <1>3, <1>5, <1>6 DEF ChannelTypes
<1>8. ASSUME transport = "shmem", OneAtATime
      PROVE  OneAtATime'
  <2>1. Starting' = Starting /\ \A d, e \in Starting : d = e
    BY <1>1, <1>8 DEF Starting, OneAtATime
  <2> SUFFICES ASSUME NEW d \in Starting PROVE Token(d)'
    BY <2>1 DEF OneAtATime
  <2>2. Token(d) /\ client'[d] = client[d]
    BY <1>1, <1>8 DEF OneAtATime
  <2>3. CASE main = "receive" /\ Take("S1") /\ main' = "taken"
    <3>1. sem["S1"] > 0 /\ sem'["S1"] = sem["S1"] - 1 /\ sem'["C1"] = sem["C1"]
      BY <2>3 DEF Take, ChannelTypes, Semaphores
    <3> QED
      BY <2>2, <2>3, <3>1 DEF Token
  <2>4. CASE main \in {"taken", "given"}
    <3>1. /\ sem["S1"] = 0 /\ sem["C1"] = 0 /\ client[d] \in {"signalled", "asked"}
      BY <2>2, <2>4 DEF Token
    <3>2. Give("S0") \/ Lower("S1")
      BY <1>8, <2>4 DEF Receive
    <3>3. sem'["S1"] = 0 /\ sem'["C1"] = 0
      BY <3>1, <3>2 DEF Give, Lower, ChannelTypes, Semaphores
    <3> QED
      BY <1>3, <2>2, <3>1, <3>3 DEF Token
  <2> QED
    BY <1>8, <2>3, <2>4 DEF Receive
<1> QED
  BY <1>1, <1>4, <1>7, <1>8

\* main names and makes a channel, which is nobody's yet, and a thread.
LEMMA MakeKeepsChannels ==
  ASSUME ChannelInvariant, GetNextChannel \/ CreateChannel \/ Spawn
  PROVE  ChannelInvariant'
<1> USE DEF ChannelInvariant
<1>1. /\ UNCHANGED <<transport, requests, replies, sem, buffer, heard, client, channel, met>>
      /\ main \in {"name", "create", "spawn"} /\ main' \in {"create", "spawn", "reply"}
  BY DEF GetNextChannel, CreateChannel, Spawn, wireVars, clientVars
<1>2. \A d \in Clients : Held(d)' = Held(d)
  BY <1>1 DEF Held
<1>3. \/ /\ main = "name" /\ main' = "create"
         /\ newChannel' = [newChannel EXCEPT !.name = newChannel.name + 1]
      \/ /\ main = "create" /\ main' = "spawn"
         /\ newChannel' = [newChannel EXCEPT !.made = newChannel.name]
      \/ main = "spawn" /\ main' = "reply" /\ newChannel' = newChannel
  BY DEF GetNextChannel, CreateChannel, Spawn, NextNumber
<1>4. ChannelTypes'
  <2>1. newChannel' \in [name : Nat, made : Nat]
    BY <1>3 DEF ChannelTypes
  <2> QED
    BY <1>1, <2>1 DEF ChannelTypes
<1>5. newChannel \in [name : Nat, made : Nat] /\ channel \in [Clients -> Nat] /\ buffer \in Nat
  BY DEF ChannelTypes
<1>6. \A i \in 1 .. Len(replies) : replies[i].channel \in Nat
  <2> DEFINE R == [to : Clients \cup {None}, channel : Nat]
  <2>1. replies \in Seq(R) /\ \A r \in R : r.channel \in Nat
    BY DEF ChannelTypes
  <2> HIDE DEF R
  <2> QED
    BY <2>1
<1>7. MadeInTurn'
  BY <1>1, <1>2, <1>3, <1>5, <1>6 DEF MadeInTurn
<1>8. Apart => Apart'
  BY <1>1, <1>2 DEF Apart
<1>9. OneAtATime => OneAtATime'
  BY <1>1 DEF OneAtATime, Starting, Token
<1> QED
  BY <1>1, <1>4, <1>7, <1>8, <1>9

\* main replies: the channel goes from main to the wire.
LEMMA ReplyKeepsChannels ==
  ASSUME ChannelInvariant, Reply
  PROVE  ChannelInvariant'
<1> USE DEF ChannelInvariant
<1>1. UNCHANGED <<transport, requests, heard, newChannel, client, channel, met>>
  BY DEF Reply, clientVars
<1>2. \A d \in Clients : Held(d)' = Held(d)
  BY <1>1 DEF Held
<1>3. newChannel \in [name : Nat, made : Nat] /\ channel \in [Clients -> Nat] /\ buffer \in Nat
  BY DEF ChannelTypes
<1> DEFINE R == [to : Clients \cup {None}, channel : Nat]
           r == [to |-> heard, channel |-> newChannel.made]
<1>4. /\ replies \in Seq(R) /\ r \in R /\ r.channel = newChannel.made
      /\ \A x \in R : x.channel \in Nat
  BY <1>3 DEF ChannelTypes
<1>5. CASE transport # "shmem" /\ main = "reply" /\ main' = "receive" /\ replies' = Append(replies, r)
           /\ UNCHANGED <<sem, buffer>>
  <2> HIDE DEF R, r
  <2>1. /\ replies' \in Seq(R) /\ Len(replies') = Len(replies) + 1 /\ Len(replies) \in Nat
        /\ \A i \in 1 .. Len(replies) : replies'[i] = replies[i]
        /\ replies'[Len(replies) + 1] = r
    BY <1>4, <1>5, AppendProperties
  <2>2. ChannelTypes'
    BY <1>1, <1>5, <2>1 DEF ChannelTypes, R
  <2>3. \A i \in 1 .. Len(replies') : i \in 1 .. Len(replies) \/ i = Len(replies) + 1
    BY <2>1
  <2>4. MadeInTurn'
    BY <1>1, <1>2, <1>3, <1>4, <1>5, <2>1, <2>3 DEF MadeInTurn
  <2>5. Apart'
    <3>1. Apart /\ MadeInTurn
      BY <1>5
    <3>2. \A i, j \in 1 .. Len(replies') : i # j => replies'[i].channel # replies'[j].channel
      BY <1>4, <1>5, <2>1, <2>3, <3>1 DEF Apart, MadeInTurn
    <3>3. \A c \in Clients, i \in 1 .. Len(replies') : Held(c) => channel[c] # replies'[i].channel
      BY <1>4, <1>5, <2>1, <2>3, <3>1 DEF Apart, MadeInTurn
    <3> QED
      BY <1>1, <1>2, <3>1, <3>2, <3>3 DEF Apart
  <2> QED
    BY <1>1, <1>5, <2>2, <2>4, <2>5
<1>6. CASE /\ replies' = replies /\ main \in {"reply", "written", "signalled"}
           /\ \/ transport = "shmem" /\ main = "reply" /\ Take("C0") /\ main' = "written"
                 /\ buffer' = newChannel.made
              \/ main = "written" /\ Give("C1") /\ main' = "signalled" /\ buffer' = buffer
              \/ main = "signalled" /\ Lower("C0") /\ main' = "receive" /\ buffer' = buffer
  <2>1. sem' \in [Semaphores -> Nat]
    <3>1. sem \in [Semaphores -> Nat] /\ {"C0", "C1"} \subseteq Semaphores
      BY DEF ChannelTypes, Semaphores
    <3> QED
      BY <1>6, <3>1 DEF Take, Give, Lower
  <2>2. ChannelTypes'
    BY <1>1, <1>3, <1>6, <2>1 DEF ChannelTypes
  <2>3. MadeInTurn' /\ (Apart => Apart')
    BY <1>1, <1>2, <1>3, <1>6 DEF MadeInTurn, Apart
  <2>4. ASSUME OneAtATime PROVE OneAtATime'
    <3>1. Starting' = Starting /\ \A d, e \in Starting : d = e
      BY <1>1, <2>4 DEF Starting, OneAtATime
    <3> SUFFICES ASSUME NEW d \in Starting PROVE Token(d)'
      BY <3>1 DEF OneAtATime
    <3>2. Token(d) /\ client'[d] = client[d]
      BY <1>1, <2>4 DEF OneAtATime
    <3>3. CASE main = "reply" /\ Take("C0") /\ main' = "written" /\ buffer' = newChannel.made
      <4>1. sem'["S1"] = sem["S1"] /\ sem'["C1"] = sem["C1"]
        BY <3>3 DEF Take, ChannelTypes, Semaphores
      <4>2. Unread'
        BY <1>1, <1>2, <3>3 DEF Unread, MadeInTurn
      <4> QED
        BY <3>2, <3>3, <4>1, <4>2 DEF Token
    <3>4. CASE main = "written" /\ Give("C1") /\ main' = "signalled" /\ buffer' = buffer
      <4>1. sem'["S1"] = sem["S1"] /\ sem'["C1"] = sem["C1"] + 1
        BY <3>4 DEF Give, ChannelTypes, Semaphores
      <4>2. Unread => Unread'
        BY <1>1, <1>2, <3>4 DEF Unread
      <4> QED
        BY <3>2, <3>4, <4>1, <4>2 DEF Token
    <3>5. CASE main = "signalled" /\ Lower("C0") /\ main' = "receive" /\ buffer' = buffer
      <4>1. sem'["S1"] = sem["S1"] /\ sem'["C1"] = sem["C1"]
        BY <3>5 DEF Lower, ChannelTypes, Semaphores
      <4>2. Unread => Unread'
        BY <1>1, <1>2, <3>5 DEF Unread
      <4> QED
        BY <3>2, <3>5, <4>1, <4>2 DEF Token
    <3> QED
      BY <1>6, <3>3, <3>4, <3>5
  <2> QED
    BY <1>1, <1>6, <2>2, <2>3, <2>4
<1> QED
  BY <1>5, <1>6 DEF Reply

\* The threads do not touch the default channel, nor what clients were told.
LEMMA ServersKeepChannels ==
  ASSUME ChannelInvariant,
         \/ \E n \in Threads : StartServer(n) \/ Expire(n)
         \/ ServerFails \/ UNCHANGED vars
  PROVE  ChannelInvariant'
<1>1. UNCHANGED <<transport, wireVars, main, heard, newChannel, clientVars>>
  BY DEF StartServer, ConnectServer, ReadMax, WriteMax, Expire, ServerFails, vars, mainVars
<1> QED
  BY <1>1 DEF ChannelInvariant, ChannelTypes, MadeInTurn, Apart, OneAtATime, Starting, Token,
              Unread, Held, wireVars, clientVars

\* getNextChannel, createChannel and the four transports: however many clients
\* come and are killed, and whoever reads whose reply, no two are told of one
\* channel, but in a shared memory that two set at once.
THEOREM ChannelsAreNotShared == Spec => []NoSharedChannel
<1>1. Init => ChannelInvariant
  BY ChannelStart
<1>2. ChannelInvariant /\ [Next]_vars => ChannelInvariant'
  BY ClearKeepsChannels, AskKeepsChannels, HearKeepsChannels, ReceiveKeepsChannels,
     MakeKeepsChannels, ReplyKeepsChannels, ServersKeepChannels
     DEF Next, Main, Connect, mainVars
<1>3. ChannelInvariant => NoSharedChannel
  BY DEF ChannelInvariant, ChannelTypes, Apart, Held, Told, NoSharedChannel
<1> QED
  BY <1>1, <1>2, <1>3, PTL DEF Spec
-----------------------------------------------------------------------------
(* The shared-memory channel.                                              *)

\* The places of each process.
ShmemShape ==
  /\ pc["shell"] \in {"connecting", "idle", "waiting", "sending", "writing", "written", "lowering"}
  /\ pc["receiver"] \in {"idle", "receiving", "reading", "read", "emptying"}
  /\ pc["server"] \in Places \ {"idle", "waiting"}
  /\ pc["draft"] \in {"idle", "sending", "writing", "written", "lowering"}
  /\ pc["shell"] = "connecting" <=> connects["shell"] > 0
  /\ pc["server"] = "connecting" <=> connects["server"] > 0
  /\ pc["receiver"] = "idle" <=> pc["shell"] = "connecting"
  /\ connects["server"] <= 2

\* What each sends and has sent.
ShmemKinds ==
  /\ kind["shell"] \in {"request", "answer"}
  /\ pc["shell"] = "waiting" => kind["shell"] = "request"
  /\ pc["shell"] \in {"written", "lowering", "waiting"} => memory["S"].kind = kind["shell"]
  /\ pc["server"] \in {"sending", "writing", "written", "lowering"} => kind["server"] = "reply"
  /\ pc["server"] = "written" => memory["C"].kind = "reply"
  /\ pc["draft"] # "idle" => kind["draft"] = "prompt"
  /\ pc["draft"] = "written" => memory["C"].kind = "prompt"

N(b) == IF b THEN 1 ELSE 0

Puts(p) == N(pc[p] \in {"writing", "written"})
Gets(p) == N(pc[p] \in {"reading", "read"})

\* Until the server has read the first request, nothing comes back.
ShmemStart ==
  /\ "connecting" \in {pc["shell"], pc["server"]} => received["S"] = 0
  /\ pc["shell"] = "connecting" => sent["S"] = 0 /\ full["S"] = 0
  /\ received["S"] = 0 =>
       /\ pc["server"] \in {"connecting", "receiving", "reading"}
       /\ pc["draft"] = "idle" /\ pc["receiver"] \in {"idle", "receiving"}
       /\ full["C"] = 0 /\ sent["C"] = 0 /\ received["C"] = 0
       /\ owed = 0 /\ wakeups = 0
       /\ kind["shell"] = "request"
       /\ pc["shell"] \in {"idle", "sending"} => full["S"] = 0
       /\ Puts("shell") + full["S"] + Gets("server") = 0 => sent["S"] = 0

\* To the client there is one permit, whoever has it.
ClientPermit ==
  /\ free["C"] + Puts("server") + Puts("draft") + full["C"] + Gets("receiver") <= 1
  /\ free["C"] = 1 \/ "writing" \in {pc["server"], pc["draft"]} \/ pc["receiver"] = "read"
       => sent["C"] = received["C"]
  /\ "written" \in {pc["server"], pc["draft"]} \/ full["C"] = 1 \/ pc["receiver"] = "reading"
       => sent["C"] = received["C"] + 1 /\ memory["C"].number = sent["C"]

\* To the server there may be two: one in the buffer the server has declared
\* free after the client has filled it.  It is no use to a shell that waits for
\* the reply, and gone with the next message the shell sends.
InFlight == Puts("shell") + full["S"] + Gets("server")

ServerPermit ==
  /\ InFlight <= 1 /\ free["S"] + InFlight <= 2
  /\ pc["shell"] \in {"idle", "sending"} /\ free["S"] > 0 => InFlight = 0
  /\ pc["server"] = "emptying" /\ full["S"] + Puts("shell") > 0 => free["S"] = 0
  /\ pc["server"] = "emptying" /\ pc["shell"] \in {"idle", "sending"} => free["S"] <= 1
  /\ InFlight = 0 /\ free["S"] > 0 => sent["S"] = received["S"]
  /\ pc["shell"] = "writing" \/ pc["server"] = "read" => sent["S"] = received["S"]
  /\ pc["shell"] = "written" \/ full["S"] = 1 \/ pc["server"] = "reading"
       => sent["S"] = received["S"] + 1 /\ memory["S"].number = sent["S"]

\* A request goes to the server once, its reply comes back once, and the shell
\* waits meanwhile.
Asks == pc["shell"] = "waiting" \/ (pc["shell"] = "lowering" /\ kind["shell"] = "request")

InC(k) == (full["C"] = 1 \/ pc["receiver"] = "reading") /\ memory["C"].kind = k
Heard(k) == pc["receiver"] \in {"read", "emptying"} /\ kind["receiver"] = k

OneReply ==
  /\ (full["S"] = 1 \/ pc["server"] = "reading") /\ memory["S"].kind = "request" => Asks
  /\ pc["server"] \in {"read", "emptying"} /\ kind["server"] = "request" => Asks /\ full["S"] = 0
  /\ pc["server"] \in {"sending", "writing", "written"} => Asks /\ full["S"] = 0
  /\ Asks /\ pc["server"] = "read" => kind["server"] = "request"
  /\ InC("reply") \/ Heard("reply") \/ wakeups > 0
       => Asks /\ full["S"] = 0 /\ pc["server"] \in {"lowering", "receiving"}
  /\ N(InC("reply")) + N(Heard("reply")) + wakeups <= 1

\* A prompt is answered once.
PromptsOwed ==
  N(pc["draft"] \in {"sending", "writing", "written"}) + N(InC("prompt")) + N(Heard("prompt")) + owed
    <= prompts

ShmemInvariant ==
  /\ ShmemTypeOK /\ ShmemShape /\ ShmemKinds /\ ShmemStart
  /\ ClientPermit /\ ServerPermit /\ OneReply /\ PromptsOwed

\* Whoever connects late sets permits before anything was read.
LEMMA ConnectToChannelStep ==
  ASSUME ShmemInvariant, NEW p \in Processes, ConnectToChannel(p)
  PROVE  ShmemInvariant'
<1> USE DEF ShmemInvariant, ShmemTypeOK, ShmemShape, Directions, Processes, Places, Kinds, To, From,
            semVars, dataVars, procVars, workVars, Goto, ConnectToChannel
<1>1. ShmemTypeOK'
  BY DEF ShmemStart
<1>2. ShmemShape'
  BY DEF ShmemKinds, ShmemStart
<1>3. ShmemKinds'
  BY DEF ShmemKinds, ShmemStart, ClientPermit, Puts, Gets, N
<1>4. ShmemStart'
  BY DEF ShmemStart, ShmemKinds, ServerPermit, InFlight, Puts, Gets, N
<1>5. ClientPermit'
  BY DEF ClientPermit, ShmemStart, Puts, Gets, N
<1>6. ServerPermit'
  BY DEF ServerPermit, ShmemStart, ShmemKinds, OneReply, Asks, InC, Heard, InFlight, Puts, Gets, N
<1>7. OneReply'
  BY DEF OneReply, ShmemKinds, ShmemStart, ClientPermit, ServerPermit, Asks, InC, Heard, InFlight, Puts, Gets, N
<1>8. PromptsOwed'
  BY DEF PromptsOwed, ShmemKinds, ShmemStart, ClientPermit, Puts, Gets, InC, Heard, N
<1> QED
  BY <1>1, <1>2, <1>3, <1>4, <1>5, <1>6, <1>7, <1>8

\* Only who may write takes the permit of an empty buffer.
LEMMA TakeFreeStep ==
  ASSUME ShmemInvariant, NEW p \in Processes, TakeFree(p)
  PROVE  ShmemInvariant'
<1> USE DEF ShmemInvariant, ShmemTypeOK, ShmemShape, Directions, Processes, Places, Kinds, To, From,
            semVars, dataVars, procVars, workVars, Goto, TakeFree
<1>1. ShmemTypeOK'
  OBVIOUS
<1>2. ShmemShape'
  BY DEF ShmemKinds, ShmemStart
<1>3. ShmemKinds'
  BY DEF ShmemKinds, ShmemStart, ClientPermit, Puts, Gets, N
<1>4. ShmemStart'
  BY DEF ShmemStart, ShmemKinds, ServerPermit, InFlight, Puts, Gets, N
<1>5. ClientPermit'
  BY DEF ClientPermit, ShmemStart, Puts, Gets, N
<1>6. ServerPermit'
  BY DEF ServerPermit, ShmemStart, ShmemKinds, OneReply, Asks, InC, Heard, InFlight, Puts, Gets, N
<1>7. OneReply'
  BY DEF OneReply, ShmemKinds, ShmemStart, ClientPermit, ServerPermit, Asks, InC, Heard, InFlight, Puts, Gets, N
<1>8. PromptsOwed'
  BY DEF PromptsOwed, ShmemKinds, ShmemStart, ClientPermit, Puts, Gets, InC, Heard, N
<1> QED
  BY <1>1, <1>2, <1>3, <1>4, <1>5, <1>6, <1>7, <1>8

\* A message gets its number.
LEMMA WriteStep ==
  ASSUME ShmemInvariant, NEW p \in Processes, Write(p)
  PROVE  ShmemInvariant'
<1> USE DEF ShmemInvariant, ShmemTypeOK, ShmemShape, Directions, Processes, Places, Kinds, To, From,
            semVars, dataVars, procVars, workVars, Goto, Write
<1>1. ShmemTypeOK'
  OBVIOUS
<1>2. ShmemShape'
  BY DEF ShmemKinds, ShmemStart
<1>3. ShmemKinds'
  BY DEF ShmemKinds, ShmemStart, ClientPermit, Puts, Gets, N
<1>4. ShmemStart'
  BY DEF ShmemStart, ShmemKinds, ServerPermit, InFlight, Puts, Gets, N
<1>5. ClientPermit'
  BY DEF ClientPermit, ShmemStart, Puts, Gets, N
<1>6. ServerPermit'
  BY DEF ServerPermit, ShmemStart, ShmemKinds, OneReply, Asks, InC, Heard, InFlight, Puts, Gets, N
<1>7. OneReply'
  BY DEF OneReply, ShmemKinds, ShmemStart, ClientPermit, ServerPermit, Asks, InC, Heard, InFlight, Puts, Gets, N
<1>8. PromptsOwed'
  BY DEF PromptsOwed, ShmemKinds, ShmemStart, ClientPermit, Puts, Gets, InC, Heard, N
<1> QED
  BY <1>1, <1>2, <1>3, <1>4, <1>5, <1>6, <1>7, <1>8

\* It is in flight until it was read.
LEMMA GiveFullStep ==
  ASSUME ShmemInvariant, NEW p \in Processes, GiveFull(p)
  PROVE  ShmemInvariant'
<1> USE DEF ShmemInvariant, ShmemTypeOK, ShmemShape, Directions, Processes, Places, Kinds, To, From,
            semVars, dataVars, procVars, workVars, Goto, GiveFull
<1>1. ShmemTypeOK'
  BY DEF ClientPermit, ServerPermit, InFlight, Puts, Gets, N
<1>2. ShmemShape'
  BY DEF ShmemKinds, ShmemStart
<1>3. ShmemKinds'
  BY DEF ShmemKinds, ShmemStart, ClientPermit, Puts, Gets, N
<1>4. ShmemStart'
  BY DEF ShmemStart, ShmemKinds, ServerPermit, InFlight, Puts, Gets, N
<1>5. ClientPermit'
  BY DEF ClientPermit, ShmemStart, Puts, Gets, N
<1>6. ServerPermit'
  BY DEF ServerPermit, ShmemStart, ShmemKinds, OneReply, Asks, InC, Heard, InFlight, Puts, Gets, N
<1>7. OneReply'
  BY DEF OneReply, ShmemKinds, ShmemStart, ClientPermit, ServerPermit, Asks, InC, Heard, InFlight, Puts, Gets, N
<1>8. PromptsOwed'
  BY DEF PromptsOwed, ShmemKinds, ShmemStart, ClientPermit, Puts, Gets, InC, Heard, N
<1> QED
  BY <1>1, <1>2, <1>3, <1>4, <1>5, <1>6, <1>7, <1>8

\* The sender sets the semaphore it took, the shell waits for the reply.
LEMMA LowerFreeStep ==
  ASSUME ShmemInvariant, NEW p \in Processes, LowerFree(p)
  PROVE  ShmemInvariant'
<1> USE DEF ShmemInvariant, ShmemTypeOK, ShmemShape, Directions, Processes, Places, Kinds, To, From,
            semVars, dataVars, procVars, workVars, Goto, LowerFree
<1>1. ShmemTypeOK'
  OBVIOUS
<1>2. ShmemShape'
  BY DEF ShmemKinds, ShmemStart
<1>3. ShmemKinds'
  BY DEF ShmemKinds, ShmemStart, ClientPermit, Puts, Gets, N
<1>4. ShmemStart'
  BY DEF ShmemStart, ShmemKinds, ServerPermit, InFlight, Puts, Gets, N
<1>5. ClientPermit'
  BY DEF ClientPermit, ShmemStart, Puts, Gets, N
<1>6. ServerPermit'
  BY DEF ServerPermit, ShmemStart, ShmemKinds, OneReply, Asks, InC, Heard, InFlight, Puts, Gets, N
<1>7. OneReply'
  BY DEF OneReply, ShmemKinds, ShmemStart, ClientPermit, ServerPermit, Asks, InC, Heard, InFlight, Puts, Gets, N
<1>8. PromptsOwed'
  BY DEF PromptsOwed, ShmemKinds, ShmemStart, ClientPermit, Puts, Gets, InC, Heard, N
<1> QED
  BY <1>1, <1>2, <1>3, <1>4, <1>5, <1>6, <1>7, <1>8

\* Only one may read it.
LEMMA TakeFullStep ==
  ASSUME ShmemInvariant, NEW p \in Processes, TakeFull(p)
  PROVE  ShmemInvariant'
<1> USE DEF ShmemInvariant, ShmemTypeOK, ShmemShape, Directions, Processes, Places, Kinds, To, From,
            semVars, dataVars, procVars, workVars, Goto, TakeFull
<1>1. ShmemTypeOK'
  OBVIOUS
<1>2. ShmemShape'
  BY DEF ShmemKinds, ShmemStart
<1>3. ShmemKinds'
  BY DEF ShmemKinds, ShmemStart, ClientPermit, Puts, Gets, N
<1>4. ShmemStart'
  BY DEF ShmemStart, ShmemKinds, ServerPermit, InFlight, Puts, Gets, N
<1>5. ClientPermit'
  BY DEF ClientPermit, ShmemStart, Puts, Gets, N
<1>6. ServerPermit'
  BY DEF ServerPermit, ShmemStart, ShmemKinds, OneReply, Asks, InC, Heard, InFlight, Puts, Gets, N
<1>7. OneReply'
  BY DEF OneReply, ShmemKinds, ShmemStart, ClientPermit, ServerPermit, Asks, InC, Heard, InFlight, Puts, Gets, N
<1>8. PromptsOwed'
  BY DEF PromptsOwed, ShmemKinds, ShmemStart, ClientPermit, Puts, Gets, InC, Heard, N
<1> QED
  BY <1>1, <1>2, <1>3, <1>4, <1>5, <1>6, <1>7, <1>8

\* The one that is read is the next.
LEMMA ReadStep ==
  ASSUME ShmemInvariant, NEW p \in Processes, Read(p)
  PROVE  ShmemInvariant'
<1> USE DEF ShmemInvariant, ShmemTypeOK, ShmemShape, Directions, Processes, Places, Kinds, To, From,
            semVars, dataVars, procVars, workVars, Goto, Read
<1>1. ShmemTypeOK'
  OBVIOUS
<1>2. ShmemShape'
  BY DEF ShmemKinds, ShmemStart
<1>3. ShmemKinds'
  BY DEF ShmemKinds, ShmemStart, ClientPermit, Puts, Gets, N
<1>4. ShmemStart'
  BY DEF ShmemStart, ShmemKinds, ServerPermit, InFlight, Puts, Gets, N
<1>5. ClientPermit'
  BY DEF ClientPermit, ShmemStart, Puts, Gets, N
<1>6. ServerPermit'
  BY DEF ServerPermit, ShmemStart, ShmemKinds, OneReply, Asks, InC, Heard, InFlight, Puts, Gets, N
<1>7. OneReply'
  BY DEF OneReply, ShmemKinds, ShmemStart, ClientPermit, ServerPermit, Asks, InC, Heard, InFlight, Puts, Gets, N
<1>8. PromptsOwed'
  BY DEF PromptsOwed, ShmemKinds, ShmemStart, ClientPermit, Puts, Gets, InC, Heard, N
<1> QED
  BY <1>1, <1>2, <1>3, <1>4, <1>5, <1>6, <1>7, <1>8

\* The buffer is empty again.
LEMMA GiveFreeStep ==
  ASSUME ShmemInvariant, NEW p \in Processes, GiveFree(p)
  PROVE  ShmemInvariant'
<1> USE DEF ShmemInvariant, ShmemTypeOK, ShmemShape, Directions, Processes, Places, Kinds, To, From,
            semVars, dataVars, procVars, workVars, Goto, GiveFree
<1>1. ShmemTypeOK'
  BY DEF ClientPermit, ServerPermit, InFlight, Puts, Gets, N
<1>2. ShmemShape'
  BY DEF ShmemKinds, ShmemStart
<1>3. ShmemKinds'
  BY DEF ShmemKinds, ShmemStart, ClientPermit, Puts, Gets, N
<1>4. ShmemStart'
  BY DEF ShmemStart, ShmemKinds, ServerPermit, InFlight, Puts, Gets, N
<1>5. ClientPermit'
  BY DEF ClientPermit, ShmemStart, Puts, Gets, N
<1>6. ServerPermit'
  BY DEF ServerPermit, ShmemStart, ShmemKinds, OneReply, Asks, InC, Heard, InFlight, Puts, Gets, N
<1>7. OneReply'
  BY DEF OneReply, ShmemKinds, ShmemStart, ClientPermit, ServerPermit, Asks, InC, Heard, InFlight, Puts, Gets, N
<1>8. PromptsOwed'
  BY DEF PromptsOwed, ShmemKinds, ShmemStart, ClientPermit, Puts, Gets, InC, Heard, N
<1> QED
  BY <1>1, <1>2, <1>3, <1>4, <1>5, <1>6, <1>7, <1>8

\* The receiver sets the semaphore it took, and passes the message on.
LEMMA LowerFullStep ==
  ASSUME ShmemInvariant, NEW p \in Processes, LowerFull(p)
  PROVE  ShmemInvariant'
<1> USE DEF ShmemInvariant, ShmemTypeOK, ShmemShape, Directions, Processes, Places, Kinds, To, From,
            semVars, dataVars, procVars, workVars, Goto, LowerFull
<1>1. ShmemTypeOK'
  BY TrafficAssumption DEF OneReply, PromptsOwed, InC, Heard, N
<1>2. ShmemShape'
  BY DEF ShmemKinds, ShmemStart
<1>3. ShmemKinds'
  BY DEF ShmemKinds, ShmemStart, ClientPermit, Puts, Gets, N
<1>4. ShmemStart'
  BY DEF ShmemStart, ShmemKinds, ServerPermit, InFlight, Puts, Gets, N
<1>5. ClientPermit'
  BY DEF ClientPermit, ShmemStart, Puts, Gets, N
<1>6. ServerPermit'
  BY DEF ServerPermit, ShmemStart, ShmemKinds, OneReply, Asks, InC, Heard, InFlight, Puts, Gets, N
<1>7. OneReply'
  BY DEF OneReply, ShmemKinds, ShmemStart, ClientPermit, ServerPermit, Asks, InC, Heard, InFlight, Puts, Gets, N
<1>8. PromptsOwed'
  BY DEF PromptsOwed, ShmemKinds, ShmemStart, ClientPermit, Puts, Gets, InC, Heard, N
<1> QED
  BY <1>1, <1>2, <1>3, <1>4, <1>5, <1>6, <1>7, <1>8

\* A request is typed when no other is under way.
LEMMA RequestStep ==
  ASSUME ShmemInvariant, Request
  PROVE  ShmemInvariant'
<1> USE DEF ShmemInvariant, ShmemTypeOK, ShmemShape, Directions, Processes, Places, Kinds, To, From,
            semVars, dataVars, procVars, workVars, Goto, Request
<1>1. ShmemTypeOK'
  BY TrafficAssumption
<1>2. ShmemShape'
  BY DEF ShmemKinds, ShmemStart
<1>3. ShmemKinds'
  BY DEF ShmemKinds, ShmemStart, ClientPermit, Puts, Gets, N
<1>4. ShmemStart'
  BY DEF ShmemStart, ShmemKinds, ServerPermit, InFlight, Puts, Gets, N
<1>5. ClientPermit'
  BY DEF ClientPermit, ShmemStart, Puts, Gets, N
<1>6. ServerPermit'
  BY DEF ServerPermit, ShmemStart, ShmemKinds, OneReply, Asks, InC, Heard, InFlight, Puts, Gets, N
<1>7. OneReply'
  BY DEF OneReply, ShmemKinds, ShmemStart, ClientPermit, ServerPermit, Asks, InC, Heard, InFlight, Puts, Gets, N
<1>8. PromptsOwed'
  BY DEF PromptsOwed, ShmemKinds, ShmemStart, ClientPermit, Puts, Gets, InC, Heard, N
<1> QED
  BY <1>1, <1>2, <1>3, <1>4, <1>5, <1>6, <1>7, <1>8

\* The shell goes on when nothing of its request is left.
LEMMA ContinueStep ==
  ASSUME ShmemInvariant, Continue
  PROVE  ShmemInvariant'
<1> USE DEF ShmemInvariant, ShmemTypeOK, ShmemShape, Directions, Processes, Places, Kinds, To, From,
            semVars, dataVars, procVars, workVars, Goto, Continue
<1>1. ShmemTypeOK'
  OBVIOUS
<1>2. ShmemShape'
  BY DEF ShmemKinds, ShmemStart
<1>3. ShmemKinds'
  BY DEF ShmemKinds, ShmemStart, ClientPermit, Puts, Gets, N
<1>4. ShmemStart'
  BY DEF ShmemStart, ShmemKinds, ServerPermit, InFlight, Puts, Gets, N
<1>5. ClientPermit'
  BY DEF ClientPermit, ShmemStart, Puts, Gets, N
<1>6. ServerPermit'
  BY DEF ServerPermit, ShmemStart, ShmemKinds, OneReply, Asks, InC, Heard, InFlight, Puts, Gets, N
<1>7. OneReply'
  BY DEF OneReply, ShmemKinds, ShmemStart, ClientPermit, ServerPermit, Asks, InC, Heard, InFlight, Puts, Gets, N
<1>8. PromptsOwed'
  BY DEF PromptsOwed, ShmemKinds, ShmemStart, ClientPermit, Puts, Gets, InC, Heard, N
<1> QED
  BY <1>1, <1>2, <1>3, <1>4, <1>5, <1>6, <1>7, <1>8

\* A prompt that was heard is answered.
LEMMA AnswerStep ==
  ASSUME ShmemInvariant, Answer
  PROVE  ShmemInvariant'
<1> USE DEF ShmemInvariant, ShmemTypeOK, ShmemShape, Directions, Processes, Places, Kinds, To, From,
            semVars, dataVars, procVars, workVars, Goto, Answer
<1>1. ShmemTypeOK'
  BY TrafficAssumption
<1>2. ShmemShape'
  BY DEF ShmemKinds, ShmemStart
<1>3. ShmemKinds'
  BY DEF ShmemKinds, ShmemStart, ClientPermit, Puts, Gets, N
<1>4. ShmemStart'
  BY DEF ShmemStart, ShmemKinds, ServerPermit, InFlight, Puts, Gets, N
<1>5. ClientPermit'
  BY DEF ClientPermit, ShmemStart, Puts, Gets, N
<1>6. ServerPermit'
  BY DEF ServerPermit, ShmemStart, ShmemKinds, OneReply, Asks, InC, Heard, InFlight, Puts, Gets, N
<1>7. OneReply'
  BY DEF OneReply, ShmemKinds, ShmemStart, ClientPermit, ServerPermit, Asks, InC, Heard, InFlight, Puts, Gets, N
<1>8. PromptsOwed'
  BY DEF PromptsOwed, ShmemKinds, ShmemStart, ClientPermit, Puts, Gets, InC, Heard, N
<1> QED
  BY <1>1, <1>2, <1>3, <1>4, <1>5, <1>6, <1>7, <1>8

\* A draft that somebody joined asks.
LEMMA PromptStep ==
  ASSUME ShmemInvariant, Prompt
  PROVE  ShmemInvariant'
<1> USE DEF ShmemInvariant, ShmemTypeOK, ShmemShape, Directions, Processes, Places, Kinds, To, From,
            semVars, dataVars, procVars, workVars, Goto, Prompt
<1>1. ShmemTypeOK'
  BY TrafficAssumption
<1>2. ShmemShape'
  BY DEF ShmemKinds, ShmemStart
<1>3. ShmemKinds'
  BY DEF ShmemKinds, ShmemStart, ClientPermit, Puts, Gets, N
<1>4. ShmemStart'
  BY DEF ShmemStart, ShmemKinds, ServerPermit, InFlight, Puts, Gets, N
<1>5. ClientPermit'
  BY DEF ClientPermit, ShmemStart, Puts, Gets, N
<1>6. ServerPermit'
  BY DEF ServerPermit, ShmemStart, ShmemKinds, OneReply, Asks, InC, Heard, InFlight, Puts, Gets, N
<1>7. OneReply'
  BY DEF OneReply, ShmemKinds, ShmemStart, ClientPermit, ServerPermit, Asks, InC, Heard, InFlight, Puts, Gets, N
<1>8. PromptsOwed'
  BY DEF PromptsOwed, ShmemKinds, ShmemStart, ClientPermit, Puts, Gets, InC, Heard, N
<1> QED
  BY <1>1, <1>2, <1>3, <1>4, <1>5, <1>6, <1>7, <1>8

LEMMA ShmemStep == ShmemInvariant /\ [ShmemNext]_shmemVars => ShmemInvariant'
<1> SUFFICES ASSUME ShmemInvariant, [ShmemNext]_shmemVars PROVE ShmemInvariant'
  OBVIOUS
<1>1. CASE \E p \in Processes : Step(p)
  BY <1>1, ConnectToChannelStep, TakeFreeStep, WriteStep, GiveFullStep, LowerFreeStep,
     TakeFullStep, ReadStep, GiveFreeStep, LowerFullStep DEF Step
<1>2. CASE UNCHANGED shmemVars
  BY <1>2
  DEF shmemVars, semVars, dataVars, procVars, workVars, ShmemInvariant, ShmemTypeOK, ShmemShape,
      ShmemKinds, ShmemStart, ClientPermit, ServerPermit, OneReply, PromptsOwed, InFlight, Asks,
      Puts, Gets, InC, Heard
<1> QED
  BY <1>1, <1>2, RequestStep, ContinueStep, AnswerStep, PromptStep DEF ShmemNext

LEMMA ShmemInitially == ShmemInit => ShmemInvariant
<1> SUFFICES ASSUME ShmemInit PROVE ShmemInvariant
  OBVIOUS
<1> USE DEF ShmemInit, Directions, Processes
<1>1. ShmemTypeOK
  <2>1. connects \in [{"shell", "server"} -> 0 .. 6]
    OBVIOUS
  <2>2. memory \in [Directions -> [kind : Kinds, number : Nat]]
    BY DEF Kinds
  <2>3. pc \in [Processes -> Places] /\ kind \in [Processes -> Kinds]
    BY DEF Places, Kinds
  <2>4. owed \in 0 .. MaxPrompts /\ asked \in 0 .. MaxRequests /\ prompts \in 0 .. MaxPrompts
    BY TrafficAssumption
  <2>5. /\ free \in [Directions -> 0 .. 2] /\ full \in [Directions -> 0 .. 2]
        /\ sent \in [Directions -> Nat] /\ received \in [Directions -> Nat]
        /\ wakeups \in 0 .. 1
    OBVIOUS
  <2>6. lost \in BOOLEAN
    BY Zenon
  <2> QED
    BY <2>1, <2>2, <2>3, <2>4, <2>5, <2>6 DEF ShmemTypeOK
<1>2. ShmemShape
  <2>1. connects["shell"] = 6 /\ connects["server"] = 2
    OBVIOUS
  <2> QED
    BY <2>1 DEF ShmemShape, Places
<1>3. ShmemKinds
  BY DEF ShmemKinds
<1>4. /\ Puts("shell") = 0 /\ Puts("server") = 0 /\ Puts("draft") = 0
      /\ Gets("server") = 0 /\ Gets("receiver") = 0
  BY DEF Puts, Gets, N
<1>5. ShmemStart
  BY <1>4 DEF ShmemStart
<1>6. ClientPermit
  BY <1>4 DEF ClientPermit
<1>7. ServerPermit
  BY <1>4 DEF ServerPermit, InFlight
<1>8. OneReply
  BY DEF OneReply, InC, Heard, N
<1>9. PromptsOwed
  BY DEF PromptsOwed, InC, Heard, N
<1> QED
  BY <1>1, <1>2, <1>3, <1>5, <1>6, <1>7, <1>8, <1>9 DEF ShmemInvariant

\* The permits, the request under way and the prompts owed, whatever is typed
\* and asked and whoever is slow to connect.
THEOREM ShmemInvariantHolds == ShmemSpec => []ShmemInvariant
BY ShmemInitially, ShmemStep, PTL DEF ShmemSpec

\* No semaphore is ever above two, no CONTINUE waits behind another.
THEOREM ShmemTypeCorrect == ShmemSpec => []ShmemTypeOK
<1>1. ShmemInvariant => ShmemTypeOK
  BY DEF ShmemInvariant
<1> QED
  BY <1>1, ShmemInvariantHolds, PTL

\* The semaphores keep a buffer to one process, though SETVAL sets them by hand.
THEOREM BufferIsExclusive == ShmemSpec => []ExclusiveBuffer
<1>1. ShmemInvariant => ExclusiveBuffer
  BY DEF ShmemInvariant, ShmemTypeOK, ShmemShape, ClientPermit, ServerPermit, InFlight, Puts, Gets, N,
         ExclusiveBuffer, Using, Directions, Processes, Places, To, From
<1> QED
  BY <1>1, ShmemInvariantHolds, PTL

\* A message is read once, and before the next is written over it.
THEOREM MessagesInOrder == ShmemSpec => []ReadInOrder
<1>1. ShmemInvariant => ReadInOrder
  BY DEF ShmemInvariant, ShmemTypeOK, ShmemShape, ClientPermit, ServerPermit, ReadInOrder,
         Directions, Processes, Places, From
<1> QED
  BY <1>1, ShmemInvariantHolds, PTL

=============================================================================
