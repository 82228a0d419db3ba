-------------------------------- MODULE Shmem -------------------------------
(***************************************************************************)
(* The shared-memory transport (shmem.c) under the channel of one client:  *)
(* a buffer for each direction, "S" to the server and "C" to the client,   *)
(* and two semaphores that say it is free or full.  connectToChannel sets  *)
(* them once more, and sendPacket and receivePacket set the one they took  *)
(* to 0 when they are done.                                                *)
(*                                                                         *)
(* Four processes use the channel: the shell of the client, its receiver,  *)
(* the miniServer thread, and the thread of a draft the client joined.     *)
(* A message is its kind and its number: a request is replied to, a prompt *)
(* of the draft is answered, an answer is not replied to.                  *)
(***************************************************************************)
EXTENDS Naturals

CONSTANTS MaxRequests, MaxPrompts  \* bounds: requests and prompts sent

ASSUME TrafficAssumption == MaxRequests \in Nat /\ MaxPrompts \in Nat

Directions == {"S", "C"}
Processes  == {"shell", "receiver", "server", "draft"}
Kinds      == {"request", "reply", "prompt", "answer"}

\* Where a process sends to and receives from.
To(p)   == IF p = "shell" THEN "S" ELSE "C"
From(p) == IF p = "server" THEN "S" ELSE "C"

VARIABLES
  free,      \* semaphore 0 of each direction
  full,      \* semaphore 1
  memory,    \* the message in the shared memory
  sent,      \* how many messages were written
  received,  \* how many were read
  lost,      \* history: a SETVAL took a permit somebody else had given
  pc,        \* where each process is
  kind,      \* the kind of message it sends or has read
  connects,  \* SETVALs of connectToChannel still to make
  owed,      \* prompts the shell has not answered
  wakeups,   \* CONTINUEs in the syncPipe
  asked,     \* requests begun
  prompts    \* prompts begun

semVars  == <<free, full>>
dataVars == <<memory, sent, received>>
procVars == <<pc, kind>>
workVars == <<connects, owed, wakeups, asked, prompts>>
shmemVars == <<semVars, dataVars, lost, procVars, workVars>>

Places == {"connecting", "idle", "waiting",
           "sending", "writing", "written", "lowering",
           "receiving", "reading", "read", "emptying"}

ShmemTypeOK ==
  /\ free \in [Directions -> 0 .. 2] /\ full \in [Directions -> 0 .. 2]
  /\ memory \in [Directions -> [kind : Kinds, number : Nat]]
  /\ sent \in [Directions -> Nat] /\ received \in [Directions -> Nat]
  /\ lost \in BOOLEAN
  /\ pc \in [Processes -> Places]
  /\ kind \in [Processes -> Kinds]
  /\ connects \in [{"shell", "server"} -> 0 .. 6]
  /\ owed \in 0 .. MaxPrompts
  /\ wakeups \in 0 .. 1
  /\ asked \in 0 .. MaxRequests /\ prompts \in 0 .. MaxPrompts

\* createChannel has set both semaphores; main starts the miniServer and sends
\* the client the channel, so that both connect at once.
ShmemInit ==
  /\ free = [d \in Directions |-> 1]
  /\ full = [d \in Directions |-> 0]
  /\ memory = [d \in Directions |-> [kind |-> "request", number |-> 0]]
  /\ sent = [d \in Directions |-> 0]
  /\ received = [d \in Directions |-> 0]
  /\ lost = FALSE
  /\ pc = [p \in Processes |-> IF p \in {"shell", "server"} THEN "connecting" ELSE "idle"]
  /\ kind = [p \in Processes |-> "request"]
  /\ connects = [shell |-> 6, server |-> 2]
  /\ owed = 0 /\ wakeups = 0 /\ asked = 0 /\ prompts = 0

Goto(p, place) == pc' = [pc EXCEPT ![p] = place]

-----------------------------------------------------------------------------
(* connectToChannel                                                        *)

\* The client makes every semaphore 0 (getsem) before it makes the free ones 1;
\* the server only does the latter.  Then the shell and its receiver start.
ConnectToChannel(p) ==
  /\ pc[p] = "connecting"
  /\ connects' = [connects EXCEPT ![p] = @ - 1]
  /\ free' = [free EXCEPT ![IF connects[p] \in {6, 2} THEN "C" ELSE "S"] =
                CASE connects[p] \in {6, 4} -> 0 [] connects[p] \in {2, 1} -> 1 [] OTHER -> @]
  /\ full' = [full EXCEPT !["C"] = IF connects[p] = 5 THEN 0 ELSE @,
                          !["S"] = IF connects[p] = 3 THEN 0 ELSE @]
  /\ pc' = IF connects[p] > 1 THEN pc
           ELSE IF p = "server" THEN [pc EXCEPT !["server"] = "receiving"]
           ELSE [pc EXCEPT !["shell"] = "idle", !["receiver"] = "receiving"]
  /\ UNCHANGED <<dataVars, lost, kind, owed, wakeups, asked, prompts>>

-----------------------------------------------------------------------------
(* sendPacket                                                              *)

\* Mutant: nobody waits for the buffer to be free.
TakeFree_Unasked(p) ==
  /\ pc[p] = "sending"
  /\ Goto(p, "writing")
  /\ UNCHANGED <<semVars, dataVars, lost, kind, workVars>>

TakeFree(p) ==
  /\ pc[p] = "sending"
  /\ free[To(p)] > 0
  /\ free' = [free EXCEPT ![To(p)] = @ - 1]
  /\ Goto(p, "writing")
  /\ UNCHANGED <<full, dataVars, lost, kind, workVars>>

Write(p) ==
  /\ pc[p] = "writing"
  /\ memory' = [memory EXCEPT ![To(p)] = [kind |-> kind[p], number |-> sent[To(p)] + 1]]
  /\ sent' = [sent EXCEPT ![To(p)] = @ + 1]
  /\ Goto(p, "written")
  /\ UNCHANGED <<semVars, received, lost, kind, workVars>>

GiveFull(p) ==
  /\ pc[p] = "written"
  /\ full' = [full EXCEPT ![To(p)] = @ + 1]
  /\ Goto(p, "lowering")
  /\ UNCHANGED <<free, dataVars, lost, kind, workVars>>

\* SETVAL 0; what the sender does next: the server receives, the shell waits
\* for the reply to a request.
LowerFree(p) ==
  /\ pc[p] = "lowering"
  /\ free' = [free EXCEPT ![To(p)] = 0]
  /\ lost' = (lost \/ free[To(p)] > 0)
  /\ Goto(p, CASE p = "server" -> "receiving"
               [] p = "shell" /\ kind[p] = "request" -> "waiting"
               [] OTHER -> "idle")
  /\ UNCHANGED <<full, dataVars, kind, workVars>>

-----------------------------------------------------------------------------
(* receivePacket                                                           *)

TakeFull(p) ==
  /\ pc[p] = "receiving"
  /\ full[From(p)] > 0
  /\ full' = [full EXCEPT ![From(p)] = @ - 1]
  /\ Goto(p, "reading")
  /\ UNCHANGED <<free, dataVars, lost, kind, workVars>>

Read(p) ==
  /\ pc[p] = "reading"
  /\ kind' = [kind EXCEPT ![p] = memory[From(p)].kind]
  /\ received' = [received EXCEPT ![From(p)] = @ + 1]
  /\ Goto(p, "read")
  /\ UNCHANGED <<semVars, memory, sent, lost, workVars>>

\* Mutant: the buffer is not given back.
GiveFree_Never(p) ==
  /\ pc[p] = "read"
  /\ Goto(p, "emptying")
  /\ UNCHANGED <<semVars, dataVars, lost, kind, workVars>>

GiveFree(p) ==
  /\ pc[p] = "read"
  /\ free' = [free EXCEPT ![From(p)] = @ + 1]
  /\ Goto(p, "emptying")
  /\ UNCHANGED <<full, dataVars, lost, kind, workVars>>

\* SETVAL 0, and what is done with the message: the server replies to a
\* request, the receiver wakes the shell after a reply and interrupts it for a
\* prompt.
LowerFull(p) ==
  /\ pc[p] = "emptying"
  /\ full' = [full EXCEPT ![From(p)] = 0]
  /\ lost' = (lost \/ full[From(p)] > 0)
  /\ \/ /\ p = "server" /\ kind[p] = "request"
        /\ Goto(p, "sending")
        /\ kind' = [kind EXCEPT ![p] = "reply"]
        /\ UNCHANGED <<owed, wakeups>>
     \/ /\ p = "server" /\ kind[p] # "request"
        /\ Goto(p, "receiving")
        /\ UNCHANGED <<kind, owed, wakeups>>
     \/ /\ p = "receiver"
        /\ Goto(p, "receiving")
        /\ wakeups' = IF kind[p] = "reply" THEN wakeups + 1 ELSE wakeups
        /\ owed' = IF kind[p] = "prompt" THEN owed + 1 ELSE owed
        /\ UNCHANGED kind
  /\ UNCHANGED <<free, dataVars, connects, asked, prompts>>

-----------------------------------------------------------------------------
(* What the processes have to send.                                        *)

\* The user types a command.
Request ==
  /\ pc["shell"] = "idle"
  /\ asked < MaxRequests
  /\ asked' = asked + 1
  /\ Goto("shell", "sending")
  /\ kind' = [kind EXCEPT !["shell"] = "request"]
  /\ UNCHANGED <<semVars, dataVars, lost, connects, owed, wakeups, prompts>>

\* Mutant: the CONTINUE stays in the pipe.
Continue_Unread ==
  /\ pc["shell"] = "waiting"
  /\ wakeups > 0
  /\ Goto("shell", "idle")
  /\ UNCHANGED <<semVars, dataVars, lost, kind, workVars>>

\* The shell reads its pipe (pauseIt) until the receiver writes into it.
Continue ==
  /\ pc["shell"] = "waiting"
  /\ wakeups > 0
  /\ wakeups' = wakeups - 1
  /\ Goto("shell", "idle")
  /\ UNCHANGED <<semVars, dataVars, lost, kind, connects, owed, asked, prompts>>

\* The signal handler of the shell asks the user and sends what he says.
Answer ==
  /\ pc["shell"] = "idle"
  /\ owed > 0
  /\ owed' = owed - 1
  /\ Goto("shell", "sending")
  /\ kind' = [kind EXCEPT !["shell"] = "answer"]
  /\ UNCHANGED <<semVars, dataVars, lost, connects, wakeups, asked, prompts>>

\* The draft exists once the server has read a request, to join it.
Prompt ==
  /\ pc["draft"] = "idle"
  /\ received["S"] > 0
  /\ prompts < MaxPrompts
  /\ prompts' = prompts + 1
  /\ Goto("draft", "sending")
  /\ kind' = [kind EXCEPT !["draft"] = "prompt"]
  /\ UNCHANGED <<semVars, dataVars, lost, connects, owed, wakeups, asked>>

Step(p) ==
  \/ ConnectToChannel(p)
  \/ TakeFree(p) \/ Write(p) \/ GiveFull(p) \/ LowerFree(p)
  \/ TakeFull(p) \/ Read(p) \/ GiveFree(p) \/ LowerFull(p)

ShmemNext == Request \/ Continue \/ Answer \/ Prompt \/ \E p \in Processes : Step(p)

ShmemSpec == ShmemInit /\ [][ShmemNext]_shmemVars

\* A process goes on when it is not waiting on a semaphore or the syncPipe; the
\* user need not type anything.
ShmemFairSpec == ShmemSpec /\ WF_shmemVars(Continue) /\ \A p \in Processes : WF_shmemVars(Step(p))

-----------------------------------------------------------------------------
(* Properties.                                                             *)

Using(p, d) == \/ pc[p] = "writing" /\ To(p) = d
               \/ pc[p] = "reading" /\ From(p) = d

\* Nobody writes into a buffer somebody else reads or writes, although both
\* sides set the semaphores by hand and the server may connect after the client
\* has sent its first request.
ExclusiveBuffer ==
  \A d \in Directions : \A p, q \in Processes : Using(p, d) /\ Using(q, d) => p = q

\* No message is written over before it was read, and none is read twice: the
\* one that is read is always the one after the last.
ReadInOrder ==
  \A p \in Processes :
    pc[p] = "reading" => memory[From(p)].number = received[From(p)] + 1

\* A request is replied to, unless one of the SETVALs of sendPacket and
\* receivePacket took away a permit: nothing else stops a channel.
ReplyOrLost == pc["shell"] = "waiting" ~> (pc["shell"] # "waiting" \/ lost)

=============================================================================
