------------------------------ MODULE SaveMutex -----------------------------
(***************************************************************************)
(* saveMutex: the one lock under which the server's threads use the        *)
(* leagues, teams, users and trades (server.c), save them (saveThread) and *)
(* expire trades (expiryDateThread).  joinDraft does without: DraftJoin.   *)
(* Only the lock and the place of each thread in its call are modelled;    *)
(* League models what the calls do.                                        *)
(*                                                                         *)
(* SIGINT and SIGTSTP run shutDown in whichever thread the system picks    *)
(* (Linux: main, and the next signal another), on top of what it is doing. *)
(*                                                                         *)
(* The mutex is a default one.  Unlocking it from a thread that does not   *)
(* hold it is undefined; what the C library makes of it is an open mutex.  *)
(***************************************************************************)
EXTENDS Naturals, FiniteSets

CONSTANTS
  Threads,  \* the servers of the clients and the three background threads
  Ops       \* the kinds of call they make

Kinds == {"plain",      \* lock, work, unlock
          "signUp",     \* returns without unlocking when malloc fails
          "swap"}       \* a trade asks for a free agent: unlocks twice

ASSUME OpsAssumption == Ops \subseteq Kinds

VARIABLES
  locked,  \* the mutex
  pc,      \* thread -> "idle", "waiting", "inside", "after"
  op,      \* thread -> the call it is in, or was last in
  leaked,  \* a signUp returned with the mutex locked
  handler, \* thread -> where the shutDown it was interrupted for is
  ended,   \* the process has exited
  reopened \* history: a second unlock opened the mutex of somebody else

vars == <<locked, pc, op, leaked, handler, ended, reopened>>

TypeOK ==
  /\ locked \in BOOLEAN
  /\ pc \in [Threads -> {"idle", "waiting", "inside", "after"}]
  /\ op \in [Threads -> Kinds]
  /\ leaked \in BOOLEAN
  /\ handler \in [Threads -> {"none", "waiting", "inside", "exiting"}]
  /\ ended \in BOOLEAN
  /\ reopened \in BOOLEAN

Init ==
  /\ locked = FALSE
  /\ pc = [t \in Threads |-> "idle"]
  /\ op = [t \in Threads |-> "plain"]
  /\ leaked = FALSE
  /\ handler = [t \in Threads |-> "none"]
  /\ ended = FALSE
  /\ reopened = FALSE

\* The thread runs its own code, not a handler.
Goto(t, place) ==
  /\ ~ ended /\ handler[t] = "none"
  /\ pc' = [pc EXCEPT ![t] = place]
  /\ UNCHANGED <<handler, ended>>

Call(t, kind) ==
  /\ pc[t] = "idle"
  /\ op' = [op EXCEPT ![t] = kind]
  /\ Goto(t, "waiting")
  /\ UNCHANGED <<locked, leaked, reopened>>

Lock(t) ==
  /\ pc[t] = "waiting"
  /\ ~ locked
  /\ locked' = TRUE
  /\ Goto(t, "inside")
  /\ UNCHANGED <<op, leaked, reopened>>

\* Mutant: an early return forgets the unlock.
Finish_KeepsLock(t) ==
  /\ pc[t] = "inside"
  /\ UNCHANGED <<locked, op, leaked, reopened>>
  /\ Goto(t, "idle")

\* The call ends by its one unlock.  A trade call that finds no free agent, or
\* a signUp that finds the memory, ends like any other.
Finish(t) ==
  /\ pc[t] = "inside"
  /\ locked' = FALSE
  /\ Goto(t, "idle")
  /\ UNCHANGED <<op, leaked, reopened>>

\* requestTradeAux unlocks in its free-agent branch ...
GiveBack(t) ==
  /\ pc[t] = "inside"
  /\ op[t] = "swap"
  /\ locked' = FALSE
  /\ Goto(t, "after")
  /\ UNCHANGED <<op, leaked, reopened>>

\* ... and requestTrade or negotiateTrade, its caller, unlocks once more.
UnlockAgain(t) ==
  /\ pc[t] = "after"
  /\ locked' = FALSE
  /\ reopened' = (reopened \/ locked)
  /\ Goto(t, "idle")
  /\ UNCHANGED <<op, leaked>>

SignUpFails(t) ==
  /\ pc[t] = "inside"
  /\ op[t] = "signUp"
  /\ leaked' = TRUE
  /\ Goto(t, "idle")
  /\ UNCHANGED <<locked, op, reopened>>

-----------------------------------------------------------------------------
(* shutDown, with all signals blocked in its thread.                       *)

Interrupt(t, place) ==
  /\ ~ ended
  /\ handler' = [handler EXCEPT ![t] = place]
  /\ UNCHANGED <<pc, op, leaked, reopened>>

Signal(t) ==
  /\ handler[t] = "none"
  /\ Interrupt(t, "waiting")
  /\ UNCHANGED <<locked, ended>>

\* Mutant: what a thread has locked, its handler may lock again.
HandlerLock_Recursive(t) ==
  /\ handler[t] = "waiting"
  /\ ~ locked \/ pc[t] = "inside"
  /\ locked' = TRUE
  /\ Interrupt(t, "inside")
  /\ UNCHANGED ended

HandlerLock(t) ==
  /\ handler[t] = "waiting"
  /\ ~ locked
  /\ locked' = TRUE
  /\ Interrupt(t, "inside")
  /\ UNCHANGED ended

\* All is saved and freed.
HandlerUnlock(t) ==
  /\ handler[t] = "inside"
  /\ locked' = FALSE
  /\ Interrupt(t, "exiting")
  /\ UNCHANGED ended

Exit(t) ==
  /\ handler[t] = "exiting"
  /\ ended' = TRUE
  /\ Interrupt(t, "exiting")
  /\ UNCHANGED locked

ShutDown(t) == Signal(t) \/ HandlerLock(t) \/ HandlerUnlock(t) \/ Exit(t)

Next ==
  \E t \in Threads :
    \/ \E kind \in Ops : Call(t, kind)
    \/ Lock(t)
    \/ Finish(t)
    \/ GiveBack(t)
    \/ UnlockAgain(t)
    \/ SignUpFails(t)
    \/ ShutDown(t)

Spec == Init /\ [][Next]_vars

\* A thread inside a call, or a handler with the mutex, goes on by itself, and a
\* free mutex goes to some thread that waits for it, not to every one in turn.
FairSpec ==
  /\ Spec
  /\ \A t \in Threads :
       WF_vars(Finish(t) \/ SignUpFails(t) \/ GiveBack(t) \/ UnlockAgain(t)
               \/ HandlerUnlock(t) \/ Exit(t))
  /\ WF_vars(\E t \in Threads : Lock(t) \/ HandlerLock(t))

-----------------------------------------------------------------------------
(* Properties.                                                             *)

\* Between the lock and the unlock of a call, or of a shutDown.
Inside(t) == pc[t] = "inside" \/ handler[t] = "inside"

\* Two threads are never between the lock and the unlock of their calls, nor a
\* shutDown between those of the call it interrupts, unless a second unlock has
\* opened the mutex of a third: neither the leak of a failed signUp nor a
\* negotiation that goes on without the lock is enough.
ExclusionUnlessReopened ==
  ~ reopened => /\ \A t1, t2 \in Threads : Inside(t1) /\ Inside(t2) => t1 = t2
                /\ \A t \in Threads : ~ (pc[t] = "inside" /\ handler[t] = "inside")

\* A locked mutex has a thread that is to unlock it, or was leaked.
LockIsOwed == locked => leaked \/ \E t \in Threads : Inside(t)

\* shutDown waits for the call it interrupts, which waits for it to return.
WaitsForItself == \E t \in Threads : pc[t] = "inside" /\ handler[t] = "waiting"

\* The mutex never stays locked, and free it goes to one who waits, as long as
\* no signUp failed and no signal came inside a call: unlocking it too often
\* breaks the exclusion, never the progress.
LockProgress ==
  /\ locked ~> (~ locked \/ leaked \/ WaitsForItself \/ ended)
  /\ (~ locked /\ \E t \in Threads : pc[t] = "waiting" /\ handler[t] = "none")
       ~> (ended \/ leaked \/ WaitsForItself \/ \E t \in Threads : Inside(t) \/ handler[t] # "none")

\* What ExclusionUnlessReopened needs to be inductive: the mutex is locked while
\* a thread is inside.
MutexInvariant ==
  /\ TypeOK
  /\ ~ reopened => \A t \in Threads : Inside(t) => locked
  /\ ExclusionUnlessReopened

\* No two threads are in calls that hold the mutex, which save counts on
\* ("mutex", dbms.c:302): so it is as long as nobody asks for a free agent.
MutualExclusion ==
  \A t1, t2 \in Threads : Inside(t1) /\ Inside(t2) => t1 = t2

=============================================================================
