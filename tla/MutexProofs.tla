----------------------------- MODULE MutexProofs ---------------------------
(***************************************************************************)
(* What saveMutex gives any number of threads: a locked mutex is always    *)
(* somebody's to unlock, and calls and shutDown exclude each other until a *)
(* second unlock opens the mutex of somebody else.                         *)
(***************************************************************************)
EXTENDS SaveMutex, TLAPS

\* Whoever locked the mutex is inside until somebody unlocks it; no kind of
\* call is left out.
THEOREM LockIsAlwaysOwed == Spec => []LockIsOwed
<1> DEFINE IInv == TypeOK /\ LockIsOwed
<1>1. Init => IInv
  BY DEF Init, IInv, TypeOK, LockIsOwed, Inside, Kinds
<1>2. IInv /\ [Next]_vars => IInv'
  <2> SUFFICES ASSUME IInv, [Next]_vars
               PROVE  IInv'
    OBVIOUS
  <2>1. CASE UNCHANGED vars
    BY <2>1 DEF vars, TypeOK, LockIsOwed, Inside
  <2>2. ASSUME NEW t \in Threads, NEW kind \in Ops, Call(t, kind)
        PROVE  IInv'
    BY <2>2, OpsAssumption DEF Call, Goto, TypeOK, LockIsOwed, Inside
  <2>3. ASSUME NEW t \in Threads, Lock(t)
        PROVE  IInv'
    BY <2>3 DEF Lock, Goto, TypeOK, LockIsOwed, Inside
  <2>4. ASSUME NEW t \in Threads, Finish(t)
        PROVE  IInv'
    BY <2>4 DEF Finish, Goto, TypeOK, LockIsOwed, Inside
  <2>5. ASSUME NEW t \in Threads, GiveBack(t)
        PROVE  IInv'
    BY <2>5 DEF GiveBack, Goto, TypeOK, LockIsOwed, Inside
  <2>6. ASSUME NEW t \in Threads, UnlockAgain(t)
        PROVE  IInv'
    BY <2>6 DEF UnlockAgain, Goto, TypeOK, LockIsOwed, Inside
  <2>7. ASSUME NEW t \in Threads, SignUpFails(t)
        PROVE  IInv'
    BY <2>7 DEF SignUpFails, Goto, TypeOK, LockIsOwed, Inside
  <2>8. ASSUME NEW t \in Threads, Signal(t)
        PROVE  IInv'
    BY <2>8 DEF Signal, Interrupt, TypeOK, LockIsOwed, Inside
  <2>9. ASSUME NEW t \in Threads, HandlerLock(t)
        PROVE  IInv'
    BY <2>9 DEF HandlerLock, Interrupt, TypeOK, LockIsOwed, Inside
  <2>10. ASSUME NEW t \in Threads, HandlerUnlock(t)
        PROVE  IInv'
    BY <2>10 DEF HandlerUnlock, Interrupt, TypeOK, LockIsOwed, Inside
  <2>11. ASSUME NEW t \in Threads, Exit(t)
        PROVE  IInv'
    BY <2>11 DEF Exit, Interrupt, TypeOK, LockIsOwed, Inside
  <2> QED
    BY <2>1, <2>2, <2>3, <2>4, <2>5, <2>6, <2>7, <2>8, <2>9, <2>10, <2>11 DEF Next, ShutDown
<1> QED
  BY <1>1, <1>2, PTL DEF Spec

\* Nobody ever works beside somebody else before a second unlock has opened a
\* mutex that was not its own, whatever calls how many threads make and
\* wherever a signUp fails.
THEOREM ExclusionHolds == Spec => []ExclusionUnlessReopened
<1>1. Init => MutexInvariant
  BY DEF Init, MutexInvariant, ExclusionUnlessReopened, Inside, TypeOK, Kinds
<1>2. MutexInvariant /\ [Next]_vars => MutexInvariant'
  <2> SUFFICES ASSUME MutexInvariant, [Next]_vars
               PROVE  MutexInvariant'
    OBVIOUS
  <2> USE DEF MutexInvariant, ExclusionUnlessReopened, Inside, TypeOK
  <2>1. CASE UNCHANGED vars
    BY <2>1 DEF vars
  <2>2. ASSUME NEW t \in Threads, NEW kind \in Ops, Call(t, kind)
        PROVE  MutexInvariant'
    BY <2>2, OpsAssumption DEF Call, Goto
  <2>3. ASSUME NEW t \in Threads, Lock(t)
        PROVE  MutexInvariant'
    BY <2>3 DEF Lock, Goto
  <2>4. ASSUME NEW t \in Threads, Finish(t)
        PROVE  MutexInvariant'
    BY <2>4 DEF Finish, Goto
  <2>5. ASSUME NEW t \in Threads, GiveBack(t)
        PROVE  MutexInvariant'
    BY <2>5 DEF GiveBack, Goto
  <2>6. ASSUME NEW t \in Threads, UnlockAgain(t)
        PROVE  MutexInvariant'
    \* The mutex was open, and nobody inside, or it is reopened now.
    BY <2>6 DEF UnlockAgain, Goto
  <2>7. ASSUME NEW t \in Threads, SignUpFails(t)
        PROVE  MutexInvariant'
    BY <2>7 DEF SignUpFails, Goto
  <2>8. ASSUME NEW t \in Threads, Signal(t)
        PROVE  MutexInvariant'
    BY <2>8 DEF Signal, Interrupt
  <2>9. ASSUME NEW t \in Threads, HandlerLock(t)
        PROVE  MutexInvariant'
    BY <2>9 DEF HandlerLock, Interrupt
  <2>10. ASSUME NEW t \in Threads, HandlerUnlock(t)
        PROVE  MutexInvariant'
    BY <2>10 DEF HandlerUnlock, Interrupt
  <2>11. ASSUME NEW t \in Threads, Exit(t)
        PROVE  MutexInvariant'
    BY <2>11 DEF Exit, Interrupt
  <2> QED
    BY <2>1, <2>2, <2>3, <2>4, <2>5, <2>6, <2>7, <2>8, <2>9, <2>10, <2>11 DEF Next, ShutDown
<1>3. MutexInvariant => ExclusionUnlessReopened
  BY DEF MutexInvariant
<1> QED
  BY <1>1, <1>2, <1>3, PTL DEF Spec

\* Without a trade request for a free agent no mutex is opened twice, and the
\* exclusion has no exception.
THEOREM ExclusionWithoutSwaps ==
  ASSUME Ops \subseteq {"plain", "signUp"}
  PROVE  Spec => []MutualExclusion
<1> DEFINE Once == /\ ~ reopened
                   /\ \A t \in Threads : pc[t] # "after" /\ op[t] # "swap"
           IInv == MutexInvariant /\ Once
<1>1. Init => IInv
  BY DEF Init, MutexInvariant, ExclusionUnlessReopened, Inside, TypeOK, Kinds
<1>2. IInv /\ [Next]_vars => IInv'
  <2> SUFFICES ASSUME IInv, [Next]_vars
               PROVE  IInv'
    OBVIOUS
  <2> USE DEF MutexInvariant, ExclusionUnlessReopened, Inside, TypeOK
  <2>1. CASE UNCHANGED vars
    BY <2>1 DEF vars
  <2>2. ASSUME NEW t \in Threads, NEW kind \in Ops, Call(t, kind)
        PROVE  IInv'
    BY <2>2, OpsAssumption DEF Call, Goto
  <2>3. ASSUME NEW t \in Threads, Lock(t)
        PROVE  IInv'
    BY <2>3 DEF Lock, Goto
  <2>4. ASSUME NEW t \in Threads, Finish(t)
        PROVE  IInv'
    BY <2>4 DEF Finish, Goto
  <2>5. ASSUME NEW t \in Threads, SignUpFails(t)
        PROVE  IInv'
    BY <2>5 DEF SignUpFails, Goto
  <2>6. ASSUME NEW t \in Threads, Signal(t)
        PROVE  IInv'
    BY <2>6 DEF Signal, Interrupt
  <2>8. ASSUME NEW t \in Threads, HandlerLock(t)
        PROVE  IInv'
    BY <2>8 DEF HandlerLock, Interrupt
  <2>9. ASSUME NEW t \in Threads, HandlerUnlock(t)
        PROVE  IInv'
    BY <2>9 DEF HandlerUnlock, Interrupt
  <2>10. ASSUME NEW t \in Threads, Exit(t)
        PROVE  IInv'
    BY <2>10 DEF Exit, Interrupt
  <2>7. \A t \in Threads : ~ GiveBack(t) /\ ~ UnlockAgain(t)
    BY DEF GiveBack, UnlockAgain
  <2> QED
    BY <2>1, <2>2, <2>3, <2>4, <2>5, <2>6, <2>7, <2>8, <2>9, <2>10 DEF Next, ShutDown
<1>3. IInv => MutualExclusion
  BY DEF MutexInvariant, ExclusionUnlessReopened, MutualExclusion
<1> QED
  BY <1>1, <1>2, <1>3, PTL DEF Spec
=============================================================================
