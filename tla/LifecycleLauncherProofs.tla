---------------------- MODULE LifecycleLauncherProofs ----------------------
(***************************************************************************)
(* Proofs about LifecycleLauncher, for any finite set of Java threads and  *)
(* any number of guests, one after the other.                              *)
(***************************************************************************)
EXTENDS LifecycleLauncher, FiniteSetTheorems, TLAPS

(***************************************************************************)
(* The inductive invariant, in the parts that one thing in the code keeps  *)
(* true each.                                                              *)
(***************************************************************************)

Locked  == {"joinLog", "joinMonitor", "pumpExchange", "pumpAssign"}
Started == {"joinMonitor", "pumpExchange", "pumpAssign"}
Watched == {"pumpExchange", "pumpAssign", "load", "call"}
Over    == {"load", "call", "inListener", "done"}

\* Between the lock and the unlock of startContainer a caller holds mMutex, and nobody else
\* ever does.
MutexInv == \A t \in Callers : pc[t] \in Locked <=> mMutex = t

\* A caller has a guest of its own from the fork until its callback has returned.
MineInv ==
  \A t \in Callers :
    IF pc[t] \in Locked \union {"load", "call"} THEN mine[t] \in Guests ELSE mine[t] = None

\* A guest has no monitor before a caller starts one, and that caller is the one that has
\* forked it; the monitor waits for it and goes on once it has reaped it.
MonitorInv ==
  \A g \in Guests :
    /\ guest[g] = "none" => monitor[g] = "none"
    /\ monitor[g] = "none" /\ guest[g] # "none" =>
         \E t \in Callers : mine[t] = g /\ pc[t] \in {"joinLog", "joinMonitor"}
    /\ monitor[g] = "waiting" => guest[g] \in Alive \union {"zombie"}
    /\ monitor[g] \in {"reaped"} \union Over => guest[g] = "reaped"

\* The caller that is about to start a monitor has an unwatched guest, not yet reaped.
UnwatchedInv ==
  \A t \in Callers :
    pc[t] \in {"joinLog", "joinMonitor"} =>
      monitor[mine[t]] = "none" /\ guest[mine[t]] \in Alive \union {"zombie"}

\* mGuestPid is the guest whose monitor has yet to report, if there is one.
PidInv ==
  /\ \A g \in Guests : monitor[g] \in {"waiting", "reaped"} => mGuestPid = g
  /\ mGuestPid # None =>
       \/ monitor[mGuestPid] \in {"waiting", "reaped"}
       \/ \E t \in Callers : pc[t] = "joinMonitor" /\ mine[t] = mGuestPid

\* mState and mGuestPid change under the mutex, and agree whenever it is free.
StateInv ==
  /\ mMutex = Free => mState # "STARTING" /\ ((mState = "RUNNING") <=> (mGuestPid # None))
  /\ \A t \in Callers :
       /\ pc[t] = "joinLog" => mState = "STARTING" /\ mGuestPid = None
       /\ pc[t] \in Started => mState = "RUNNING" /\ mGuestPid = mine[t]

\* A guest is forked when those before it have been reaped and their end is known.
OrderInv ==
  \A g, h \in Guests :
    h < g /\ guest[g] # "none" => guest[h] = "reaped" /\ monitor[h] \in Over

\* mMonitorThread is the only monitor that may still be at work.
MonThreadInv == \A g \in Guests : monitor[g] \notin {"none", "done"} => monThread = g

\* Once a guest is watched, the monitors of those before it are done, callback included.
RunInv ==
  \A t \in Callers :
    pc[t] \in Watched => \A h \in Guests : h < mine[t] => monitor[h] = "done"

ToldInv ==
  \A g, h \in Guests : h < g /\ "running" \in told[g] => monitor[h] = "done"

\* The history variable: while no calls have overlapped, one caller at most is not idle.
SerialInv ==
  ~overlapped => \A t, u \in Callers : pc[t] # "idle" /\ pc[u] # "idle" => t = u

\* With one call at a time the flag and the thread of the pump agree but between the two
\* accesses of a start or a stop.
PumpInv ==
  ~overlapped =>
    /\ aborted # "pump"
    /\ \A t \in Callers : pc[t] = "pumpAssign" => pumpFlag /\ pumpThread = "none"
    /\ \A t \in Callers : pc[t] = "joinPump" => ~pumpFlag /\ pumpThread # "none"
    /\ (\A t \in Callers : pc[t] \notin {"pumpAssign", "joinPump"}) =>
         pumpThread = IF pumpFlag THEN "running" ELSE "none"

LockInv    == MutexInv /\ MineInv
GuestInv   == MonitorInv /\ UnwatchedInv /\ PidInv /\ StateInv /\ OrderInv
OrderedInv == MonThreadInv /\ RunInv /\ ToldInv
PumpedInv  == SerialInv /\ PumpInv

IInv == TypeOK /\ LockInv /\ GuestInv /\ OrderedInv /\ PumpedInv

(***************************************************************************)
(* Guests and threads.                                                     *)
(***************************************************************************)

\* Guests are numbered from 1, so that None is no guest, in the order of the forks.
LEMMA GuestFacts == /\ None \notin Guests
                    /\ Guests \subseteq Nat
                    /\ \A g, h \in Guests : g = h \/ g < h \/ h < g
                    /\ \A g \in Guests : ~(g < g)
BY MaxGuestsAssumption DEF Guests, None

\* startContainer under the lock forks the next guest or leaves all but mState alone; it
\* gives up, with or without setting it, when no start is under way and no guest known.
LEMMA StartLockedFacts ==
  ASSUME NEW t \in Callers, StartLocked(t)
  PROVE  /\ pc[t] = "startLock" /\ mMutex = Free
         /\ UNCHANGED <<mGuestPid, logThread, monThread, monitor, pump, heard, overlapped, aborted>>
         /\ \/ /\ pc' = [pc EXCEPT ![t] = "idle"]
               /\ mine' = [mine EXCEPT ![t] = None] /\ from' = [from EXCEPT ![t] = None]
               /\ UNCHANGED <<mMutex, guest, pipeHeld>>
               /\ mState' = mState \/ (mState' = "STOPPED" /\ mState \notin {"RUNNING", "STARTING"})
            \/ mState \notin {"RUNNING", "STARTING"} /\ Fork(t)
BY DEF StartLocked, StartFails, Return, Goto

\* What a step of caller t does to the other callers: nothing.
LEMMA CallersStay ==
  ASSUME NEW t \in Callers, NEW u \in Callers, t # u, TypeOK,
         CallStart(t) \/ CallStop(t) \/ CallerStep(t)
  PROVE  pc'[u] = pc[u] /\ mine'[u] = mine[u]
<1>1. CASE StartLocked(t)
  <2>1. CASE Fork(t)
    BY <2>1 DEF Fork, Goto, TypeOK
  <2>2. CASE ~Fork(t)
    BY <1>1, <2>2, StartLockedFacts DEF TypeOK
  <2>3. QED
    BY <2>1, <2>2
<1>2. CASE ~StartLocked(t)
  BY <1>2 DEF CallStart, CallStop, Enter, CallerStep, JoinLog, JoinMonitor, JoinSelf, Watch,
     PumpExchange,
     PumpAssign, Unlock, LoadRunning, CallRunning, Return, JoinPump, StopLocked, Goto, TypeOK
<1>3. QED
  BY <1>1, <1>2

\* What a step that is not a caller's does to the callers and the mutex: nothing.
OtherStep ==
  \/ \E g \in Guests : MonitorStep(g) \/ Setpgid(g) \/ GuestEnds(g) \/ PipeCloses(g)
  \/ AddListener \/ RemoveListener
  \/ PumpEnds

\* The steps of monitors, guests, the pump and the listener leave the callers and the mutex alone.
LEMMA OtherStepFacts == OtherStep => UNCHANGED <<pc, mine, mMutex, overlapped>>
BY DEF OtherStep, MonitorStep, Reap, Retire, LoadEnded, CallEnded, ListenerReturns, Setpgid,
   GuestEnds, PipeCloses, AddListener, RemoveListener, PumpEnds, native

(***************************************************************************)
(* Types.                                                                  *)
(***************************************************************************)

\* The first state is well typed.
LEMMA LifecycleTypeInit == Init => TypeOK
<1> SUFFICES ASSUME Init PROVE TypeOK
  OBVIOUS
<1>1. /\ pumpFlag \in BOOLEAN /\ listener \in BOOLEAN /\ overlapped \in BOOLEAN
  BY DEF Init
<1>2. /\ pc = [t \in Callers |-> "idle"] /\ mine = [t \in Callers |-> None]
      /\ from = [t \in Callers |-> None]
      /\ guest = [g \in Guests |-> "none"] /\ monitor = [g \in Guests |-> "none"]
      /\ told = [g \in Guests |-> {}]
  BY DEF Init
<1>3. /\ mMutex = Free /\ mState = "STOPPED" /\ mGuestPid = None
      /\ pipeHeld = {} /\ stale = {} /\ logThread = None /\ monThread = None
      /\ pumpThread = "none" /\ aborted = "no"
  BY DEF Init
<1>4. QED
  BY <1>1, <1>2, <1>3 DEF TypeOK, Alive

\* Every step keeps the types: one case per action.
LEMMA LifecycleTypeStep == TypeOK /\ [Next]_vars => TypeOK'
<1> SUFFICES ASSUME TypeOK, [Next]_vars PROVE TypeOK'
  OBVIOUS
<1> USE DEF TypeOK
<1>1. ASSUME NEW t \in Callers, CallStart(t) \/ CallStop(t) \/ CallerStep(t) PROVE TypeOK'
  <2>1. CASE CallStart(t)
    BY <2>1 DEF CallStart, Enter, MayCall, Goto, native, pump, heard
  <2>2. CASE CallStop(t)
    <3>1. from' \in [Callers -> Guests \union {None}]
      BY <2>2 DEF CallStop, Enter, MayCall
    <3>2. /\ \E l \in {"joinPump", "stopLock"} : pc' = [pc EXCEPT ![t] = l]
          /\ pumpFlag' \in BOOLEAN /\ overlapped' \in BOOLEAN
      BY <2>2 DEF CallStop, Enter, Goto
    <3> HIDE <2>2
    <3>3. /\ UNCHANGED <<mMutex, mState, mGuestPid, logThread, monThread, monitor>>
          /\ UNCHANGED <<mine, guest, pipeHeld, pumpThread, listener, stale, told, aborted>>
      BY <2>2 DEF CallStop, native, heard
    <3>4. QED
      BY <3>1, <3>2, <3>3
  <2>3. CASE StartLocked(t)
    <3>1. CASE Fork(t)
      BY <2>3, <3>1, StartLockedFacts DEF Fork, Goto, pump, heard, Alive
    <3>2. CASE ~Fork(t)
      BY <2>3, <3>2, StartLockedFacts DEF pump, heard
    <3>3. QED
      BY <3>1, <3>2
  <2>4. CASE JoinLog(t)
    BY <2>4 DEF JoinLog, Goto, pump, heard
  <2>5. CASE JoinMonitor(t)
    <3>1. /\ pc' = [pc EXCEPT ![t] = "pumpExchange"]
          /\ monThread' = mine[t] /\ monitor' = [monitor EXCEPT ![mine[t]] = "waiting"]
      BY <2>5 DEF JoinMonitor, Watch, Goto
    <3>2. /\ UNCHANGED <<mine, from, mMutex, mState, mGuestPid, logThread, guest, pipeHeld>>
          /\ UNCHANGED <<pumpFlag, pumpThread, listener, stale, told, overlapped, aborted>>
      BY <2>5 DEF JoinMonitor, Watch, pump, heard
    <3>3. QED
      BY <3>1, <3>2
  <2>6. CASE PumpExchange(t)
    BY <2>6 DEF PumpExchange, Unlock, Goto, heard
  <2>7. CASE PumpAssign(t)
    BY <2>7 DEF PumpAssign, Unlock, Goto, heard
  <2>8. CASE LoadRunning(t)
    BY <2>8 DEF LoadRunning, Return, Goto, native, pump, heard
  <2>9. CASE CallRunning(t)
    BY <2>9 DEF CallRunning, Deliver, Return, Goto, native, pump
  <2>10. CASE JoinPump(t)
    BY <2>10 DEF JoinPump, Goto, native, heard
  <2>11. CASE StopLocked(t)
    BY <2>11 DEF StopLocked, Return, Goto, native, pump, heard, Alive
  <2>12. CASE JoinSelf(t)
    BY <2>12 DEF JoinSelf, native, pump, heard
  <2>13. QED
    BY <1>1, <2>1, <2>2, <2>3, <2>4, <2>5, <2>6, <2>7, <2>8, <2>9, <2>10, <2>11, <2>12
       DEF CallerStep
<1>2. ASSUME NEW g \in Guests, MonitorStep(g) \/ Setpgid(g) \/ GuestEnds(g) \/ PipeCloses(g) PROVE TypeOK'
  <2>1. CASE Reap(g)
    BY <2>1 DEF Reap, SetMonitor, pump, heard
  <2>2. CASE Retire(g)
    BY <2>2 DEF Retire, SetMonitor, pump, heard
  <2>3. CASE LoadEnded(g)
    BY <2>3 DEF LoadEnded, SetMonitor, pump, heard
  <2>4. CASE CallEnded(g)
    BY <2>4 DEF CallEnded, Deliver, SetMonitor, pump
  <2>5. CASE Setpgid(g) \/ ListenerReturns(g)
    BY <2>5 DEF Setpgid, ListenerReturns, SetMonitor, native, pump, heard, Alive
  <2>6. CASE GuestEnds(g)
    BY <2>6 DEF GuestEnds, native, pump, heard
  <2>7. CASE PipeCloses(g)
    BY <2>7 DEF PipeCloses, native, pump, heard
  <2>8. QED
    BY <1>2, <2>1, <2>2, <2>3, <2>4, <2>5, <2>6, <2>7 DEF MonitorStep
<1>3. CASE AddListener \/ RemoveListener
  BY <1>3 DEF AddListener, RemoveListener, native, pump, Threads
<1>4. CASE PumpEnds
  BY <1>4 DEF PumpEnds, native, heard
<1>5. CASE UNCHANGED vars
  BY <1>5 DEF vars, native, pump, heard
<1>6. QED
  BY <1>1, <1>2, <1>3, <1>4, <1>5 DEF Next

\* The types hold for any finite set of Java threads and any number of guests.
THEOREM LifecycleTypeCorrect == Spec => []TypeOK
BY LifecycleTypeInit, LifecycleTypeStep, PTL DEF Spec

(***************************************************************************)
(* The mutex.                                                              *)
(***************************************************************************)

\* One caller's step keeps the mutex and its own guest in order, the other steps touch
\* neither.
LEMMA LockStep ==
  ASSUME TypeOK, LockInv, [Next]_vars
  PROVE  LockInv'
<1> USE FreeAssumption DEF LockInv, MutexInv, MineInv, Locked
<1>1. ASSUME NEW t \in Callers, CallStart(t) \/ CallStop(t) \/ CallerStep(t) PROVE LockInv'
  <2> SUFFICES ASSUME NEW u \in Callers
               PROVE  /\ pc'[u] \in Locked <=> mMutex' = u
                      /\ IF pc'[u] \in Locked \union {"load", "call"}
                         THEN mine'[u] \in Guests ELSE mine'[u] = None
    OBVIOUS
  <2>1. CASE u = t
    <3>1. CASE StartLocked(t)
      <4>1. CASE Fork(t)
        BY <2>1, <3>1, <4>1, StartLockedFacts DEF Fork, Goto, TypeOK
      <4>2. CASE ~Fork(t)
        BY <2>1, <3>1, <4>2, StartLockedFacts DEF TypeOK
      <4>3. QED
        BY <4>1, <4>2
    <3>2. CASE CallStart(t) \/ CallStop(t) \/ JoinPump(t) \/ StopLocked(t)
      BY <2>1, <3>2 DEF CallStart, CallStop, Enter, JoinPump, StopLocked, Return, Goto, native,
         TypeOK
    <3>3. CASE JoinLog(t) \/ JoinMonitor(t)
      BY <2>1, <3>3 DEF JoinLog, JoinMonitor, Watch, Goto, TypeOK
    <3>4. CASE PumpExchange(t) \/ PumpAssign(t)
      BY <2>1, <3>4 DEF PumpExchange, PumpAssign, Unlock, Goto, TypeOK
    <3>5. CASE LoadRunning(t) \/ CallRunning(t)
      BY <2>1, <3>5 DEF LoadRunning, CallRunning, Return, Goto, native, TypeOK
    <3>6. CASE JoinSelf(t)
      BY <2>1, <3>6 DEF JoinSelf, native
    <3>7. QED
      BY <1>1, <3>1, <3>2, <3>3, <3>4, <3>5, <3>6 DEF CallerStep
  <2>2. CASE u # t
    <3>1. pc'[u] = pc[u] /\ mine'[u] = mine[u]
      BY <1>1, <2>2, CallersStay
    <3>2. mMutex' = mMutex \/ (mMutex = Free /\ mMutex' = t) \/ (mMutex = t /\ mMutex' = Free)
      <4>1. CASE StartLocked(t)
        BY <4>1, StartLockedFacts DEF Fork
      <4>2. CASE ~StartLocked(t)
        BY <1>1, <4>2 DEF CallStart, CallStop, CallerStep, JoinLog, JoinMonitor, JoinSelf,
           Watch, PumpExchange,
           PumpAssign, Unlock, LoadRunning, CallRunning, JoinPump, StopLocked, native
      <4>3. QED
        BY <4>1, <4>2
    <3>3. QED
      BY <2>2, <3>1, <3>2
  <2>3. QED
    BY <2>1, <2>2
<1>2. CASE OtherStep
  BY <1>2, OtherStepFacts
<1>3. CASE UNCHANGED vars
  BY <1>3 DEF vars, native
<1>4. QED
  BY <1>1, <1>2, <1>3 DEF Next, OtherStep

(***************************************************************************)
(* The guest, its monitor and the launcher's view of them.                 *)
(***************************************************************************)

\* Steps that leave guests, monitors and the launcher's state alone, and the callers that
\* are in startContainer's critical section where they are.
LEMMA GuestFrame ==
  ASSUME GuestInv, UNCHANGED <<mMutex, mState, mGuestPid, guest, monitor>>,
         \A u \in Callers :
           \/ pc'[u] = pc[u] /\ mine'[u] = mine[u]
           \/ pc[u] \notin Locked /\ pc'[u] \notin Locked
  PROVE  GuestInv'
<1> USE DEF Locked, Started
<1>1. MonitorInv'
  BY DEF GuestInv, MonitorInv
<1>2. UnwatchedInv'
  BY DEF GuestInv, UnwatchedInv
<1>3. PidInv'
  BY DEF GuestInv, PidInv
<1>4. StateInv'
  BY DEF GuestInv, StateInv
<1>5. OrderInv'
  BY DEF GuestInv, OrderInv
<1>6. QED
  BY <1>1, <1>2, <1>3, <1>4, <1>5 DEF GuestInv

\* When the mutex is free and no guest is known, every guest there has been is reaped and
\* its end is known.
LEMMA NoneUnderWay ==
  ASSUME TypeOK, LockInv, GuestInv, mMutex = Free, mState # "RUNNING",
         NEW g \in Guests, guest[g] # "none"
  PROVE  guest[g] = "reaped" /\ monitor[g] \in Over
<1>1. \A t \in Callers : pc[t] \notin Locked
  BY FreeAssumption DEF LockInv, MutexInv
<1>2. mGuestPid = None
  BY DEF GuestInv, StateInv
<1>3. monitor[g] \notin {"waiting", "reaped"}
  BY <1>2, GuestFacts DEF GuestInv, PidInv
<1>4. monitor[g] # "none"
  BY <1>1 DEF GuestInv, MonitorInv, Locked
<1>5. monitor[g] \in Over
  BY <1>3, <1>4 DEF TypeOK, Over
<1>6. QED
  BY <1>5 DEF GuestInv, MonitorInv

\* A fork happens when every earlier guest is reaped, so the new one is the only one alive.
LEMMA ForkStep ==
  ASSUME TypeOK, LockInv, GuestInv, NEW t \in Callers, StartLocked(t), Fork(t),
         mState \notin {"RUNNING", "STARTING"}
  PROVE  GuestInv'
<1>1. PICK g \in Guests :
        /\ guest[g] = "none" /\ \A h \in Guests : h < g => guest[h] # "none"
        /\ guest' = [guest EXCEPT ![g] = "forked"]
        /\ mine' = [mine EXCEPT ![t] = g]
        /\ mState' = "STARTING" /\ mMutex' = t
        /\ pc' = [pc EXCEPT ![t] = "joinLog"]
  BY DEF Fork, Goto
<1>2. pc[t] = "startLock" /\ mMutex = Free /\ UNCHANGED <<mGuestPid, monitor>>
  BY StartLockedFacts
<1>3. \A u \in Callers : pc[u] \notin Locked
  BY <1>2, FreeAssumption DEF LockInv, MutexInv
<1>4. mGuestPid = None
  BY <1>2 DEF GuestInv, StateInv
<1>5. monitor[g] = "none"
  BY <1>1 DEF GuestInv, MonitorInv
<1>6. \A h \in Guests : guest[h] # "none" => guest[h] = "reaped" /\ monitor[h] \in Over
  BY <1>2, NoneUnderWay
<1> USE <1>1, <1>2, <1>3, <1>4, <1>5, <1>6 DEF TypeOK
<1>7. MonitorInv'
  BY DEF GuestInv, MonitorInv, Locked, Over, Alive
<1>8. UnwatchedInv'
  BY DEF UnwatchedInv, Locked, Alive
<1>9. PidInv'
  BY DEF GuestInv, PidInv
<1>10. StateInv'
  BY FreeAssumption DEF StateInv, Locked, Started
<1>11. OrderInv'
  BY GuestFacts DEF GuestInv, OrderInv, Over
<1>12. QED
  BY <1>7, <1>8, <1>9, <1>10, <1>11 DEF GuestInv

\* The new guest takes over mGuestPid and the state while the mutex is still held.
LEMMA JoinLogStep ==
  ASSUME TypeOK, LockInv, GuestInv, NEW t \in Callers, JoinLog(t)
  PROVE  GuestInv'
<1>1. pc[t] = "joinLog" /\ mMutex = t /\ mine[t] \in Guests /\ mGuestPid = None
  BY DEF JoinLog, LockInv, MutexInv, MineInv, GuestInv, StateInv, Locked
<1>2. \A u \in Callers \ {t} : pc[u] \notin Locked
  BY <1>1 DEF LockInv, MutexInv
<1>3. /\ mGuestPid' = mine[t] /\ mState' = "RUNNING" /\ pc' = [pc EXCEPT ![t] = "joinMonitor"]
      /\ UNCHANGED <<mine, mMutex, monitor, guest>>
  BY DEF JoinLog, Goto
<1>4. \A g \in Guests : monitor[g] \notin {"waiting", "reaped"}
  BY <1>1, GuestFacts DEF GuestInv, PidInv
<1> USE <1>1, <1>2, <1>3, <1>4 DEF TypeOK
<1>5. MonitorInv'
  BY DEF GuestInv, MonitorInv
<1>6. UnwatchedInv'
  BY DEF GuestInv, UnwatchedInv
<1>7. PidInv'
  BY DEF PidInv
<1>8. StateInv'
  BY FreeAssumption DEF StateInv, Locked, Started
<1>9. OrderInv'
  BY DEF GuestInv, OrderInv
<1>10. QED
  BY <1>5, <1>6, <1>7, <1>8, <1>9 DEF GuestInv

\* The new monitor is the one of the guest that mGuestPid names.
LEMMA WatchStep ==
  ASSUME TypeOK, LockInv, GuestInv, NEW t \in Callers, JoinMonitor(t)
  PROVE  GuestInv'
<1>1. /\ pc[t] = "joinMonitor" /\ mMutex = t /\ mine[t] \in Guests /\ mGuestPid = mine[t]
      /\ mState = "RUNNING"
  BY DEF JoinMonitor, LockInv, MutexInv, MineInv, GuestInv, StateInv, Locked, Started
<1>2. \A u \in Callers \ {t} : pc[u] \notin Locked
  BY <1>1 DEF LockInv, MutexInv
<1>3. /\ monitor' = [monitor EXCEPT ![mine[t]] = "waiting"]
      /\ pc' = [pc EXCEPT ![t] = "pumpExchange"]
      /\ UNCHANGED <<mine, mMutex, mState, mGuestPid, guest>>
  BY DEF JoinMonitor, Watch, Goto
<1>4. monitor[mine[t]] = "none" /\ guest[mine[t]] \in Alive \union {"zombie"}
  BY <1>1 DEF GuestInv, UnwatchedInv
<1> USE <1>1, <1>2, <1>3, <1>4 DEF TypeOK
<1>5. MonitorInv'
  <2> SUFFICES ASSUME NEW g \in Guests
               PROVE  /\ guest[g] = "none" => monitor'[g] = "none"
                      /\ monitor'[g] = "none" /\ guest[g] # "none" =>
                           \E u \in Callers : mine[u] = g /\ pc'[u] \in {"joinLog", "joinMonitor"}
                      /\ monitor'[g] = "waiting" => guest[g] \in Alive \union {"zombie"}
                      /\ monitor'[g] \in {"reaped"} \union Over => guest[g] = "reaped"
    BY DEF MonitorInv
  <2>1. CASE g = mine[t]
    BY <2>1 DEF Alive, Over
  <2>2. CASE g # mine[t]
    BY <2>2 DEF GuestInv, MonitorInv
  <2>3. QED
    BY <2>1, <2>2
<1>6. UnwatchedInv'
  BY DEF UnwatchedInv, Locked
<1>7. PidInv'
  BY DEF GuestInv, PidInv
<1>8. StateInv'
  BY FreeAssumption DEF StateInv, Locked, Started
<1>9. OrderInv'
  BY DEF GuestInv, OrderInv, Alive
<1>10. QED
  BY <1>5, <1>6, <1>7, <1>8, <1>9 DEF GuestInv

\* The rest of startContainer's critical section touches the pump alone.
LEMMA PumpLockedStep ==
  ASSUME TypeOK, LockInv, GuestInv, NEW t \in Callers, PumpExchange(t) \/ PumpAssign(t)
  PROVE  GuestInv'
<1>1. /\ pc[t] \in {"pumpExchange", "pumpAssign"} /\ mMutex = t /\ mine[t] \in Guests
      /\ mGuestPid = mine[t] /\ mState = "RUNNING"
  BY DEF PumpExchange, PumpAssign, LockInv, MutexInv, MineInv, GuestInv, StateInv, Locked, Started
<1>2. \A u \in Callers \ {t} : pc[u] \notin Locked
  BY <1>1 DEF LockInv, MutexInv
<1>3. /\ UNCHANGED <<mine, mState, mGuestPid, monitor, guest>>
      /\ \/ mMutex' = Free /\ pc' = [pc EXCEPT ![t] = "load"]
         \/ mMutex' = mMutex /\ pc' = [pc EXCEPT ![t] = "pumpAssign"]
  BY DEF PumpExchange, PumpAssign, Unlock, Goto
<1> USE <1>1, <1>2, <1>3 DEF TypeOK
<1>4. MonitorInv'
  <2>1. \A u \in Callers : pc[u] \in {"joinLog", "joinMonitor"} => pc'[u] = pc[u]
    OBVIOUS
  <2>2. QED
    BY <2>1 DEF GuestInv, MonitorInv
<1>5. UnwatchedInv'
  BY DEF UnwatchedInv, Locked
<1>6. PidInv'
  <2>1. \A u \in Callers : pc[u] = "joinMonitor" => pc'[u] = pc[u]
    OBVIOUS
  <2>2. QED
    BY <2>1 DEF GuestInv, PidInv
<1>7. StateInv'
  BY FreeAssumption, GuestFacts DEF StateInv, Locked, Started
<1>8. OrderInv'
  BY DEF GuestInv, OrderInv
<1>9. QED
  BY <1>4, <1>5, <1>6, <1>7, <1>8 DEF GuestInv

\* The end of a guest, by itself or by stopContainer's signal, and setpgid.
LEMMA ProcessStep ==
  ASSUME TypeOK, GuestInv, NEW g \in Guests,
         guest[g] \in Alive,
         \E s \in {"grouped", "zombie"} : guest' = [guest EXCEPT ![g] = s],
         UNCHANGED <<mMutex, mState, mGuestPid, monitor>>,
         \A u \in Callers :
           \/ pc'[u] = pc[u] /\ mine'[u] = mine[u]
           \/ pc[u] \notin Locked /\ pc'[u] \notin Locked
  PROVE  GuestInv'
<1> USE DEF TypeOK, Locked, Started
<1>1. MonitorInv'
  BY DEF GuestInv, MonitorInv, Alive
<1>2. UnwatchedInv'
  BY DEF GuestInv, UnwatchedInv, Alive
<1>3. PidInv'
  BY DEF GuestInv, PidInv
<1>4. StateInv'
  BY DEF GuestInv, StateInv
<1>5. OrderInv'
  BY DEF GuestInv, OrderInv, Alive
<1>6. QED
  BY <1>1, <1>2, <1>3, <1>4, <1>5 DEF GuestInv

\* A monitor that reaps its guest has it in mGuestPid and goes on.
LEMMA ReapStep ==
  ASSUME TypeOK, GuestInv, NEW g \in Guests, Reap(g)
  PROVE  GuestInv'
<1>1. /\ monitor[g] = "waiting" /\ guest[g] = "zombie"
      /\ guest' = [guest EXCEPT ![g] = "reaped"] /\ monitor' = [monitor EXCEPT ![g] = "reaped"]
      /\ UNCHANGED <<pc, mine, mMutex, mState, mGuestPid>>
  BY DEF Reap, SetMonitor
<1> USE <1>1 DEF TypeOK
<1>2. MonitorInv'
  <2> SUFFICES ASSUME NEW h \in Guests
               PROVE  /\ guest'[h] = "none" => monitor'[h] = "none"
                      /\ monitor'[h] = "none" /\ guest'[h] # "none" =>
                           \E u \in Callers : mine[u] = h /\ pc[u] \in {"joinLog", "joinMonitor"}
                      /\ monitor'[h] = "waiting" => guest'[h] \in Alive \union {"zombie"}
                      /\ monitor'[h] \in {"reaped"} \union Over => guest'[h] = "reaped"
    BY DEF MonitorInv
  <2>1. CASE h = g
    BY <2>1
  <2>2. CASE h # g
    BY <2>2 DEF GuestInv, MonitorInv
  <2>3. QED
    BY <2>1, <2>2
<1>3. UnwatchedInv'
  BY DEF GuestInv, UnwatchedInv
<1>4. PidInv'
  BY DEF GuestInv, PidInv
<1>5. StateInv'
  BY DEF GuestInv, StateInv
<1>6. OrderInv'
  BY DEF GuestInv, OrderInv, Over
<1>7. QED
  BY <1>2, <1>3, <1>4, <1>5, <1>6 DEF GuestInv

\* A monitor's critical section forgets its guest, and leaves mGuestPid alone when it is another's.
LEMMA RetireStep ==
  ASSUME TypeOK, LockInv, GuestInv, NEW g \in Guests, Retire(g)
  PROVE  GuestInv'
<1>1. /\ monitor[g] = "reaped" /\ mMutex = Free
      /\ mState' \in {"CRASHED", "TERMINATED"} /\ mGuestPid' = None
      /\ monitor' = [monitor EXCEPT ![g] = "load"]
      /\ UNCHANGED <<pc, mine, mMutex, guest>>
  BY DEF Retire, SetMonitor
<1>2. \A u \in Callers : pc[u] \notin Locked
  BY <1>1, FreeAssumption DEF LockInv, MutexInv
<1>3. mGuestPid = g
  BY <1>1 DEF GuestInv, PidInv
<1> USE <1>1, <1>2, <1>3 DEF TypeOK
<1>4. MonitorInv'
  BY DEF GuestInv, MonitorInv, Over
<1>5. UnwatchedInv'
  BY DEF UnwatchedInv, Locked
<1>6. PidInv'
  BY DEF GuestInv, PidInv
<1>7. StateInv'
  BY DEF StateInv, Locked, Started
<1>8. OrderInv'
  BY DEF GuestInv, OrderInv, Over
<1>9. QED
  BY <1>4, <1>5, <1>6, <1>7, <1>8 DEF GuestInv

\* InvokeStateCallback on a monitor, after its critical section.
LEMMA EndedStep ==
  ASSUME TypeOK, GuestInv, NEW g \in Guests, LoadEnded(g) \/ CallEnded(g) \/ ListenerReturns(g)
  PROVE  GuestInv'
<1>1. /\ monitor[g] \in {"load", "call", "inListener"}
      /\ \E l \in {"call", "inListener", "done"} : monitor' = [monitor EXCEPT ![g] = l]
      /\ UNCHANGED <<pc, mine, mMutex, mState, mGuestPid, guest>>
  BY DEF LoadEnded, CallEnded, ListenerReturns, SetMonitor
<1> USE <1>1 DEF TypeOK
<1>2. MonitorInv'
  BY DEF GuestInv, MonitorInv, Over
<1>3. UnwatchedInv'
  BY DEF GuestInv, UnwatchedInv
<1>4. PidInv'
  BY DEF GuestInv, PidInv
<1>5. StateInv'
  BY DEF GuestInv, StateInv
<1>6. OrderInv'
  BY DEF GuestInv, OrderInv, Over
<1>7. QED
  BY <1>2, <1>3, <1>4, <1>5, <1>6 DEF GuestInv

\* Every step keeps what is known of guests, monitors and the state: one case per action.
LEMMA GuestStep ==
  ASSUME TypeOK, LockInv, GuestInv, [Next]_vars
  PROVE  GuestInv'
<1>1. ASSUME NEW t \in Callers, CallStart(t) \/ CallStop(t) \/ CallerStep(t) PROVE GuestInv'
  <2>1. CASE StartLocked(t)
    <3>1. CASE Fork(t)
      <4>1. CASE mState \in {"RUNNING", "STARTING"}
        BY <2>1, <3>1, <4>1 DEF StartLocked, Fork, Goto, TypeOK
      <4>2. CASE mState \notin {"RUNNING", "STARTING"}
        BY <2>1, <3>1, <4>2, ForkStep
      <4>3. QED
        BY <4>1, <4>2
    <3>2. CASE ~Fork(t)
      <4>1. /\ pc[t] = "startLock" /\ mMutex = Free /\ pc' = [pc EXCEPT ![t] = "idle"]
            /\ mine' = [mine EXCEPT ![t] = None]
            /\ UNCHANGED <<mMutex, mGuestPid, guest, monitor>>
            /\ mState' = mState \/ (mState' = "STOPPED" /\ mState \notin {"RUNNING", "STARTING"})
        BY <2>1, <3>2, StartLockedFacts
      <4>2. \A u \in Callers : pc[u] \notin Locked /\ pc'[u] \notin Locked
        BY <4>1, FreeAssumption DEF LockInv, MutexInv, Locked, TypeOK
      <4>3. MonitorInv' /\ UnwatchedInv' /\ PidInv' /\ OrderInv'
        BY <4>1, <4>2 DEF GuestInv, MonitorInv, UnwatchedInv, PidInv, OrderInv, Locked
      <4>4. StateInv'
        BY <4>1, <4>2 DEF GuestInv, StateInv, Locked, Started
      <4>5. QED
        BY <4>3, <4>4 DEF GuestInv
    <3>3. QED
      BY <3>1, <3>2
  <2>2. CASE JoinLog(t)
    BY <2>2, JoinLogStep
  <2>3. CASE JoinMonitor(t)
    BY <2>3, WatchStep
  <2>4. CASE PumpExchange(t) \/ PumpAssign(t)
    BY <2>4, PumpLockedStep
  <2>5. CASE CallStart(t) \/ CallStop(t) \/ LoadRunning(t) \/ CallRunning(t) \/ JoinPump(t)
    <3>1. pc[t] \notin Locked /\ pc'[t] \notin Locked
      BY <2>5 DEF CallStart, CallStop, Enter, LoadRunning, CallRunning, Return, JoinPump, Goto,
         Locked, TypeOK
    <3>2. UNCHANGED <<mMutex, mState, mGuestPid, guest, monitor>>
      BY <2>5 DEF CallStart, CallStop, LoadRunning, CallRunning, JoinPump, native
    <3>3. QED
      BY <1>1, <3>1, <3>2, CallersStay, GuestFrame
  <2>6. CASE StopLocked(t)
    <3>1. pc[t] \notin Locked /\ pc'[t] \notin Locked
      BY <2>6 DEF StopLocked, Return, Goto, Locked, TypeOK
    <3>2. UNCHANGED <<mMutex, mState, mGuestPid, monitor>>
      BY <2>6 DEF StopLocked, native
    <3>3. \/ guest' = guest
          \/ /\ mGuestPid \in Guests /\ guest[mGuestPid] \in Alive
             /\ guest' = [guest EXCEPT ![mGuestPid] = "zombie"]
      BY <2>6 DEF StopLocked, TypeOK, Alive
    <3>4. \A u \in Callers : \/ pc'[u] = pc[u] /\ mine'[u] = mine[u]
                             \/ pc[u] \notin Locked /\ pc'[u] \notin Locked
      BY <1>1, <3>1, CallersStay
    <3>5. QED
      BY <3>2, <3>3, <3>4, GuestFrame, ProcessStep
  <2>7. CASE JoinSelf(t)
    BY <2>7, GuestFrame DEF JoinSelf, native
  <2>8. QED
    BY <1>1, <2>1, <2>2, <2>3, <2>4, <2>5, <2>6, <2>7 DEF CallerStep
<1>2. ASSUME NEW g \in Guests, MonitorStep(g) \/ Setpgid(g) \/ GuestEnds(g) \/ PipeCloses(g)
      PROVE  GuestInv'
  <2>1. CASE Setpgid(g) \/ GuestEnds(g)
    BY <2>1, ProcessStep DEF Setpgid, GuestEnds, Alive, native
  <2>2. CASE PipeCloses(g)
    BY <2>2, GuestFrame DEF PipeCloses, native
  <2>3. QED
    BY <1>2, <2>1, <2>2, ReapStep, RetireStep, EndedStep DEF MonitorStep
<1>3. CASE AddListener \/ RemoveListener \/ PumpEnds \/ UNCHANGED vars
  BY <1>3, GuestFrame DEF AddListener, RemoveListener, PumpEnds, vars, native
<1>4. QED
  BY <1>1, <1>2, <1>3 DEF Next

(***************************************************************************)
(* The order of the monitors, and of what the listener is told.            *)
(***************************************************************************)

\* What a step does to the monitors: one is started for the caller's own guest, one goes
\* on, or none changes; a monitor that is done stays so.
LEMMA MonitorStepFacts ==
  ASSUME TypeOK, LockInv, GuestInv, [Next]_vars
  PROVE  /\ \/ monitor' = monitor /\ monThread' = monThread
            \/ \E t \in Callers : JoinMonitor(t)
            \/ /\ monThread' = monThread
               /\ \E g \in Guests : /\ monitor[g] \notin {"none", "done"}
                                    /\ \E l \in {"reaped", "load", "call", "inListener", "done"} :
                                         monitor' = [monitor EXCEPT ![g] = l]
         /\ \A g \in Guests : monitor[g] = "done" => monitor'[g] = "done"
<1>1. \/ monitor' = monitor /\ monThread' = monThread
      \/ \E t \in Callers : JoinMonitor(t)
      \/ /\ monThread' = monThread
         /\ \E g \in Guests : /\ monitor[g] \notin {"none", "done"}
                              /\ \E l \in {"reaped", "load", "call", "inListener", "done"} :
                                   monitor' = [monitor EXCEPT ![g] = l]
  <2>1. ASSUME NEW t \in Callers, CallStart(t) \/ CallStop(t) \/ CallerStep(t), ~JoinMonitor(t)
        PROVE  monitor' = monitor /\ monThread' = monThread
    <3>1. CASE StartLocked(t)
      BY <3>1, StartLockedFacts
    <3>2. CASE ~StartLocked(t)
      BY <2>1, <3>2 DEF CallStart, CallStop, CallerStep, JoinLog, JoinSelf, PumpExchange,
         PumpAssign,
         LoadRunning, CallRunning, JoinPump, StopLocked, native
    <3>3. QED
      BY <3>1, <3>2
  <2>2. ASSUME NEW g \in Guests, MonitorStep(g)
        PROVE  /\ monThread' = monThread
               /\ monitor[g] \notin {"none", "done"}
               /\ \E l \in {"reaped", "load", "call", "inListener", "done"} :
                    monitor' = [monitor EXCEPT ![g] = l]
    BY <2>2 DEF MonitorStep, Reap, Retire, LoadEnded, CallEnded, ListenerReturns, SetMonitor
  <2>3. ASSUME NEW g \in Guests, Setpgid(g) \/ GuestEnds(g) \/ PipeCloses(g)
        PROVE  monitor' = monitor /\ monThread' = monThread
    BY <2>3 DEF Setpgid, GuestEnds, PipeCloses, native
  <2>4. CASE AddListener \/ RemoveListener \/ PumpEnds \/ UNCHANGED vars
    BY <2>4 DEF AddListener, RemoveListener, PumpEnds, vars, native
  <2>5. QED
    BY <2>1, <2>2, <2>3, <2>4 DEF Next
<1>2. ASSUME NEW t \in Callers, JoinMonitor(t), NEW g \in Guests, monitor[g] = "done"
      PROVE  monitor'[g] = "done"
  <2>1. monitor[mine[t]] = "none"
    BY <1>2 DEF JoinMonitor, GuestInv, UnwatchedInv
  <2>2. monitor' = [monitor EXCEPT ![mine[t]] = "waiting"]
    BY <1>2 DEF JoinMonitor, Watch
  <2>3. QED
    BY <1>2, <2>1, <2>2 DEF TypeOK
<1>3. QED
  BY <1>1, <1>2 DEF TypeOK

\* At the join of the earlier monitor every earlier guest's is done.
LEMMA JoinedFacts ==
  ASSUME TypeOK, LockInv, GuestInv, MonThreadInv, NEW t \in Callers, JoinMonitor(t)
  PROVE  /\ mine[t] \in Guests
         /\ \A g \in Guests : monitor[g] \in {"none", "done"}
         /\ \A h \in Guests : h < mine[t] => monitor[h] = "done"
<1>1. pc[t] = "joinMonitor" /\ mine[t] \in Guests
  BY DEF JoinMonitor, LockInv, MineInv, Locked
<1>2. \A g \in Guests : monitor[g] \in {"none", "done"}
  BY GuestFacts DEF JoinMonitor, MonThreadInv
<1>3. guest[mine[t]] # "none"
  BY <1>1 DEF GuestInv, UnwatchedInv, Alive
<1>4. \A h \in Guests : h < mine[t] => monitor[h] \in Over
  BY <1>1, <1>3 DEF GuestInv, OrderInv
<1>5. QED
  BY <1>1, <1>2, <1>4 DEF Over

\* A monitor still at work is the one mMonitorThread holds: the join before an assignment sees to it.
LEMMA MonThreadStep ==
  ASSUME TypeOK, LockInv, GuestInv, MonThreadInv, [Next]_vars
  PROVE  MonThreadInv'
<1>1. ASSUME NEW t \in Callers, JoinMonitor(t) PROVE MonThreadInv'
  <2>1. monitor' = [monitor EXCEPT ![mine[t]] = "waiting"] /\ monThread' = mine[t]
    BY <1>1 DEF JoinMonitor, Watch
  <2>2. QED
    BY <1>1, <2>1, JoinedFacts DEF MonThreadInv, TypeOK
<1>2. QED
  BY <1>1, MonitorStepFacts DEF MonThreadInv, TypeOK

\* A caller past that join has no earlier monitor at work beside it.
LEMMA RunStep ==
  ASSUME TypeOK, LockInv, GuestInv, MonThreadInv, RunInv, [Next]_vars
  PROVE  RunInv'
<1> SUFFICES ASSUME NEW t \in Callers, pc'[t] \in Watched, NEW h \in Guests, h < mine'[t]
             PROVE  monitor'[h] = "done"
  BY DEF RunInv
<1>1. CASE JoinMonitor(t)
  <2>1. mine' = mine
    BY <1>1 DEF JoinMonitor, Watch
  <2>2. monitor[h] = "done"
    BY <1>1, <2>1, JoinedFacts
  <2>3. QED
    BY <2>2, MonitorStepFacts
<1>2. CASE ~JoinMonitor(t)
  <2>1. pc[t] \in Watched /\ mine'[t] = mine[t]
    <3>1. ASSUME CallStart(t) \/ CallStop(t) \/ CallerStep(t)
          PROVE  pc[t] \in Watched /\ mine'[t] = mine[t]
      <4>1. ~StartLocked(t)
        BY StartLockedFacts DEF Fork, Goto, Watched, TypeOK
      <4>2. QED
        BY <1>2, <3>1, <4>1 DEF CallStart, CallStop, Enter, CallerStep, JoinLog, JoinSelf,
           PumpExchange,
           PumpAssign, Unlock, LoadRunning, CallRunning, Return, JoinPump, StopLocked, Goto,
           Watched, TypeOK
    <3>2. ASSUME NEW u \in Callers, u # t, CallStart(u) \/ CallStop(u) \/ CallerStep(u)
          PROVE  pc[t] \in Watched /\ mine'[t] = mine[t]
      BY <3>2, CallersStay
    <3>3. CASE OtherStep
      BY <3>3, OtherStepFacts
    <3>4. CASE UNCHANGED vars
      BY <3>4 DEF vars
    <3>5. QED
      BY <3>1, <3>2, <3>3, <3>4 DEF Next, OtherStep
  <2>2. monitor[h] = "done"
    BY <2>1 DEF RunInv
  <2>3. QED
    BY <2>2, MonitorStepFacts
<1>3. QED
  BY <1>1, <1>2

\* What is delivered: "running" by a caller about its own guest, "ended" by a monitor about
\* the guest it goes by.
LEMMA ToldStepFacts ==
  ASSUME TypeOK, LockInv, [Next]_vars
  PROVE  \/ told' = told
         \/ \E t \in Callers : /\ pc[t] = "call" /\ mine[t] \in Guests
                               /\ told' = [told EXCEPT ![mine[t]] = @ \union {"running"}]
         \/ \E g \in Guests : /\ monitor[g] = "call"
                              /\ told' = [told EXCEPT ![g] = @ \union {"ended"}]
<1>1. ASSUME NEW t \in Callers, CallRunning(t)
      PROVE  \/ told' = told
             \/ /\ pc[t] = "call" /\ mine[t] \in Guests
                /\ told' = [told EXCEPT ![mine[t]] = @ \union {"running"}]
  <2>1. pc[t] = "call" /\ mine[t] \in Guests
    BY <1>1 DEF CallRunning, LockInv, MineInv
  <2>2. QED
    BY <1>1, <2>1 DEF CallRunning, Deliver
<1>2. ASSUME NEW t \in Callers, CallStart(t) \/ CallStop(t) \/ CallerStep(t), ~CallRunning(t)
      PROVE  told' = told
  <2>1. CASE StartLocked(t)
    BY <2>1, StartLockedFacts DEF heard
  <2>2. CASE ~StartLocked(t)
    BY <1>2, <2>2 DEF CallStart, CallStop, CallerStep, JoinLog, JoinMonitor, JoinSelf, Watch,
       PumpExchange,
       PumpAssign, LoadRunning, JoinPump, StopLocked, heard
  <2>3. QED
    BY <2>1, <2>2
<1>3. ASSUME NEW g \in Guests, CallEnded(g)
      PROVE  \/ told' = told
             \/ monitor[g] = "call" /\ told' = [told EXCEPT ![g] = @ \union {"ended"}]
  BY <1>3 DEF CallEnded, Deliver
<1>4. ASSUME NEW g \in Guests,
             \/ Reap(g) \/ Retire(g) \/ LoadEnded(g) \/ ListenerReturns(g)
             \/ Setpgid(g) \/ GuestEnds(g) \/ PipeCloses(g)
      PROVE  told' = told
  BY <1>4 DEF Reap, Retire, LoadEnded, ListenerReturns, Setpgid, GuestEnds, PipeCloses, heard
<1>5. CASE AddListener \/ RemoveListener \/ PumpEnds \/ UNCHANGED vars
  BY <1>5 DEF AddListener, RemoveListener, PumpEnds, vars, heard
<1>6. QED
  BY <1>1, <1>2, <1>3, <1>4, <1>5 DEF Next, MonitorStep

\* RUNNING is dispatched by a caller past the join, so the earlier ends have been told.
LEMMA ToldStep ==
  ASSUME TypeOK, LockInv, GuestInv, RunInv, ToldInv, [Next]_vars
  PROVE  ToldInv'
<1> SUFFICES ASSUME NEW g \in Guests, NEW h \in Guests, h < g, "running" \in told'[g]
             PROVE  monitor'[h] = "done"
  BY DEF ToldInv
<1>1. monitor[h] = "done"
  <2>1. CASE "running" \in told[g]
    BY <2>1 DEF ToldInv
  <2>2. CASE "running" \notin told[g]
    <3>1. PICK t \in Callers : pc[t] = "call" /\ mine[t] = g
      BY <2>2, ToldStepFacts DEF TypeOK
    <3>2. QED
      BY <3>1 DEF RunInv, Watched
  <2>3. QED
    BY <2>1, <2>2
<1>2. QED
  BY <1>1, MonitorStepFacts

(***************************************************************************)
(* The pump.                                                               *)
(***************************************************************************)

\* One call at a time: the history variable says so until a call meets another.
LEMMA SerialStep ==
  ASSUME TypeOK, SerialInv, [Next]_vars
  PROVE  SerialInv'
<1>1. ASSUME NEW t \in Callers, CallStart(t) \/ CallStop(t) PROVE SerialInv'
  <2>1. overlapped' = (overlapped \/ \E u \in Callers : pc[u] # "idle")
    BY <1>1 DEF CallStart, CallStop, Enter
  <2>2. \A u \in Callers \ {t} : pc'[u] = pc[u]
    BY <1>1, CallersStay
  <2>3. QED
    BY <2>1, <2>2 DEF SerialInv
<1>2. ASSUME NEW t \in Callers, CallerStep(t) PROVE SerialInv'
  <2>1. pc[t] # "idle" /\ overlapped' = overlapped
    <3>1. CASE StartLocked(t)
      BY <3>1, StartLockedFacts
    <3>2. CASE ~StartLocked(t)
      BY <1>2, <3>2 DEF CallerStep, JoinLog, JoinMonitor, JoinSelf, Watch, PumpExchange,
         PumpAssign,
         LoadRunning, CallRunning, JoinPump, StopLocked
    <3>3. QED
      BY <3>1, <3>2
  <2>2. \A u \in Callers \ {t} : pc'[u] = pc[u]
    BY <1>2, CallersStay
  <2>3. QED
    BY <2>1, <2>2 DEF SerialInv
<1>3. CASE OtherStep
  BY <1>3, OtherStepFacts DEF SerialInv
<1>4. CASE UNCHANGED vars
  BY <1>4 DEF vars, SerialInv
<1>5. QED
  BY <1>1, <1>2, <1>3, <1>4 DEF Next, OtherStep

\* With one call at a time the pump's flag and its thread change together.
LEMMA PumpStep ==
  ASSUME TypeOK, SerialInv, PumpInv, Next
  PROVE  PumpInv'
<1> USE DEF PumpInv, TypeOK
<1> SUFFICES ASSUME ~overlapped' PROVE PumpInv'
  OBVIOUS
<1>1. ASSUME NEW t \in Callers, CallStart(t) \/ CallStop(t) PROVE PumpInv'
  <2>1. ~overlapped /\ \A u \in Callers : pc[u] = "idle"
    BY <1>1 DEF CallStart, CallStop, Enter
  <2>2. aborted' = aborted /\ pumpThread' = pumpThread
    BY <1>1 DEF CallStart, CallStop, pump
  <2>3. CASE CallStart(t)
    <3>1. pumpFlag' = pumpFlag /\ pc' = [pc EXCEPT ![t] = "startLock"]
      BY <2>3 DEF CallStart, Enter, Goto, pump
    <3>2. QED
      BY <2>1, <2>2, <3>1
  <2>4. CASE CallStop(t)
    <3>1. /\ pumpFlag' = FALSE
          /\ pc' = [pc EXCEPT ![t] = IF pumpFlag THEN "joinPump" ELSE "stopLock"]
      BY <2>4 DEF CallStop, Enter, Goto
    <3>2. pumpThread = IF pumpFlag THEN "running" ELSE "none"
      BY <2>1
    <3>3. pc'[t] = (IF pumpFlag THEN "joinPump" ELSE "stopLock") /\ \A u \in Callers \ {t} : pc'[u] = "idle"
      BY <2>1, <3>1
    <3>4. QED
      BY <2>1, <2>2, <3>1, <3>2, <3>3
  <2>5. QED
    BY <1>1, <2>3, <2>4
<1>2. ASSUME NEW t \in Callers, CallerStep(t) PROVE PumpInv'
  <2>1. pc[t] # "idle" /\ ~overlapped
    <3>1. CASE StartLocked(t)
      BY <3>1, StartLockedFacts
    <3>2. CASE ~StartLocked(t)
      BY <1>2, <3>2 DEF CallerStep, JoinLog, JoinMonitor, JoinSelf, Watch, PumpExchange,
         PumpAssign,
         LoadRunning, CallRunning, JoinPump, StopLocked
    <3>3. QED
      BY <3>1, <3>2
  <2>2. \A u \in Callers \ {t} : pc[u] = "idle" /\ pc'[u] = "idle"
    BY <1>2, <2>1, CallersStay DEF SerialInv
  <2>3. CASE StartLocked(t)
    <3>1. pc[t] = "startLock" /\ pc'[t] \in {"idle", "joinLog"}
      BY <2>3, StartLockedFacts DEF Fork, Goto
    <3>2. UNCHANGED <<pumpFlag, pumpThread, aborted>>
      BY <2>3, StartLockedFacts DEF pump
    <3>3. QED
      BY <2>1, <2>2, <3>1, <3>2
  <2>4. CASE JoinLog(t) \/ JoinMonitor(t) \/ StopLocked(t)
    <3>1. /\ pc[t] \in {"joinLog", "joinMonitor", "stopLock"}
          /\ pc'[t] \in {"joinMonitor", "pumpExchange", "idle"}
          /\ UNCHANGED <<pumpFlag, pumpThread, aborted>>
      BY <2>4 DEF JoinLog, JoinMonitor, Watch, StopLocked, Return, Goto, pump
    <3>2. QED
      BY <2>1, <2>2, <3>1
  <2>5. CASE LoadRunning(t) \/ CallRunning(t)
    <3>1. /\ pc[t] \in {"load", "call"} /\ pc'[t] \in {"call", "idle"}
          /\ UNCHANGED <<pumpFlag, pumpThread>> /\ aborted' \in {aborted, "listener"}
      BY <2>5 DEF LoadRunning, CallRunning, Return, Deliver, Goto, pump
    <3>2. QED
      BY <2>1, <2>2, <3>1
  <2>6. CASE PumpExchange(t)
    <3>1. /\ pc[t] = "pumpExchange" /\ pc'[t] = (IF pumpFlag THEN "load" ELSE "pumpAssign")
          /\ pumpFlag' = TRUE /\ UNCHANGED <<pumpThread, aborted>>
      BY <2>6 DEF PumpExchange, Unlock, Goto
    <3>2. QED
      BY <2>1, <2>2, <3>1
  <2>7. CASE PumpAssign(t)
    <3>1. pc[t] = "pumpAssign" /\ pc'[t] = "load" /\ pumpFlag' = pumpFlag
      BY <2>7 DEF PumpAssign, Unlock, Goto
    <3>2. pumpFlag /\ pumpThread = "none"
      BY <2>1, <3>1
    <3>3. pumpThread' = "running" /\ aborted' = aborted
      BY <2>7, <3>2 DEF PumpAssign
    <3>4. QED
      BY <2>1, <2>2, <3>1, <3>2, <3>3
  <2>8. CASE JoinPump(t)
    <3>1. /\ pc[t] = "joinPump" /\ pc'[t] = "stopLock"
          /\ pumpThread' = "none" /\ UNCHANGED <<pumpFlag, aborted>>
      BY <2>8 DEF JoinPump, Goto
    <3>2. ~pumpFlag
      BY <2>1, <3>1
    <3>3. QED
      BY <2>1, <2>2, <3>1, <3>2
  <2>9. CASE JoinSelf(t)
    <3>1. aborted' = "join" /\ UNCHANGED <<pc, pumpFlag, pumpThread>>
      BY <2>9 DEF JoinSelf, pump
    <3>2. QED
      BY <2>1, <2>2, <3>1
  <2>10. QED
    BY <1>2, <2>3, <2>4, <2>5, <2>6, <2>7, <2>8, <2>9 DEF CallerStep
<1>3. CASE PumpEnds
  BY <1>3 DEF PumpEnds
<1>4. CASE OtherStep /\ ~PumpEnds
  <2>1. UNCHANGED <<pc, overlapped>>
    BY <1>4, OtherStepFacts
  <2>2. UNCHANGED <<pumpFlag, pumpThread>> /\ aborted' \in {aborted, "listener"}
    BY <1>4 DEF OtherStep, MonitorStep, Reap, Retire, LoadEnded, CallEnded, Deliver,
       ListenerReturns, Setpgid, GuestEnds, PipeCloses, AddListener, RemoveListener, pump
  <2>3. QED
    BY <2>1, <2>2
<1>5. QED
  BY <1>1, <1>2, <1>3, <1>4 DEF Next, OtherStep

(***************************************************************************)
(* The invariant holds, and what it gives.                                 *)
(***************************************************************************)

\* The first state has no guest and no call.
LEMMA LifecycleInit == Init => IInv
<1> SUFFICES ASSUME Init PROVE IInv
  OBVIOUS
<1>1. TypeOK
  BY LifecycleTypeInit
<1>2. LockInv
  BY FreeAssumption DEF Init, LockInv, MutexInv, MineInv, Locked
<1>3. GuestInv
  BY DEF Init, GuestInv, MonitorInv, UnwatchedInv, PidInv, StateInv, OrderInv, Started, Over,
     Alive
<1>4. OrderedInv
  BY DEF Init, OrderedInv, MonThreadInv, RunInv, ToldInv, Watched
<1>5. PumpedInv
  BY DEF Init, PumpedInv, SerialInv, PumpInv
<1>6. QED
  BY <1>1, <1>2, <1>3, <1>4, <1>5 DEF IInv

\* The parts together are inductive.
LEMMA LifecycleInvariant == Spec => []IInv
<1>1. IInv /\ [Next]_vars => IInv'
  <2> SUFFICES ASSUME IInv, [Next]_vars PROVE IInv'
    OBVIOUS
  <2>1. OrderedInv'
    BY MonThreadStep, RunStep, ToldStep DEF IInv, OrderedInv
  <2>2. PumpedInv'
    <3>1. CASE Next
      BY <3>1, SerialStep, PumpStep DEF IInv, PumpedInv
    <3>2. CASE UNCHANGED vars
      BY <3>2 DEF IInv, PumpedInv, SerialInv, PumpInv, vars, pump
    <3>3. QED
      BY <3>1, <3>2
  <2>3. QED
    BY <2>1, <2>2, LifecycleTypeStep, LockStep, GuestStep DEF IInv
<1>2. QED
  BY LifecycleInit, <1>1, PTL DEF Spec

\* However many threads call startContainer, there is one guest at most that has not been
\* waited for, and a monitor or the caller about to start one is there to wait for it.
THEOREM AtMostOneGuest == Spec => []OneGuestWatched
<1> DEFINE unreaped == {g \in Guests : guest[g] \in Alive \union {"zombie"}}
<1>1. ASSUME IInv PROVE OneGuestWatched
  <2>1. \A g, h \in unreaped : g = h
    BY <1>1, GuestFacts DEF IInv, GuestInv, OrderInv, Alive
  <2>2. Cardinality(unreaped) <= 1
    <3>1. CASE unreaped = {}
      BY <3>1, FS_EmptySet
    <3>2. CASE unreaped # {}
      <4>1. PICK g \in unreaped : unreaped = {g}
        BY <2>1, <3>2
      <4>2. QED
        BY <4>1, FS_Singleton
    <3>3. QED
      BY <3>1, <3>2
  <2>3. ASSUME NEW g \in unreaped
        PROVE  \/ monitor[g] = "waiting"
               \/ \E t \in Callers : mine[t] = g /\ pc[t] \in {"joinLog", "joinMonitor"}
    <3>1. monitor[g] \in {"none", "waiting"} /\ guest[g] # "none"
      BY <1>1 DEF IInv, TypeOK, GuestInv, MonitorInv, Over, Alive
    <3>2. QED
      BY <1>1, <3>1 DEF IInv, GuestInv, MonitorInv
  <2>4. QED
    BY <2>2, <2>3 DEF OneGuestWatched
<1>2. QED
  BY LifecycleInvariant, <1>1, PTL

\* When nobody holds the mutex, the state is RUNNING exactly while there is a pid, and that
\* pid belongs to a guest whose monitor has yet to report.
THEOREM StateAndPidAgree == Spec => []StateAgrees
<1>1. ASSUME IInv PROVE StateAgrees
  <2>1. mMutex = Free => \A t \in Callers : pc[t] \notin Locked
    BY <1>1, FreeAssumption DEF IInv, LockInv, MutexInv
  <2>2. QED
    BY <1>1, <2>1 DEF IInv, GuestInv, StateInv, PidInv, StateAgrees, Locked
<1>2. QED
  BY LifecycleInvariant, <1>1, PTL

\* As long as no two calls have been under way at once, no start meets a joinable pump
\* thread, and between calls the pump's flag and its thread agree.
THEOREM OneCallAtATimeIsSafe == Spec => []SerialCallsSafe
<1>1. IInv => SerialCallsSafe
  BY DEF IInv, PumpedInv, PumpInv, SerialCallsSafe
<1>2. QED
  BY LifecycleInvariant, <1>1, PTL

\* A listener that has been told that a guest is running is never told afterwards of the
\* end of an earlier one.
THEOREM EndsAreToldInOrder == Spec => EndBeforeNextRunning
<1> DEFINE InOrder ==
      \A g \in Guests : told'[g] \ told[g] = {"ended"} =>
        \A h \in Guests : h > g => "running" \notin told[h]
<1>1. ASSUME IInv, [Next]_vars PROVE InOrder
  <2> SUFFICES ASSUME NEW g \in Guests, told'[g] \ told[g] = {"ended"},
                      NEW h \in Guests, h > g
               PROVE  "running" \notin told[h]
    OBVIOUS
  <2>1. monitor[g] = "call"
    BY <1>1, ToldStepFacts DEF IInv, TypeOK
  <2>2. g < h
    BY GuestFacts
  <2>3. QED
    BY <1>1, <2>1, <2>2 DEF IInv, OrderedInv, ToldInv
<1>2. IInv /\ [Next]_vars => [InOrder]_vars
  BY <1>1
<1>3. QED
  BY LifecycleInvariant, <1>2, PTL DEF Spec, EndBeforeNextRunning
=============================================================================
