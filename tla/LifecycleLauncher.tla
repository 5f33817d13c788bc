------------------------- MODULE LifecycleLauncher -------------------------
(***************************************************************************)
(* The second launcher, guest_launcher.cpp, behind the lifecycle functions *)
(* of native_bridge.cpp: one guest, a monitor thread that waits for it, a  *)
(* thread that reads its log pipe, the test-frame pump, and the listener   *)
(* the ends are told to. Java threads call start and stop, and so may the  *)
(* listener, on the monitor thread that has called it; each call under way *)
(* has a name in Callers. Every blocking call and every access outside     *)
(* mMutex is a step of its own.                                            *)
(***************************************************************************)
EXTENDS Integers, FiniteSets

CONSTANTS
  Callers,       \* bound: calls of nativeStartContainer and nativeStopContainer at a time
  MaxGuests      \* bound: how many guests are forked in a behaviour

ASSUME CallersAssumption == IsFiniteSet(Callers) /\ Callers # {}
ASSUME MaxGuestsAssumption == MaxGuests \in Nat \ {0}

Guests == 1..MaxGuests           \* the guests' pids, in the order of the forks
None   == 0                      \* no guest: pid -1, a thread object that is not joinable
Free   == "free"                 \* nobody holds mMutex

ASSUME FreeAssumption == Free \notin Callers

VARIABLES
  pc,          \* where each caller is
  mine,        \* the guest the caller has forked in the call it is in
  from,        \* the monitor thread the call is on, if the listener makes it from there
  mMutex,      \* who holds it
  mState,      \* GuestLauncher::mState
  mGuestPid,   \* GuestLauncher::mGuestPid
  guest,       \* the guests' processes
  pipeHeld,    \* guests whose log pipe some process still holds open for writing
  logThread,   \* g_logPipeThread: the guest whose log it reads or has read
  monThread,   \* mMonitorThread: the guest it watches or has watched
  monitor,     \* where each guest's monitor is
  pumpFlag,    \* g_pumpRunning
  pumpThread,  \* g_framePumpThread
  listener,    \* does g_listener hold a reference?
  stale,       \* threads about to call a listener whose reference has been deleted
  told,        \* what has been delivered about each guest
  overlapped,  \* history: have two calls been under way at once?
  aborted      \* has the host process been aborted, and why

native == <<mMutex, mState, mGuestPid, logThread, monThread, monitor>>
pump   == <<pumpFlag, pumpThread>>
heard  == <<listener, stale, told>>
vars   == <<pc, mine, from, native, guest, pipeHeld, pump, heard, overlapped, aborted>>

Threads == Callers \union Guests  \* a monitor goes by its guest
Alive   == {"forked", "grouped"}

TypeOK ==
  /\ pc \in [Callers -> {"idle", "startLock", "joinLog", "joinMonitor", "pumpExchange",
                         "pumpAssign", "load", "call", "joinPump", "stopLock"}]
  /\ mine \in [Callers -> Guests \union {None}]
  /\ from \in [Callers -> Guests \union {None}]
  /\ mMutex \in Callers \union {Free}
  /\ mState \in {"STOPPED", "STARTING", "RUNNING", "CRASHED", "TERMINATED"}
  /\ mGuestPid \in Guests \union {None}
  /\ guest \in [Guests -> Alive \union {"none", "zombie", "reaped"}]
  /\ pipeHeld \subseteq Guests
  /\ logThread \in Guests \union {None} /\ monThread \in Guests \union {None}
  /\ monitor \in [Guests -> {"none", "waiting", "reaped", "load", "call", "inListener",
                           "done"}]
  /\ pumpFlag \in BOOLEAN /\ pumpThread \in {"none", "running", "ended"}
  /\ listener \in BOOLEAN /\ stale \subseteq Threads
  /\ told \in [Guests -> SUBSET {"running", "ended"}]
  /\ overlapped \in BOOLEAN
  /\ aborted \in {"no", "pump", "listener", "join"}

\* JNI_OnLoad has set the state callback; onCreate registers the listener.
Init ==
  /\ pc = [t \in Callers |-> "idle"] /\ mine = [t \in Callers |-> None]
  /\ from = [t \in Callers |-> None]
  /\ mMutex = Free
  /\ mState = "STOPPED" /\ mGuestPid = None
  /\ guest = [g \in Guests |-> "none"] /\ pipeHeld = {}
  /\ logThread = None /\ monThread = None
  /\ monitor = [g \in Guests |-> "none"]
  /\ pumpFlag = FALSE /\ pumpThread = "none"
  /\ listener = FALSE /\ stale = {}
  /\ told = [g \in Guests |-> {}]
  /\ overlapped = FALSE
  /\ aborted = "no"

Goto(t, l) == pc' = [pc EXCEPT ![t] = l]

Return(t) ==
  /\ Goto(t, "idle")
  /\ mine' = [mine EXCEPT ![t] = None]
  /\ from' = [from EXCEPT ![t] = None]

\* The monitors whose callback the listener is in without a call of its own under way.
MayCall == {g \in Guests : monitor[g] = "inListener" /\ \A t \in Callers : from[t] # g}

Enter(t, l) ==
  /\ pc[t] = "idle"
  /\ Goto(t, l)
  /\ \E g \in MayCall \union {None} : from' = [from EXCEPT ![t] = g]
  /\ overlapped' = (overlapped \/ \E u \in Callers : pc[u] # "idle")

----------------------------------------------------------------------------
(* startContainer                                                           *)

CallStart(t) ==
  /\ Enter(t, "startLock")
  /\ UNCHANGED <<mine, native, guest, pipeHeld, pump, heard, aborted>>

\* No linker, no binary, no pipe or no fork.
StartFails(t) ==
  /\ mState' = "STOPPED"
  /\ Return(t)
  /\ UNCHANGED <<mMutex, guest, pipeHeld>>

\* Mutant: the result of fork is not looked at.
Fork_Unchecked(t) ==
  /\ mine' = [mine EXCEPT ![t] = -1]
  /\ mState' = "STARTING"
  /\ mMutex' = t
  /\ Goto(t, "joinLog")
  /\ UNCHANGED <<from, guest, pipeHeld>>

Fork(t) ==
  \E g \in Guests :
    /\ guest[g] = "none" /\ \A h \in Guests : h < g => guest[h] # "none"
    /\ guest' = [guest EXCEPT ![g] = "forked"]
    /\ pipeHeld' = pipeHeld \union {g}
    /\ mine' = [mine EXCEPT ![t] = g]
    /\ mState' = "STARTING"
    /\ mMutex' = t
    /\ Goto(t, "joinLog")
    /\ UNCHANGED from

\* Mutant: a second start is not refused.
StartLocked_Again(t) ==
  /\ pc[t] = "startLock" /\ mMutex = Free
  /\ StartFails(t) \/ Fork(t)
  /\ UNCHANGED <<mGuestPid, logThread, monThread, monitor, pump, heard, overlapped, aborted>>

StartLocked(t) ==
  /\ pc[t] = "startLock" /\ mMutex = Free
  /\ IF mState \in {"RUNNING", "STARTING"}
     THEN Return(t) /\ UNCHANGED <<mMutex, mState, guest, pipeHeld>>
     ELSE StartFails(t) \/ Fork(t)
  /\ UNCHANGED <<mGuestPid, logThread, monThread, monitor, pump, heard, overlapped, aborted>>

\* The log thread ends at the end of the pipe, when the last process that holds it is gone;
\* until then the join waits, with the mutex held.
JoinLog(t) ==
  /\ pc[t] = "joinLog"
  /\ logThread \notin pipeHeld
  /\ logThread' = mine[t]
  /\ mGuestPid' = mine[t]
  /\ mState' = "RUNNING"
  /\ Goto(t, "joinMonitor")
  /\ UNCHANGED <<mine, from, mMutex, monThread, monitor, guest, pipeHeld, pump, heard, overlapped,
                 aborted>>

\* Mutant: the monitor is started for the first guest only.
Watch_Once(t) ==
  /\ monThread' = mine[t]
  /\ monitor' = IF monThread = None THEN [monitor EXCEPT ![mine[t]] = "waiting"] ELSE monitor
  /\ Goto(t, "pumpExchange")
  /\ UNCHANGED <<mine, from, mMutex, mState, mGuestPid, logThread, guest, pipeHeld, pump, heard,
                 overlapped, aborted>>

Watch(t) ==
  /\ monThread' = mine[t]
  /\ monitor' = [monitor EXCEPT ![mine[t]] = "waiting"]
  /\ Goto(t, "pumpExchange")
  /\ UNCHANGED <<mine, from, mMutex, mState, mGuestPid, logThread, guest, pipeHeld, pump, heard,
                 overlapped, aborted>>

\* Mutant: the previous monitor is detached where it should be joined.
JoinMonitor_Detach(t) ==
  /\ pc[t] = "joinMonitor"
  /\ Watch(t)

\* The previous guest's monitor is joined with its callback.
JoinMonitor(t) ==
  /\ pc[t] = "joinMonitor"
  /\ monThread # None => monitor[monThread] = "done"
  /\ Watch(t)

\* A start that the listener makes from the callback of the previous guest's monitor would
\* join the thread it runs on: join throws (EDEADLK), nothing catches, the process ends.
JoinSelf(t) ==
  /\ pc[t] = "joinMonitor"
  /\ monThread # None /\ from[t] = monThread
  /\ aborted' = "join"
  /\ UNCHANGED <<pc, mine, from, native, guest, pipeHeld, pump, heard, overlapped>>

Unlock(t) == mMutex' = Free /\ Goto(t, "load")

\* Mutant: a start that finds the pump running returns without giving the mutex back.
PumpExchange_KeepLock(t) ==
  /\ pc[t] = "pumpExchange"
  /\ pumpFlag' = TRUE
  /\ Goto(t, IF pumpFlag THEN "load" ELSE "pumpAssign")
  /\ UNCHANGED <<mine, from, native, guest, pipeHeld, pumpThread, heard, overlapped, aborted>>

\* startSoftwareFramePump: the flag and the thread object are two accesses, which
\* stopContainer meets without the mutex.
PumpExchange(t) ==
  /\ pc[t] = "pumpExchange"
  /\ pumpFlag' = TRUE
  /\ IF pumpFlag THEN Unlock(t) ELSE Goto(t, "pumpAssign") /\ UNCHANGED mMutex
  /\ UNCHANGED <<mine, from, mState, mGuestPid, logThread, monThread, monitor, guest, pipeHeld,
                 pumpThread, heard, overlapped, aborted>>

\* Assigning to a std::thread that is still joinable ends the process (std::terminate).
PumpAssign(t) ==
  /\ pc[t] = "pumpAssign"
  /\ IF pumpThread = "none"
     THEN pumpThread' = "running" /\ UNCHANGED aborted
     ELSE aborted' = "pump" /\ UNCHANGED pumpThread
  /\ Unlock(t)
  /\ UNCHANGED <<mine, from, mState, mGuestPid, logThread, monThread, monitor, guest, pipeHeld,
                 pumpFlag, heard, overlapped>>

----------------------------------------------------------------------------
(* InvokeStateCallback, from a caller (RUNNING) or from a monitor (the end). *)

\* The reference is loaded in one step and called in another, with nothing to keep
\* nativeSetLifecycleListener from deleting it in between: JNI aborts on a deleted one.
Deliver(thread, g, what) ==
  /\ IF thread \in stale
     THEN aborted' = "listener" /\ UNCHANGED told
     ELSE told' = [told EXCEPT ![g] = @ \union {what}] /\ UNCHANGED aborted
  /\ stale' = stale \ {thread}
  /\ UNCHANGED listener

LoadRunning(t) ==
  /\ pc[t] = "load"
  /\ IF listener THEN Goto(t, "call") /\ UNCHANGED <<mine, from>> ELSE Return(t)
  /\ UNCHANGED <<native, guest, pipeHeld, pump, heard, overlapped, aborted>>

CallRunning(t) ==
  /\ pc[t] = "call"
  /\ Deliver(t, mine[t], "running")
  /\ Return(t)
  /\ UNCHANGED <<native, guest, pipeHeld, pump, overlapped>>

AddListener ==
  /\ ~listener
  /\ listener' = TRUE
  /\ UNCHANGED <<pc, mine, from, native, guest, pipeHeld, pump, stale, told, overlapped, aborted>>

RemoveListener ==
  /\ listener
  /\ listener' = FALSE
  /\ stale' = stale \union {t \in Callers : pc[t] = "call"}
                    \union {g \in Guests : monitor[g] = "call"}
  /\ UNCHANGED <<pc, mine, from, native, guest, pipeHeld, pump, told, overlapped, aborted>>

----------------------------------------------------------------------------
(* monitorLoop                                                              *)

SetMonitor(g, l) == monitor' = [monitor EXCEPT ![g] = l]

Reap(g) ==
  /\ monitor[g] = "waiting" /\ guest[g] = "zombie"
  /\ guest' = [guest EXCEPT ![g] = "reaped"]
  /\ SetMonitor(g, "reaped")
  /\ UNCHANGED <<pc, mine, from, mMutex, mState, mGuestPid, logThread, monThread, pipeHeld, pump,
                 heard, overlapped, aborted>>

\* Mutant: the pid of the guest that has ended is kept.
Retire_KeepPid(g) ==
  /\ monitor[g] = "reaped" /\ mMutex = Free
  /\ mState' \in {"CRASHED", "TERMINATED"}
  /\ SetMonitor(g, "load")
  /\ UNCHANGED <<pc, mine, from, mMutex, mGuestPid, logThread, monThread, guest, pipeHeld, pump,
                 heard, overlapped, aborted>>

\* The critical section. CRASHED after a non-zero exit status, else TERMINATED.
Retire(g) ==
  /\ monitor[g] = "reaped" /\ mMutex = Free
  /\ mState' \in {"CRASHED", "TERMINATED"}
  /\ mGuestPid' = None
  /\ SetMonitor(g, "load")
  /\ UNCHANGED <<pc, mine, from, mMutex, logThread, monThread, guest, pipeHeld, pump, heard,
                 overlapped, aborted>>

LoadEnded(g) ==
  /\ monitor[g] = "load"
  /\ SetMonitor(g, IF listener THEN "call" ELSE "done")
  /\ UNCHANGED <<pc, mine, from, mMutex, mState, mGuestPid, logThread, monThread, guest,
                 pipeHeld, pump, heard, overlapped, aborted>>

CallEnded(g) ==
  /\ monitor[g] = "call"
  /\ Deliver(g, g, "ended")
  /\ SetMonitor(g, "inListener")
  /\ UNCHANGED <<pc, mine, from, mMutex, mState, mGuestPid, logThread, monThread, guest,
                 pipeHeld, pump, overlapped>>

\* The listener returns, when it has no call of its own under way.
ListenerReturns(g) ==
  /\ monitor[g] = "inListener"
  /\ \A t \in Callers : from[t] # g
  /\ SetMonitor(g, "done")
  /\ UNCHANGED <<pc, mine, from, mMutex, mState, mGuestPid, logThread, monThread, guest, pipeHeld,
                 pump, heard, overlapped, aborted>>

----------------------------------------------------------------------------
(* stopContainer                                                            *)

\* Mutant: the flag is cleared, the thread object is never joined.
CallStop_NoJoin(t) ==
  /\ Enter(t, "stopLock")
  /\ pumpFlag' = FALSE
  /\ UNCHANGED <<mine, native, guest, pipeHeld, pumpThread, heard, aborted>>

\* stopSoftwareFramePump, which comes before the lock, with its exchange.
CallStop(t) ==
  /\ Enter(t, IF pumpFlag THEN "joinPump" ELSE "stopLock")
  /\ pumpFlag' = FALSE
  /\ UNCHANGED <<mine, native, guest, pipeHeld, pumpThread, heard, aborted>>

JoinPump(t) ==
  /\ pc[t] = "joinPump"
  /\ pumpThread # "running"
  /\ pumpThread' = "none"
  /\ Goto(t, "stopLock")
  /\ UNCHANGED <<mine, from, native, guest, pipeHeld, pumpFlag, heard, overlapped, aborted>>

\* kill(-mGuestPid, signal) reaches the group if the child has made it; the guest may
\* handle the signal, and stopContainer does not wait.
StopLocked(t) ==
  /\ pc[t] = "stopLock" /\ mMutex = Free
  /\ \/ UNCHANGED guest
     \/ /\ mGuestPid # None /\ guest[mGuestPid] = "grouped"
        /\ guest' = [guest EXCEPT ![mGuestPid] = "zombie"]
  /\ Return(t)
  /\ UNCHANGED <<native, pipeHeld, pump, heard, overlapped, aborted>>

----------------------------------------------------------------------------
(* The pump thread and the guests.                                          *)

PumpEnds ==
  /\ pumpThread = "running" /\ ~pumpFlag
  /\ pumpThread' = "ended"
  /\ UNCHANGED <<pc, mine, from, native, guest, pipeHeld, pumpFlag, heard, overlapped, aborted>>

Setpgid(g) ==
  /\ guest[g] = "forked"
  /\ guest' = [guest EXCEPT ![g] = "grouped"]
  /\ UNCHANGED <<pc, mine, from, native, pipeHeld, pump, heard, overlapped, aborted>>

\* The guest ends by itself: it returns, crashes, or fails to exec.
GuestEnds(g) ==
  /\ guest[g] = "grouped"
  /\ guest' = [guest EXCEPT ![g] = "zombie"]
  /\ UNCHANGED <<pc, mine, from, native, pipeHeld, pump, heard, overlapped, aborted>>

\* The last process that writes to the pipe is gone: the guest, or one it left behind.
PipeCloses(g) ==
  /\ g \in pipeHeld /\ guest[g] \notin Alive
  /\ pipeHeld' = pipeHeld \ {g}
  /\ UNCHANGED <<pc, mine, from, native, guest, pump, heard, overlapped, aborted>>

----------------------------------------------------------------------------
CallerStep(t) ==
  \/ StartLocked(t) \/ JoinLog(t) \/ JoinMonitor(t) \/ JoinSelf(t)
  \/ PumpExchange(t) \/ PumpAssign(t)
  \/ LoadRunning(t) \/ CallRunning(t)
  \/ JoinPump(t) \/ StopLocked(t)

MonitorStep(g) == Reap(g) \/ Retire(g) \/ LoadEnded(g) \/ CallEnded(g) \/ ListenerReturns(g)

Next ==
  /\ aborted = "no"
  /\ \/ \E t \in Callers : CallStart(t) \/ CallStop(t) \/ CallerStep(t)
     \/ \E g \in Guests : MonitorStep(g) \/ Setpgid(g) \/ GuestEnds(g) \/ PipeCloses(g)
     \/ AddListener \/ RemoveListener
     \/ PumpEnds

\* The threads run on, and a thread that waits for a mutex which keeps coming free gets it
\* (SF). The listener's method ends, as ContainerService's does, which posts and returns.
\* Nothing makes a guest, or a process it has left behind, end.
Fairness ==
  /\ \A t \in Callers : SF_vars(aborted = "no" /\ CallerStep(t))
  /\ \A g \in Guests : SF_vars(aborted = "no" /\ MonitorStep(g))
  /\ WF_vars(aborted = "no" /\ PumpEnds)

Spec == Init /\ [][Next]_vars /\ Fairness

----------------------------------------------------------------------------
(* Properties                                                               *)

\* However many threads call startContainer, there is one guest at most that has not been
\* waited for, and some thread is there to wait for it: its monitor, or the caller that is
\* about to start the monitor.
OneGuestWatched ==
  LET unreaped == {g \in Guests : guest[g] \in Alive \union {"zombie"}}
  IN  /\ Cardinality(unreaped) <= 1
      /\ \A g \in unreaped :
           \/ monitor[g] = "waiting"
           \/ \E t \in Callers : mine[t] = g /\ pc[t] \in {"joinLog", "joinMonitor"}

\* When nobody holds the mutex, the state is RUNNING exactly while there is a pid to signal,
\* and that pid belongs to a guest whose monitor has yet to report: stopContainer never has
\* the pid of a guest of which the launcher knows that it is gone.
StateAgrees ==
  mMutex = Free =>
    /\ (mState = "RUNNING") <=> (mGuestPid # None)
    /\ mGuestPid # None => monitor[mGuestPid] \in {"waiting", "reaped"}

\* As long as no two calls have been under way at once, the pump's flag and its thread
\* object agree between calls, so that no start can meet a joinable one: the process is
\* never aborted over it. (With overlapping calls it can be: the pump is stopped before the
\* mutex is taken.)
SerialCallsSafe ==
  ~overlapped =>
    /\ aborted # "pump"
    /\ (\A t \in Callers : pc[t] = "idle") => (pumpFlag <=> pumpThread # "none")

\* A listener that has been told that a guest is running is never told afterwards of the end
\* of an earlier one: startContainer joins the earlier monitor, callback included, although
\* the callback runs outside the mutex.
EndBeforeNextRunning ==
  [][\A g \in Guests : told'[g] \ told[g] = {"ended"} =>
       \A h \in Guests : h > g => "running" \notin told[h]]_vars

\* A process left behind by an earlier guest keeps its log pipe open, and with it a start.
LogHeld == \E t \in Callers : pc[t] = "joinLog" /\ logThread \in pipeHeld

\* A start joins, with the mutex, the monitor whose listener has made a call that waits for
\* the mutex: neither can go on. It has no bound either.
ListenerHeld ==
  \E t, u \in Callers :
    /\ pc[u] = "joinMonitor" /\ monThread # None /\ from[t] = monThread
    /\ pc[t] \in {"startLock", "stopLock"}

\* Every call returns, unless a start waits, with the mutex, for the log of an earlier guest
\* or for a listener that has called back. (guest_launcher.cpp:274-275 means to allow such
\* calls; a start from there with no other beside it ends the process, aborted = "join".)
CallsReturn ==
  \A t \in Callers :
    pc[t] # "idle" ~> (pc[t] = "idle" \/ LogHeld \/ ListenerHeld \/ aborted # "no")

\* The end of a guest is noticed: its monitor waits for it, corrects the state, has called
\* the listener and is ready to be joined, whatever the listener calls from there, with the
\* same exceptions.
EndReported ==
  \A g \in Guests :
    guest[g] = "zombie" ~> (monitor[g] = "done" \/ LogHeld \/ ListenerHeld \/ aborted # "no")
=============================================================================
