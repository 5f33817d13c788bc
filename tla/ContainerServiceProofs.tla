----------------------- MODULE ContainerServiceProofs -----------------------
(***************************************************************************)
(* Proofs about ContainerService, for any set of process numbers, any      *)
(* grace period and any number of shell jobs.                              *)
(***************************************************************************)
EXTENDS ContainerService, TLAPS

(***************************************************************************)
(* The inductive invariant: what is true of the guest at each point of the *)
(* main thread. Between the points other processes run, so every conjunct  *)
(* says what they cannot change.                                           *)
(***************************************************************************)

\* No child of the host's is left, and nothing of an old guest.
NoGuest ==
  /\ Children = {} /\ members = {}
  /\ curPid = NoPid /\ guestPid = NoPid

\* The service is between two launcher calls: both sides know the same guest or none.
SettledInv ==
  at \in {"idle", "stopRunner"} =>
    /\ step = "idle"
    /\ \/ /\ guestPid = NoPid /\ NoGuest
          /\ state = "idle"
          /\ ~channel /\ ~ipc
       \/ /\ guestPid \in Pids
          /\ Children = {guestPid} /\ curPid = guestPid
          /\ state = "running"

\* Start: the service has no guest; the launcher has none, or the one child it has forked.
LaunchInv ==
  at = "launch" =>
    /\ guestPid = NoPid
    /\ step \in {"fork", "read", "reap", "started", "failed"}
    /\ step \in {"fork", "failed"} => NoGuest
    /\ step = "failed" => state = "idle"
    /\ step \in {"read", "reap", "started"} => child \in Pids /\ Children = {child}
    /\ step \in {"read", "reap"} => curPid = NoPid
    /\ step = "started" => curPid = child /\ state = "running"

\* An errno in the pipe is the child's last act.
PipeInv ==
  /\ at = "launch" /\ step = "read" /\ errPipe = "errno" => proc[child] = "failed"
  /\ at = "launch" /\ step = "reap" => proc[child] = "failed"

\* The rest of startGuest.
LaunchedInv ==
  at = "runner" =>
    /\ step = "idle"
    /\ guestPid \in Pids /\ Children = {guestPid}
    /\ curPid = guestPid /\ state = "running"

\* Stop: the process it signals is ours until it has been waited for. After the two SIGTERMs
\* it is past execve or dead, so the escalation finds its whole group.
StopInv ==
  at = "stopNative" =>
    /\ guestPid \in Pids /\ child = guestPid
    /\ step \in {"termGroup", "termLeader", "poll", "killGroup", "killLeader", "wait", "stopped"}
    /\ step # "stopped" => Children = {child} /\ curPid = child
    /\ step \in {"poll", "killGroup"} => proc[child] \in {"guest", "zombie", "failed"}
    /\ step \in {"killLeader", "wait"} => Dead(child) /\ members = {}
    /\ step = "stopped" => Children = {} /\ members = {} /\ curPid = NoPid /\ state = "idle"

\* The rest of stopGuest, and of a failed launch.
ReleaseInv ==
  /\ at \in {"release", "ipcStop"} => step = "idle" /\ NoGuest /\ state = "idle"
  /\ at = "ipcStop" => ~channel

\* Only a guest that runs or has run can have other processes in its group.
MembersInv == \A p \in members : proc[p] \in {"guest", "zombie"}

GuestInv ==
  /\ SettledInv /\ LaunchInv /\ PipeInv /\ LaunchedInv /\ StopInv /\ ReleaseInv
  /\ MembersInv
  /\ OnlyOwnSignalled

IInv == TypeOK /\ GuestInv

\* What GuestInv is about; it says nothing of the other variables.
core == <<at, step, child, guestPid, state, curPid, proc, members, channel, ipc, errPipe,
          foreignHit>>

(***************************************************************************)
(* Processes.                                                              *)
(***************************************************************************)

ChildStates == {"forked", "grouped", "guest", "zombie", "failed"}

\* A process becomes a child of the host's, or ceases to be one, by its own state alone.
LEMMA ChildrenUpdate ==
  ASSUME NEW p \in Pids, NEW s \in ProcStates,
         proc \in [Pids -> ProcStates],
         proc' = [proc EXCEPT ![p] = s]
  PROVE  /\ proc' \in [Pids -> ProcStates]
         /\ Children' = IF s \in ChildStates THEN Children \union {p} ELSE Children \ {p}
BY DEF Children, ChildStates

\* A signal ends the process or leaves it alone; it makes no child and loses none.
LEMMA SignalFacts ==
  ASSUME NEW p \in Pids, NEW S \in SUBSET ChildStates, NEW catchable \in BOOLEAN,
         proc \in [Pids -> ProcStates],
         proc' \in Signalled(p, S, catchable)
  PROVE  /\ proc' \in [Pids -> ProcStates]
         /\ Children' = Children
         /\ \A q \in Pids \ {p} : proc'[q] = proc[q]
         /\ proc'[p] \in {proc[p], "zombie"}
         /\ proc[p] \in S /\ ~(catchable /\ proc[p] = "guest") => proc'[p] = "zombie"
<1>1. CASE proc' = proc
  <2>1. Children' = Children
    BY <1>1 DEF Children
  <2>2. proc[p] \in S /\ ~(catchable /\ proc[p] = "guest") => proc'[p] = "zombie"
    BY <1>1 DEF Signalled, ProcStates
  <2>3. QED
    BY <1>1, <2>1, <2>2
<1>2. CASE proc' = [proc EXCEPT ![p] = "zombie"] /\ proc[p] \in S
  <2>1. "zombie" \in ProcStates /\ "zombie" \in ChildStates
    BY DEF ProcStates, ChildStates
  <2>2. p \in Children
    BY <1>2 DEF Children, ChildStates
  <2>3. proc' \in [Pids -> ProcStates] /\ Children' = Children \union {p}
    BY <1>2, <2>1, ChildrenUpdate
  <2>4. proc'[p] = "zombie" /\ \A q \in Pids \ {p} : proc'[q] = proc[q]
    BY <1>2
  <2>5. QED
    BY <2>2, <2>3, <2>4
<1>3. QED
  BY <1>1, <1>2 DEF Signalled

\* A running process that is not one of ours is never a child state.
LEMMA NotChild ==
  ASSUME proc \in [Pids -> ProcStates], NEW p \in Pids
  PROVE  p \in Children <=> proc[p] \in ChildStates
BY DEF Children, ChildStates

(***************************************************************************)
(* Types.                                                                  *)
(***************************************************************************)

LEMMA TypeInit == Init => TypeOK
<1> SUFFICES ASSUME Init PROVE TypeOK
  OBVIOUS
<1>1. LauncherTypeOK
  <2>1. foreignHit \in BOOLEAN
    BY Zenon DEF Init, LauncherInit
  <2>2. proc \in [Pids -> ProcStates] /\ members \in SUBSET Pids
    BY DEF Init, LauncherInit, ProcStates
  <2>3. waited \in 0 .. GracePolls
    BY PollsAssumption DEF Init, LauncherInit
  <2>4. QED
    BY <2>1, <2>2, <2>3 DEF Init, LauncherInit, LauncherTypeOK
<1>2. RunnerTypeOK
  BY DEF Init, RunnerInit, RunnerTypeOK
<1>3. /\ svc \in BOOLEAN /\ started \in BOOLEAN /\ bound \in BOOLEAN
      /\ channel \in BOOLEAN /\ ipc \in BOOLEAN
  BY Zenon DEF Init
<1>4. /\ at \in {"idle", "launch", "runner", "stopRunner", "stopNative", "release", "ipcStop"}
      /\ then \in {"stopSelf", "destroyed", "launchFailed"}
      /\ guestPid \in Pids \union {NoPid}
  BY DEF Init
<1>5. QED
  BY <1>1, <1>2, <1>3, <1>4 DEF TypeOK

\* The launcher's own steps, and the processes'.
LEMMA LauncherTypes ==
  ASSUME LauncherTypeOK, StartStep \/ StopStep \/ ChildStep \/ WorldStep
  PROVE  LauncherTypeOK'
<1> USE DEF LauncherTypeOK, launcher, processes
<1>1. CASE StartRefused
  BY <1>1 DEF StartRefused
<1>2. CASE Fork
  BY <1>2 DEF Fork, ProcStates
<1>3. CASE ReadErrPipe
  BY <1>3 DEF ReadErrPipe
<1>4. CASE ReapFailed
  BY <1>4 DEF ReapFailed, ProcStates
<1>5. ASSUME NEW S, NEW c \in BOOLEAN, proc' \in Signalled(child, S, c)
      PROVE  proc' \in [Pids -> ProcStates]
  BY <1>5 DEF Signalled, ProcStates
<1>6. CASE TermGroup
  BY <1>6, <1>5 DEF TermGroup, SignalGroup
<1>7. CASE TermLeader
  BY <1>7, <1>5 DEF TermLeader, SignalOne
<1>8. CASE Poll
  BY <1>8, PollsAssumption DEF Poll
<1>9. CASE KillGroup
  BY <1>9, <1>5 DEF KillGroup, SignalGroup
<1>10. CASE KillLeader
  BY <1>10, <1>5 DEF KillLeader, SignalOne
<1>11. CASE ReapStopped
  BY <1>11 DEF ReapStopped, ProcStates
<1>12. CASE ChildStep
  BY <1>12 DEF ChildStep, Setsid, Exec, ExecFails, ProcStates
<1>13. CASE WorldStep
  BY <1>13 DEF WorldStep, GuestForks, GuestExits, MembersExit, ForeignStarts, ForeignExits,
               ProcStates
<1>14. QED
  BY <1>1, <1>2, <1>3, <1>4, <1>6, <1>7, <1>8, <1>9, <1>10, <1>11, <1>12, <1>13
     DEF StartStep, StopStep

LEMMA RunnerTypes ==
  ASSUME RunnerTypeOK, RunnerStep \/ RunnerCancel \/ RunnerForget \/ RunnerLaunch \/ RunnerReset
  PROVE  RunnerTypeOK'
<1> USE DEF RunnerTypeOK
<1>1. CASE RunnerStep
  BY <1>1 DEF RunnerStep, Dispatch, StartProcess, RecordProcess, ReaderEnds, ShellDies
<1>2. CASE RunnerCancel
  BY <1>2 DEF RunnerCancel
<1>3. CASE RunnerForget
  BY <1>3 DEF RunnerForget
<1>4. CASE RunnerLaunch
  BY <1>4 DEF RunnerLaunch, NewJobs
<1>5. CASE RunnerReset
  BY <1>5 DEF RunnerReset
<1>6. QED
  BY <1>1, <1>2, <1>3, <1>4, <1>5

LEMMA TypeStep == TypeOK /\ [Next]_vars => TypeOK'
<1> SUFFICES ASSUME TypeOK, [Next]_vars PROVE TypeOK'
  OBVIOUS
<1> USE DEF TypeOK
<1>1. ASSUME UNCHANGED <<launcher, errPipe, processes>> PROVE LauncherTypeOK'
  BY <1>1 DEF LauncherTypeOK, launcher, processes
<1>2. ASSUME UNCHANGED runner PROVE RunnerTypeOK'
  BY <1>2 DEF RunnerTypeOK, runner
<1>3. ASSUME RunnerStep \/ RunnerCancel \/ RunnerForget \/ RunnerLaunch \/ RunnerReset
      PROVE  RunnerTypeOK'
  BY <1>3, RunnerTypes
<1>4. CASE OnStart
  <2>1. LauncherTypeOK'
    BY <1>4, <1>1 DEF OnStart, CallStart, LauncherTypeOK, processes
  <2>2. QED
    BY <1>4, <2>1, <1>2 DEF OnStart
<1>5. CASE LaunchDone
  <2>1. LauncherTypeOK' /\ guestPid' \in Pids \union {NoPid}
    BY <1>5 DEF LaunchDone, LauncherTypeOK, processes
  <2>2. QED
    BY <1>5, <2>1, <1>3 DEF LaunchDone
<1>6. CASE RunnerLaunched
  BY <1>6, <1>1, <1>3 DEF RunnerLaunched
<1>7. CASE LaunchFailed
  <2>1. LauncherTypeOK'
    BY <1>7 DEF LaunchFailed, LauncherTypeOK, processes
  <2>2. QED
    BY <1>7, <2>1, <1>2 DEF LaunchFailed
<1>8. CASE OnStop
  BY <1>8, <1>1, <1>3 DEF OnStop, StopGuest
<1>9. CASE OnDestroy
  BY <1>9, <1>1, <1>3 DEF OnDestroy, StopGuest
<1>10. CASE RunnerStopped
  <2>1. LauncherTypeOK'
    BY <1>10, <1>1, PollsAssumption DEF RunnerStopped, CallStop, LauncherTypeOK, processes
  <2>2. QED
    BY <1>10, <2>1, <1>3 DEF RunnerStopped
<1>11. CASE NativeStopped
  <2>1. LauncherTypeOK'
    BY <1>11 DEF NativeStopped, LauncherTypeOK, processes
  <2>2. QED
    BY <1>11, <2>1, <1>2 DEF NativeStopped
<1>12. CASE Release
  BY <1>12, <1>1, <1>2 DEF Release
<1>13. CASE Bind
  BY <1>13, <1>1, <1>2 DEF Bind
<1>14. CASE Unbind
  BY <1>14, <1>1, <1>2 DEF Unbind
<1>15. CASE HostDies
  <2>1. LauncherTypeOK'
    BY <1>15, PollsAssumption DEF HostDies, LauncherReset, LauncherTypeOK, ProcStates
  <2>2. QED
    BY <1>15, <2>1, <1>3 DEF HostDies
<1>16. CASE Native \/ Child \/ World
  BY <1>16, <1>2, LauncherTypes DEF Native, Child, World, service
<1>17. CASE Runner
  BY <1>17, <1>1, <1>3 DEF Runner, service
<1>18. CASE UNCHANGED vars
  BY <1>18, <1>1, <1>2 DEF vars, service
<1>19. CASE IpcStopReturns
  <2>1. svc' \in BOOLEAN /\ started' \in BOOLEAN /\ ipc' \in BOOLEAN
    BY <1>19 DEF IpcStopReturns
  <2>2. at' = "idle" /\ UNCHANGED <<bound, then, guestPid, channel>>
    BY <1>19 DEF IpcStopReturns
  <2>3. LauncherTypeOK' /\ RunnerTypeOK'
    BY <1>19, <1>1, <1>2 DEF IpcStopReturns
  <2>4. QED
    BY <2>1, <2>2, <2>3
<1>20. QED
  BY <1>4, <1>5, <1>6, <1>7, <1>8, <1>9, <1>10, <1>11, <1>12, <1>13, <1>14, <1>15, <1>16,
     <1>17, <1>18, <1>19 DEF Next, Handler

\* Every variable stays in its range: no step of any actor leaves the launcher, the service
\* or the runner in a state the others do not know.
THEOREM ServiceTypeCorrect == Spec => []TypeOK
<1>1. QED
  BY TypeInit, TypeStep, PTL DEF Spec

(***************************************************************************)
(* The invariant is kept.                                                  *)
(***************************************************************************)

LEMMA InvInit == Init => IInv
<1> SUFFICES ASSUME Init PROVE IInv
  OBVIOUS
<1>1. Children = {} /\ members = {}
  BY DEF Init, LauncherInit, Children
<1>2. at = "idle" /\ step = "idle" /\ guestPid = NoPid /\ curPid = NoPid /\ state = "idle"
  BY DEF Init, LauncherInit
<1>3. ~channel /\ ~ipc /\ ~foreignHit
  BY Zenon DEF Init, LauncherInit
<1>4. QED
  BY <1>1, <1>2, <1>3, TypeInit
     DEF IInv, GuestInv, SettledInv, LaunchInv, PipeInv, LaunchedInv, StopInv, ReleaseInv,
         MembersInv, NoGuest, OnlyOwnSignalled

LEMMA CoreStutter == ASSUME GuestInv, UNCHANGED core PROVE GuestInv'
<1>1. Children' = Children
  BY DEF core, Children
<1>2. QED
  BY <1>1
     DEF core, GuestInv, SettledInv, LaunchInv, PipeInv, LaunchedInv, StopInv, ReleaseInv,
         MembersInv, NoGuest, OnlyOwnSignalled, Dead

\* The step of a launcher call tells the handler that made the call.
LEMMA WhereItIs ==
  ASSUME IInv
  PROVE  /\ step \in {"fork", "read", "reap", "started", "failed"} => at = "launch"
         /\ step \in {"termGroup", "termLeader", "poll", "killGroup", "killLeader", "wait",
                      "stopped"} => at = "stopNative"
BY DEF IInv, TypeOK, GuestInv, SettledInv, LaunchInv, LaunchedInv, StopInv, ReleaseInv

\* Start.
LEMMA InvStart == ASSUME IInv, StartStep, UNCHANGED service PROVE GuestInv'
<1> USE DEF IInv, GuestInv, processes, service
<1>0. TypeOK /\ LauncherTypeOK
  BY DEF TypeOK
<1>1. at = "launch" /\ at' = "launch" /\ guestPid' = guestPid /\ guestPid = NoPid
  BY WhereItIs DEF StartStep, StartRefused, Fork, ReadErrPipe, ReapFailed, LaunchInv
<1>2. foreignHit' = foreignHit /\ members' = members
  BY DEF StartStep, StartRefused, Fork, ReadErrPipe, ReapFailed
<1>3. ASSUME LaunchInv', PipeInv', MembersInv' PROVE GuestInv'
  BY <1>1, <1>2, <1>3 DEF SettledInv, LaunchedInv, StopInv, ReleaseInv, OnlyOwnSignalled
<1>4. CASE StartRefused
  <2>1. /\ step = "fork" /\ step' = "failed" /\ state' = "idle"
        /\ UNCHANGED <<curPid, child, proc, members>>
    BY <1>4 DEF StartRefused
  <2>2. Children' = Children
    BY <2>1 DEF Children
  <2>3. QED
    BY <1>1, <1>3, <2>1, <2>2 DEF LaunchInv, PipeInv, MembersInv, NoGuest
<1>5. CASE Fork
  <2>1. /\ step = "fork" /\ step' = "read" /\ errPipe' = "empty"
        /\ UNCHANGED <<curPid, members, state>>
    BY <1>5 DEF Fork
  <2>2. PICK p \in Pids \ members : proc[p] = "free" /\ proc' = [proc EXCEPT ![p] = "forked"] /\ child' = p
    BY <1>5 DEF Fork
  <2>3. Children' = Children \union {p}
    BY <2>2, <1>0, ChildrenUpdate DEF LauncherTypeOK, ProcStates, ChildStates
  <2>4. NoGuest
    BY <1>1, <2>1 DEF LaunchInv
  <2>5. QED
    BY <1>1, <1>3, <2>1, <2>2, <2>3, <2>4 DEF LaunchInv, PipeInv, MembersInv, NoGuest
<1>6. CASE ReadErrPipe
  <2>1. step = "read" /\ UNCHANGED <<child, errPipe, proc, members>>
    BY <1>6 DEF ReadErrPipe
  <2>2. Children' = Children
    BY <2>1 DEF Children
  <2>3. child \in Pids /\ Children = {child} /\ curPid = NoPid
    BY <1>1, <2>1 DEF LaunchInv
  <2>4. PipeInv' /\ MembersInv'
    BY <1>1, <1>6, <2>1 DEF ReadErrPipe, PipeInv, MembersInv
  <2>5. LaunchInv'
    BY <1>1, <1>6, <2>1, <2>2, <2>3 DEF ReadErrPipe, LaunchInv
  <2>6. QED
    BY <1>3, <2>4, <2>5
<1>7. CASE ReapFailed
  <2>1. /\ step = "reap" /\ step' = "failed" /\ state' = "idle"
        /\ proc' = [proc EXCEPT ![child] = "free"]
        /\ UNCHANGED <<curPid, child, members>>
    BY <1>7 DEF ReapFailed
  <2>2. child \in Pids /\ Children = {child} /\ curPid = NoPid /\ proc[child] = "failed"
    BY <1>1, <2>1 DEF LaunchInv, PipeInv
  <2>3. Children' = Children \ {child}
    BY <2>1, <2>2, <1>0, ChildrenUpdate DEF LauncherTypeOK, ProcStates, ChildStates
  <2>4. members = {}
    <3>1. members \subseteq Children
      BY <1>0, NotChild DEF MembersInv, LauncherTypeOK, ChildStates
    <3>2. QED
      BY <3>1, <2>2 DEF MembersInv
  <2>5. QED
    BY <1>1, <1>3, <2>1, <2>2, <2>3, <2>4 DEF LaunchInv, PipeInv, MembersInv, NoGuest
<1>8. QED
  BY <1>4, <1>5, <1>6, <1>7 DEF StartStep

\* Stop.
LEMMA InvStop == ASSUME IInv, StopStep, UNCHANGED service PROVE GuestInv'
<1> USE DEF IInv, GuestInv, processes, service
<1>0. TypeOK /\ LauncherTypeOK
  BY DEF TypeOK
<1>1. at = "stopNative" /\ at' = "stopNative" /\ child' = child /\ guestPid' = guestPid
  BY WhereItIs
     DEF StopStep, TermGroup, TermLeader, Poll, KillGroup, KillLeader, ReapStopped
<1>2. /\ child \in Pids /\ child = guestPid
      /\ step # "stopped" /\ Children = {child} /\ curPid = child
  BY <1>1
     DEF StopInv, StopStep, TermGroup, TermLeader, Poll, KillGroup, KillLeader, ReapStopped
<1>3. proc[child] \in ChildStates /\ proc[child] \notin {"free", "foreign"}
  BY <1>0, <1>2, NotChild DEF LauncherTypeOK, ChildStates
<1>4. members \subseteq {child}
  BY <1>0, <1>2, NotChild DEF MembersInv, LauncherTypeOK, ChildStates
<1>5. ASSUME StopInv', MembersInv', ~foreignHit' PROVE GuestInv'
  BY <1>1, <1>5 DEF SettledInv, LaunchInv, PipeInv, LaunchedInv, ReleaseInv, OnlyOwnSignalled
<1>6. /\ {"grouped", "guest"} \in SUBSET ChildStates
      /\ {"forked", "grouped", "guest"} \in SUBSET ChildStates
  BY DEF ChildStates
<1>7. ASSUME foreignHit' = (foreignHit \/ proc[child] = "foreign") PROVE ~foreignHit'
  <2>1. proc[child] # "foreign"
    BY <1>3
  <2>2. QED
    BY <1>7, <2>1, Zenon DEF OnlyOwnSignalled
<1>8. ASSUME foreignHit' = foreignHit PROVE ~foreignHit'
  BY <1>8, Zenon DEF OnlyOwnSignalled
<1>9. CASE TermGroup \/ TermLeader
  <2>1. /\ step \in {"termGroup", "termLeader"}
        /\ step' = IF step = "termGroup" THEN "termLeader" ELSE "poll"
        /\ curPid' = curPid
    BY <1>9 DEF TermGroup, TermLeader
  <2>2. /\ members' \in {members \ {child}, members}
        /\ ~foreignHit'
    <3>1. foreignHit' = (foreignHit \/ proc[child] = "foreign")
      BY <1>9, Zenon DEF TermGroup, TermLeader, SignalGroup, SignalOne
    <3>2. members' \in {members \ {child}, members}
      BY <1>9 DEF TermGroup, TermLeader, SignalGroup, SignalOne
    <3>3. QED
      BY <3>1, <3>2, <1>7
  <2>3. /\ Children' = Children
        /\ proc'[child] \in {proc[child], "zombie"}
        /\ \A q \in Pids \ {child} : proc'[q] = proc[q]
    BY <1>9, <1>0, <1>2, <1>6, SignalFacts
       DEF TermGroup, TermLeader, SignalGroup, SignalOne, LauncherTypeOK
  <2>4. step = "termLeader" => proc'[child] \in {"guest", "zombie", "failed"}
    <3>1. SUFFICES ASSUME step = "termLeader" PROVE proc'[child] \in {"guest", "zombie", "failed"}
      OBVIOUS
    <3>2. proc' \in Signalled(child, {"forked", "grouped", "guest"}, TRUE)
      BY <1>9, <3>1 DEF TermGroup, TermLeader, SignalOne
    <3>3. proc[child] \in {"forked", "grouped"} => proc'[child] = "zombie"
      BY <3>2, <1>0, <1>2, <1>6, SignalFacts DEF LauncherTypeOK
    <3>4. QED
      BY <2>3, <3>3, <1>3 DEF ChildStates
  <2>5. StopInv'
    BY <1>1, <1>2, <2>1, <2>3, <2>4 DEF StopInv
  <2>6. MembersInv'
    BY <1>4, <2>2, <2>3 DEF MembersInv
  <2>7. QED
    BY <1>5, <2>2, <2>5, <2>6
<1>10. CASE Poll
  <2>1. /\ step = "poll" /\ step' \in {"poll", "killGroup"}
        /\ UNCHANGED <<curPid, proc, members, foreignHit>>
    BY <1>10, <1>3 DEF Poll
  <2>2. Children' = Children
    BY <2>1 DEF Children
  <2>3. QED
    BY <1>1, <1>2, <1>5, <1>8, <2>1, <2>2 DEF StopInv, MembersInv
<1>11. CASE KillGroup
  <2>1. /\ step = "killGroup" /\ step' = "killLeader" /\ curPid' = curPid
        /\ members' = members \ {child} /\ ~foreignHit'
    <3>1. foreignHit' = (foreignHit \/ proc[child] = "foreign")
      BY <1>11, Zenon DEF KillGroup, SignalGroup
    <3>2. /\ step = "killGroup" /\ step' = "killLeader" /\ curPid' = curPid
          /\ members' = members \ {child}
      BY <1>11 DEF KillGroup, SignalGroup
    <3>3. QED
      BY <3>1, <3>2, <1>7
  <2>2. proc' \in Signalled(child, {"grouped", "guest"}, FALSE)
    BY <1>11 DEF KillGroup, SignalGroup
  <2>3. /\ Children' = Children
        /\ proc'[child] \in {proc[child], "zombie"}
        /\ proc[child] = "guest" => proc'[child] = "zombie"
    BY <2>2, <1>0, <1>2, <1>6, SignalFacts DEF LauncherTypeOK
  <2>4. proc[child] \in {"guest", "zombie", "failed"}
    BY <1>1, <2>1 DEF StopInv
  <2>5. members' = {}
    BY <1>4, <2>1
  <2>6. StopInv'
    BY <1>1, <1>2, <2>1, <2>3, <2>4, <2>5 DEF StopInv, Dead
  <2>7. MembersInv'
    BY <2>5 DEF MembersInv
  <2>8. QED
    BY <1>5, <2>1, <2>6, <2>7
<1>12. CASE KillLeader
  <2>1. /\ step = "killLeader" /\ step' = "wait" /\ curPid' = curPid
        /\ members' = members /\ ~foreignHit'
    <3>1. foreignHit' = (foreignHit \/ proc[child] = "foreign")
      BY <1>12, Zenon DEF KillLeader, SignalOne
    <3>2. step = "killLeader" /\ step' = "wait" /\ curPid' = curPid /\ members' = members
      BY <1>12 DEF KillLeader, SignalOne
    <3>3. QED
      BY <3>1, <3>2, <1>7
  <2>2. proc' \in Signalled(child, {"forked", "grouped", "guest"}, FALSE)
    BY <1>12 DEF KillLeader, SignalOne
  <2>3. /\ Children' = Children
        /\ proc'[child] \in {proc[child], "zombie"}
    BY <2>2, <1>0, <1>2, <1>6, SignalFacts DEF LauncherTypeOK
  <2>4. Dead(child) /\ members = {}
    BY <1>1, <2>1 DEF StopInv
  <2>5. StopInv'
    BY <1>1, <1>2, <2>1, <2>3, <2>4 DEF StopInv, Dead
  <2>6. MembersInv'
    BY <2>1, <2>4 DEF MembersInv
  <2>7. QED
    BY <1>5, <2>1, <2>5, <2>6
<1>13. CASE ReapStopped
  <2>1. /\ step = "wait" /\ step' = "stopped" /\ curPid' = NoPid /\ state' = "idle"
        /\ proc' = [proc EXCEPT ![child] = "free"]
        /\ members' = members /\ foreignHit' = foreignHit
    BY <1>13 DEF ReapStopped
  <2>2. Children' = Children \ {child}
    BY <2>1, <1>0, <1>2, ChildrenUpdate DEF LauncherTypeOK, ProcStates, ChildStates
  <2>3. members = {}
    BY <1>1, <2>1 DEF StopInv
  <2>4. StopInv'
    BY <1>1, <1>2, <2>1, <2>2, <2>3 DEF StopInv
  <2>5. MembersInv'
    BY <2>1, <2>3 DEF MembersInv
  <2>6. QED
    BY <1>5, <1>8, <2>1, <2>4, <2>5
<1>14. QED
  BY <1>9, <1>10, <1>11, <1>12, <1>13 DEF StopStep

\* The child, the guest and the rest of the system, at any point of the main thread. They
\* make no child and lose none, revive no dead one, and only a guest gets group members.
LEMMA InvOthers == ASSUME IInv, ChildStep \/ WorldStep, UNCHANGED service PROVE GuestInv'
<1> USE DEF IInv, GuestInv, service
<1>0. TypeOK /\ LauncherTypeOK
  BY DEF TypeOK
<1>1. UNCHANGED <<at, step, child, guestPid, state, curPid, channel, ipc, foreignHit>>
  BY DEF ChildStep, Setsid, Exec, ExecFails, WorldStep, GuestForks, GuestExits, MembersExit,
         ForeignStarts, ForeignExits, launcher
<1>2. PICK p \in Pids : \/ Setsid(p) \/ Exec(p) \/ ExecFails(p) \/ GuestForks(p) \/ GuestExits(p)
                        \/ MembersExit(p) \/ ForeignStarts(p) \/ ForeignExits(p)
  BY DEF ChildStep, WorldStep
<1>3. /\ Children' = Children
      /\ \A q \in Pids \ {p} : proc'[q] = proc[q]
      /\ Dead(p) => Dead(p)' /\ proc'[p] = proc[p]
      /\ proc[p] = "guest" => proc'[p] \in {"guest", "zombie"}
      /\ \E s \in ProcStates : proc' = [proc EXCEPT ![p] = s]
  <2>1. CASE GuestForks(p) \/ MembersExit(p)
    <3>1. proc' = proc /\ proc' = [proc EXCEPT ![p] = proc[p]] /\ proc[p] \in ProcStates
      BY <2>1, <1>0 DEF GuestForks, MembersExit, LauncherTypeOK
    <3>2. QED
      BY <3>1 DEF Children, Dead
  <2>2. CASE Setsid(p) \/ Exec(p) \/ ExecFails(p) \/ GuestExits(p)
    <3>1. PICK s \in ProcStates \intersect ChildStates : proc' = [proc EXCEPT ![p] = s]
      BY <2>2 DEF Setsid, Exec, ExecFails, GuestExits, ProcStates, ChildStates
    <3>2. proc[p] \in {"forked", "grouped", "guest"} /\ (proc[p] = "guest" => proc'[p] = "zombie")
      BY <2>2, <1>0 DEF Setsid, Exec, ExecFails, GuestExits, LauncherTypeOK
    <3>3. p \in Children
      BY <3>2 DEF Children
    <3>4. Children' = Children \union {p}
      BY <3>1, <1>0, ChildrenUpdate DEF LauncherTypeOK
    <3>5. QED
      BY <3>1, <3>2, <3>3, <3>4, <1>0 DEF Dead, LauncherTypeOK
  <2>3. CASE ForeignStarts(p) \/ ForeignExits(p)
    <3>1. PICK s \in {"free", "foreign"} : proc' = [proc EXCEPT ![p] = s]
      BY <2>3 DEF ForeignStarts, ForeignExits
    <3>2. proc[p] \in {"free", "foreign"}
      BY <2>3 DEF ForeignStarts, ForeignExits
    <3>3. p \notin Children
      BY <3>2 DEF Children
    <3>4. s \in ProcStates /\ s \notin ChildStates
      BY DEF ProcStates, ChildStates
    <3>5. Children' = Children \ {p}
      BY <3>1, <3>4, <1>0, ChildrenUpdate DEF LauncherTypeOK
    <3>6. QED
      BY <3>1, <3>2, <3>3, <3>4, <3>5, <1>0 DEF Dead, LauncherTypeOK
  <2>4. QED
    BY <1>2, <2>1, <2>2, <2>3
<1>4. \A q \in members' : q \in members \/ (q = p /\ proc[p] = "guest" /\ proc'[p] = "guest")
  BY <1>2, <1>0 DEF Setsid, Exec, ExecFails, GuestForks, GuestExits, MembersExit, ForeignStarts,
               ForeignExits, LauncherTypeOK
<1>5. MembersInv'
  <2> SUFFICES ASSUME NEW q \in members' PROVE proc'[q] \in {"guest", "zombie"}
    BY DEF MembersInv
  <2>1. CASE q = p /\ proc[p] = "guest" /\ proc'[p] = "guest"
    BY <2>1
  <2>2. CASE q \in members /\ q # p
    BY <2>2, <1>0, <1>3 DEF MembersInv, LauncherTypeOK
  <2>3. CASE q \in members /\ q = p
    BY <2>3, <1>3 DEF MembersInv, Dead
  <2>4. QED
    BY <1>4, <2>1, <2>2, <2>3
<1>6. members = {} /\ Children = {} => members' = {}
  BY <1>4 DEF Children
<1>7. SettledInv' /\ LaunchedInv' /\ ReleaseInv' /\ OnlyOwnSignalled'
  BY <1>1, <1>3, <1>6 DEF SettledInv, LaunchedInv, ReleaseInv, NoGuest, OnlyOwnSignalled
<1>8. LaunchInv'
  BY <1>1, <1>3, <1>6 DEF LaunchInv, NoGuest
<1>9. PipeInv'
  <2>1. at = "launch" /\ step \in {"read", "reap"} => child \in Pids /\ Children = {child}
    BY DEF LaunchInv
  <2>2. child \in Pids /\ proc[child] = "failed" => proc'[child] = "failed"
    BY <1>3 DEF Dead
  <2>3. child \in Pids /\ errPipe' = "errno" /\ errPipe # "errno" => proc'[child] = "failed"
    BY <1>2, <1>0 DEF Setsid, Exec, ExecFails, GuestForks, GuestExits, MembersExit, ForeignStarts,
                 ForeignExits, LauncherTypeOK, processes
  <2>4. QED
    BY <1>1, <2>1, <2>2, <2>3 DEF PipeInv
<1>10. StopInv'
  <2>1. SUFFICES ASSUME at = "stopNative" PROVE StopInv'
    BY <1>1 DEF StopInv
  <2>2. child \in Pids
    BY <2>1 DEF StopInv
  <2>3. proc[child] \in {"guest", "zombie", "failed"} => proc'[child] \in {"guest", "zombie", "failed"}
    BY <1>3, <2>2 DEF Dead
  <2>4. Dead(child) => Dead(child)'
    BY <1>1, <1>3, <2>2 DEF Dead
  <2>5. members = {} /\ Dead(child) /\ Children = {child} => members' = {}
    BY <1>3, <1>4, <2>2 DEF Dead, Children
  <2>6. QED
    BY <1>1, <1>3, <1>6, <2>1, <2>3, <2>4, <2>5 DEF StopInv
<1>11. QED
  BY <1>5, <1>7, <1>8, <1>9, <1>10

\* The service's own steps.
LEMMA InvService ==
  ASSUME IInv, OnStart \/ OnStop \/ OnDestroy \/ Bind \/ Unbind \/ HostDies \/ Handler
               \/ IpcStopReturns
  PROVE  GuestInv'
<1> USE DEF IInv, GuestInv, processes, launcher
<1>0. TypeOK /\ LauncherTypeOK
  BY DEF TypeOK
<1>1. ASSUME proc' = proc PROVE Children' = Children
  BY <1>1 DEF Children
<1>2. ASSUME UNCHANGED <<proc, members, foreignHit>>
      PROVE  MembersInv' /\ OnlyOwnSignalled'
  BY <1>2, Zenon DEF MembersInv, OnlyOwnSignalled
<1>3. CASE OnStart
  <2>1. at = "idle" /\ UNCHANGED <<proc, members, foreignHit, guestPid, curPid>>
    BY <1>3 DEF OnStart, CallStart
  <2>2. CASE guestPid # NoPid /\ state = "running"
    <3>1. UNCHANGED core
      BY <1>3, <2>1, <2>2 DEF OnStart, core
    <3>2. QED
      BY <3>1, CoreStutter
  <2>3. CASE ~(guestPid # NoPid /\ state = "running")
    <3>1. at' = "launch" /\ step' = "fork"
      BY <1>3, <2>3 DEF OnStart, CallStart
    <3>2. guestPid = NoPid /\ NoGuest
      BY <2>1, <2>3, PidsAssumption DEF SettledInv
    <3>3. NoGuest'
      BY <2>1, <3>2, <1>1 DEF NoGuest
    <3>4. QED
      BY <1>2, <2>1, <3>1, <3>2, <3>3
         DEF SettledInv, LaunchInv, PipeInv, LaunchedInv, StopInv, ReleaseInv
  <2>4. QED
    BY <2>2, <2>3
<1>4. CASE LaunchDone
  <2>1. /\ at = "launch" /\ at' = "runner" /\ step = "started" /\ step' = "idle"
        /\ guestPid' = child /\ UNCHANGED <<state, curPid, child, proc, members, foreignHit>>
    BY <1>4 DEF LaunchDone
  <2>2. LaunchedInv'
    BY <2>1, <1>1 DEF LaunchInv, LaunchedInv
  <2>3. QED
    BY <1>2, <2>1, <2>2 DEF SettledInv, LaunchInv, PipeInv, StopInv, ReleaseInv
<1>5. CASE RunnerLaunched
  <2>1. /\ at = "runner" /\ at' = "idle"
        /\ UNCHANGED <<step, guestPid, state, curPid, proc, members, foreignHit>>
    BY <1>5 DEF RunnerLaunched
  <2>2. SettledInv'
    BY <2>1, <1>1 DEF LaunchedInv, SettledInv
  <2>3. QED
    BY <1>2, <2>1, <2>2 DEF LaunchInv, LaunchedInv, PipeInv, StopInv, ReleaseInv
<1>6. CASE LaunchFailed
  <2>1. /\ at = "launch" /\ at' = "ipcStop" /\ step = "failed" /\ step' = "idle"
        /\ UNCHANGED <<guestPid, state, curPid, proc, members, foreignHit>>
    BY <1>6 DEF LaunchFailed
  <2>2. ~channel'
    BY <1>6, Zenon DEF LaunchFailed
  <2>3. ReleaseInv'
    BY <2>1, <2>2, <1>1 DEF LaunchInv, ReleaseInv, NoGuest
  <2>4. QED
    BY <1>2, <2>1, <2>3 DEF SettledInv, LaunchInv, LaunchedInv, PipeInv, StopInv
<1>7. CASE OnStop \/ OnDestroy
  <2>1. /\ at = "idle" /\ at' = "stopRunner"
        /\ UNCHANGED <<step, guestPid, state, curPid, proc, members, foreignHit, channel, ipc>>
    BY <1>7 DEF OnStop, OnDestroy, StopGuest
  <2>2. SettledInv'
    BY <2>1, <1>1 DEF SettledInv, NoGuest
  <2>3. QED
    BY <1>2, <2>1, <2>2 DEF LaunchInv, LaunchedInv, PipeInv, StopInv, ReleaseInv
<1>8. CASE RunnerStopped
  <2>1. at = "stopRunner" /\ UNCHANGED <<guestPid, curPid, proc, members, foreignHit>>
    BY <1>8 DEF RunnerStopped, CallStop
  <2>2. CASE guestPid # NoPid
    <3>1. at' = "stopNative" /\ step' = "termGroup" /\ child' = guestPid
      BY <1>8, <2>2 DEF RunnerStopped, CallStop
    <3>2. StopInv'
      BY <2>1, <2>2, <3>1, <1>1 DEF SettledInv, StopInv
    <3>3. QED
      BY <1>2, <2>1, <3>1, <3>2 DEF SettledInv, LaunchInv, LaunchedInv, PipeInv, ReleaseInv
  <2>3. CASE guestPid = NoPid
    <3>1. at' = "release" /\ UNCHANGED <<step, state>>
      BY <1>8, <2>3 DEF RunnerStopped
    <3>2. ReleaseInv'
      BY <2>1, <2>3, <3>1, <1>1, PidsAssumption DEF SettledInv, ReleaseInv, NoGuest
    <3>3. QED
      BY <1>2, <2>1, <3>1, <3>2 DEF SettledInv, LaunchInv, LaunchedInv, PipeInv, StopInv
  <2>4. QED
    BY <2>2, <2>3
<1>9. CASE NativeStopped
  <2>1. /\ at = "stopNative" /\ at' = "release" /\ step = "stopped" /\ step' = "idle"
        /\ guestPid' = NoPid /\ UNCHANGED <<state, curPid, proc, members, foreignHit>>
    BY <1>9 DEF NativeStopped
  <2>2. ReleaseInv'
    BY <2>1, <1>1 DEF StopInv, ReleaseInv, NoGuest
  <2>3. QED
    BY <1>2, <2>1, <2>2 DEF SettledInv, LaunchInv, LaunchedInv, PipeInv, StopInv
<1>10. CASE Release
  <2>1. /\ at = "release" /\ at' = "ipcStop"
        /\ UNCHANGED <<step, guestPid, state, curPid, proc, members, foreignHit>>
    BY <1>10 DEF Release
  <2>2. ~channel'
    BY <1>10, Zenon DEF Release
  <2>3. ReleaseInv'
    BY <2>1, <2>2, <1>1 DEF ReleaseInv, NoGuest
  <2>4. QED
    BY <1>2, <2>1, <2>3 DEF SettledInv, LaunchInv, LaunchedInv, PipeInv, StopInv
<1>11. CASE Bind \/ Unbind
  <2>1. UNCHANGED core
    BY <1>11 DEF Bind, Unbind, core
  <2>2. QED
    BY <2>1, CoreStutter
<1>12. CASE HostDies
  <2>1. /\ at' = "idle" /\ step' = "idle" /\ state' = "idle" /\ curPid' = NoPid
        /\ guestPid' = NoPid /\ members' = {}
    BY <1>12 DEF HostDies, LauncherReset
  <2>2. ~channel' /\ ~ipc' /\ ~foreignHit'
    BY <1>12, Zenon DEF HostDies, LauncherReset, OnlyOwnSignalled
  <2>3. Children' = {}
    <3>1. proc' = [p \in Pids |-> IF p \in Children \union members THEN "foreign" ELSE proc[p]]
      BY <1>12 DEF HostDies, LauncherReset
    <3>2. QED
      BY <3>1 DEF Children
  <2>4. SettledInv'
    BY <2>1, <2>2, <2>3 DEF SettledInv, NoGuest
  <2>5. MembersInv' /\ OnlyOwnSignalled'
    BY <2>1, <2>2 DEF MembersInv, OnlyOwnSignalled
  <2>6. QED
    BY <2>1, <2>4, <2>5 DEF LaunchInv, LaunchedInv, PipeInv, StopInv, ReleaseInv
<1>13. CASE IpcStopReturns
  <2>1. /\ at = "ipcStop" /\ at' = "idle" /\ channel' = channel
        /\ UNCHANGED <<step, guestPid, state, curPid, proc, members, foreignHit>>
    BY <1>13 DEF IpcStopReturns
  <2>2. ~ipc'
    BY <1>13, Zenon DEF IpcStopReturns
  <2>3. SettledInv'
    BY <2>1, <2>2, <1>1 DEF SettledInv, ReleaseInv, NoGuest
  <2>4. QED
    BY <1>2, <2>1, <2>3 DEF LaunchInv, LaunchedInv, PipeInv, StopInv, ReleaseInv
<1>14. QED
  BY <1>3, <1>4, <1>5, <1>6, <1>7, <1>8, <1>9, <1>10, <1>11, <1>12, <1>13 DEF Handler

LEMMA InvStep == IInv /\ [Next]_vars => IInv'
<1> SUFFICES ASSUME IInv, [Next]_vars PROVE GuestInv'
  BY TypeStep DEF IInv
<1>1. CASE Native
  BY <1>1, InvStart, InvStop DEF Native
<1>2. CASE Child \/ World
  BY <1>2, InvOthers DEF Child, World
<1>3. CASE Runner \/ UNCHANGED vars
  <2>1. UNCHANGED core
    BY <1>3 DEF Runner, vars, core, launcher, processes, service
  <2>2. QED
    BY <2>1, CoreStutter DEF IInv
<1>4. QED
  BY <1>1, <1>2, <1>3, InvService DEF Next

LEMMA InvCorrect == Spec => []IInv
<1>1. QED
  BY InvInit, InvStep, PTL DEF Spec

(***************************************************************************)
(* Theorems.                                                               *)
(***************************************************************************)

\* Between two handlers the host has no child but the guest the service knows.
THEOREM NoChildIsLost == Spec => []NoLostChild
<1>1. IInv => NoLostChild
  BY PidsAssumption DEF IInv, GuestInv, SettledInv, NoGuest, NoLostChild
<1>2. QED
  BY <1>1, InvCorrect, PTL

\* Between two handlers the service and the native launcher know the same guest or none.
THEOREM ServiceAndLauncherAgree == Spec => []Agreement
<1>1. IInv => Agreement
  BY PidsAssumption DEF IInv, GuestInv, SettledInv, NoGuest, Agreement
<1>2. QED
  BY <1>1, InvCorrect, PTL

\* No signal reaches a process that is not ours: the number Stop signals cannot have been
\* given away, because nobody but Stop waits for the guest.
THEOREM NoStrangerSignalled == Spec => []OnlyOwnSignalled
<1>1. IInv => OnlyOwnSignalled
  BY DEF IInv, GuestInv
<1>2. QED
  BY <1>1, InvCorrect, PTL

\* When the service has no guest, no process of a former guest's group is alive.
THEOREM StopEndsTheGroup == Spec => []GroupGone
<1>1. IInv => GroupGone
  BY PidsAssumption DEF IInv, GuestInv, SettledInv, NoGuest, GroupGone
<1>2. QED
  BY <1>1, InvCorrect, PTL

\* When the service has no guest, the socket and the frame channel are closed.
THEOREM NothingIsLeftOpen == Spec => []NothingLeftOpen
<1>1. IInv => NothingLeftOpen
  BY PidsAssumption DEF IInv, GuestInv, SettledInv, NothingLeftOpen
<1>2. QED
  BY <1>1, InvCorrect, PTL

\* The socket and the frame channel are closed only when no child of the host's is left.
THEOREM ClosedOnlyAfterTheGuest == Spec => ClosedAfterGuest
<1> DEFINE Closing == (channel /\ ~channel') \/ (ipc /\ ~ipc')
<1>1. ASSUME IInv, IInv', [Next]_vars, Closing PROVE Children' = {}
  <2>1. CASE Native \/ Child \/ World
    BY <1>1, <2>1 DEF Native, Child, World, service
  <2>2. CASE Runner \/ UNCHANGED vars
    BY <1>1, <2>2 DEF Runner, vars, service
  <2>3. CASE OnStart
    <3>1. (ipc' = ipc \/ ipc' = TRUE) /\ (channel' = channel \/ channel' = TRUE)
      BY <2>3 DEF OnStart
    <3>2. QED
      BY <3>1, <1>1
  <2>4. CASE OnStop \/ OnDestroy \/ Bind \/ Unbind \/ LaunchDone \/ RunnerLaunched
             \/ RunnerStopped \/ NativeStopped
    BY <1>1, <2>4 DEF OnStop, OnDestroy, StopGuest, Bind, Unbind, LaunchDone, RunnerLaunched,
                      RunnerStopped, NativeStopped
  <2>5. CASE LaunchFailed \/ Release
    <3>1. at' = "ipcStop"
      BY <2>5 DEF LaunchFailed, Release
    <3>2. QED
      BY <1>1, <3>1 DEF IInv, GuestInv, ReleaseInv, NoGuest
  <2>6. CASE IpcStopReturns \/ HostDies
    <3>1. at' = "idle" /\ guestPid' = NoPid
      BY <1>1, <2>6 DEF IpcStopReturns, HostDies, IInv, GuestInv, ReleaseInv, NoGuest
    <3>2. QED
      BY <1>1, <3>1, PidsAssumption DEF IInv, GuestInv, SettledInv, NoGuest
  <2>7. QED
    BY <1>1, <2>1, <2>2, <2>3, <2>4, <2>5, <2>6 DEF Next, Handler
<1>2. IInv /\ IInv' /\ [Next]_vars => [Closing => Children' = {}]_vars
  BY <1>1
<1>3. QED
  BY <1>2, InvCorrect, PTL DEF Spec, ClosedAfterGuest

=============================================================================
