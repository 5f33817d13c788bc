------------------------------ MODULE Launcher ------------------------------
(***************************************************************************)
(* accore::GuestLauncher (core/launcher.cpp) with the processes it forks.  *)
(* Start and Stop run on the one thread that calls them (the application's *)
(* main thread, ContainerService); the child it forks and the rest of the  *)
(* system's processes run beside it.                                       *)
(*                                                                         *)
(* The module has no Init and Next of its own: CallStart and CallStop are  *)
(* made by the caller's actions, StartStep, StopStep and the process steps *)
(* are conjoined with the caller's variables unchanged.                    *)
(***************************************************************************)
EXTENDS Integers

CONSTANTS
  Pids,          \* the process numbers the kernel gives out
  NoPid,         \* stands for the pid 0, "no process"
  GracePolls     \* bound: grace_ms / 50 turns of Stop's loop (40 in the code)

ASSUME PidsAssumption == NoPid \notin Pids
ASSUME PollsAssumption == GracePolls \in Nat

VARIABLES
  state,         \* g_state
  curPid,        \* g_pid
  step,          \* where the calling thread is
  child,         \* its local variable pid
  waited,        \* turns of Stop's loop so far
  errPipe,       \* what a read of err_pipe[0] finds: "empty", "errno" or "eof"
  proc,          \* pid -> what the process is doing, see ProcStates
  members,       \* the guests that have other live processes in their process group
  foreignHit     \* history: has a signal of ours reached somebody else's process?

launcher  == <<state, curPid, step, child, waited>>
processes == <<proc, members, foreignHit>>

\* A guest's child is "forked" until setsid, "grouped" until execve, then a "guest"; it
\* ends as a "zombie", or as "failed" if execve failed, until somebody waits for it.
\* A "foreign" process is any other process of the system.
ProcStates == {"free", "forked", "grouped", "guest", "zombie", "failed", "foreign"}
Dead(p)    == proc[p] \in {"zombie", "failed"}
Children   == {p \in Pids : proc[p] \in {"forked", "grouped", "guest", "zombie", "failed"}}

LauncherTypeOK ==
  /\ state \in {"idle", "starting", "running", "stopping"}
  /\ curPid \in Pids \union {NoPid}
  /\ step \in {"idle", "fork", "read", "reap", "started", "failed",
               "termGroup", "termLeader", "poll", "killGroup", "killLeader", "wait", "stopped"}
  /\ child \in Pids \union {NoPid}
  /\ waited \in 0 .. GracePolls
  /\ errPipe \in {"empty", "errno", "eof"}
  /\ proc \in [Pids -> ProcStates]
  /\ members \in SUBSET Pids
  /\ foreignHit \in BOOLEAN

LauncherInit ==
  /\ state = "idle" /\ curPid = NoPid
  /\ step = "idle" /\ child = NoPid /\ waited = 0
  /\ errPipe = "empty"
  /\ proc = [p \in Pids |-> "free"]
  /\ members = {}
  /\ foreignHit = FALSE

----------------------------------------------------------------------------
(* Start                                                                    *)

\* nativeStartContainer sets kStarting and calls Start.
CallStart ==
  /\ state' = "starting"
  /\ step' = "fork"
  /\ UNCHANGED <<curPid, child, waited, errPipe, processes>>

\* A bad config, no pipe or no process: Start returns -errno and the JNI call resets
\* the state.
StartRefused ==
  /\ step = "fork"
  /\ step' = "failed"
  /\ state' = "idle"
  /\ UNCHANGED <<curPid, child, waited, errPipe, processes>>

Fork ==
  /\ step = "fork"
  /\ \E p \in Pids \ members :
       /\ proc[p] = "free"
       /\ proc' = [proc EXCEPT ![p] = "forked"]
       /\ child' = p
  /\ step' = "read"
  /\ errPipe' = "empty"
  /\ UNCHANGED <<state, curPid, waited, members, foreignHit>>

\* Mutant: a guest that failed to start is forgotten, not waited for.
ReadErrPipe_NoReap ==
  /\ step = "read"
  /\ IF errPipe = "errno"
     THEN step' = "failed" /\ state' = "idle" /\ UNCHANGED curPid
     ELSE step' = "started" /\ curPid' = child /\ state' = "running"
  /\ UNCHANGED <<child, waited, errPipe, processes>>

\* The parent's one read of the pipe. The pipe is O_NONBLOCK: while the child has neither
\* executed nor failed the read gives EAGAIN, which counts as success like an end of file.
ReadErrPipe ==
  /\ step = "read"
  /\ IF errPipe = "errno"
     THEN step' = "reap" /\ UNCHANGED <<state, curPid>>
     ELSE step' = "started" /\ curPid' = child /\ state' = "running"
  /\ UNCHANGED <<child, waited, errPipe, processes>>

\* waitpid for the child that reported an errno; the JNI call then resets the state.
ReapFailed ==
  /\ step = "reap"
  /\ Dead(child)
  /\ proc' = [proc EXCEPT ![child] = "free"]
  /\ step' = "failed"
  /\ state' = "idle"
  /\ UNCHANGED <<curPid, child, waited, errPipe, members, foreignHit>>

StartStep == StartRefused \/ Fork \/ ReadErrPipe \/ ReapFailed

----------------------------------------------------------------------------
(* Stop                                                                     *)

CallStop(p) ==
  /\ state' = "stopping"
  /\ step' = "termGroup"
  /\ child' = p
  /\ waited' = 0
  /\ UNCHANGED <<curPid, errPipe, processes>>

\* What a signal makes of process p if it reaches it in one of the states S. SIGKILL ends
\* it; SIGTERM may be caught, by a guest only: before execve it has its default action.
Signalled(p, S, catchable) ==
  LET ended == IF proc[p] \in S THEN [proc EXCEPT ![p] = "zombie"] ELSE proc
  IN  IF catchable /\ proc[p] = "guest" THEN {ended, proc} ELSE {ended}

\* kill(-p, sig) reaches the process group p: p itself once setsid has made it the leader,
\* and the other members.
SignalGroup(p, catchable) ==
  /\ proc' \in Signalled(p, {"grouped", "guest"}, catchable)
  /\ members' \in {members \ {p}} \union (IF catchable THEN {members} ELSE {})
  /\ foreignHit' = (foreignHit \/ proc[p] = "foreign")

\* kill(p, sig) reaches the one process that has the number p now.
SignalOne(p, catchable) ==
  /\ proc' \in Signalled(p, {"forked", "grouped", "guest"}, catchable)
  /\ foreignHit' = (foreignHit \/ proc[p] = "foreign")
  /\ UNCHANGED members

TermGroup ==
  /\ step = "termGroup"
  /\ SignalGroup(child, TRUE)
  /\ step' = "termLeader"
  /\ UNCHANGED <<state, curPid, child, waited, errPipe>>

TermLeader ==
  /\ step = "termLeader"
  /\ SignalOne(child, TRUE)
  /\ step' = "poll"
  /\ UNCHANGED <<state, curPid, child, waited, errPipe>>

\* Mutant: the loop makes one turn too many.
Poll_OneMore ==
  /\ step = "poll"
  /\ IF waited <= GracePolls
     THEN waited' = waited + 1 /\ UNCHANGED step
     ELSE step' = "killGroup" /\ UNCHANGED waited
  /\ UNCHANGED <<state, curPid, child, errPipe, processes>>

\* Mutant: the turns are not counted.
Poll_Uncounted ==
  /\ step = "poll"
  /\ IF waited < GracePolls
     THEN IF proc[child] = "free"
          THEN step' = "stopped" /\ curPid' = NoPid /\ state' = "idle"
          ELSE UNCHANGED <<step, curPid, state>>
     ELSE step' = "killGroup" /\ UNCHANGED <<curPid, state>>
  /\ UNCHANGED <<child, waited, errPipe, processes>>

\* One turn of the grace loop: kill(p, 0) fails with ESRCH only when no process has the
\* number p; a zombie still has it. The last turn falls out of the loop.
Poll ==
  /\ step = "poll"
  /\ IF waited < GracePolls
     THEN IF proc[child] = "free"
          THEN /\ step' = "stopped" /\ curPid' = NoPid /\ state' = "idle"
               /\ UNCHANGED waited
          ELSE waited' = waited + 1 /\ UNCHANGED <<step, curPid, state>>
     ELSE step' = "killGroup" /\ UNCHANGED <<waited, curPid, state>>
  /\ UNCHANGED <<child, errPipe, processes>>

\* Mutant: the escalation forgets the group.
KillGroup_LeaderOnly ==
  /\ step = "killGroup"
  /\ step' = "killLeader"
  /\ UNCHANGED <<state, curPid, child, waited, errPipe, processes>>

KillGroup ==
  /\ step = "killGroup"
  /\ SignalGroup(child, FALSE)
  /\ step' = "killLeader"
  /\ UNCHANGED <<state, curPid, child, waited, errPipe>>

KillLeader ==
  /\ step = "killLeader"
  /\ SignalOne(child, FALSE)
  /\ step' = "wait"
  /\ UNCHANGED <<state, curPid, child, waited, errPipe>>

\* Mutant: Stop does not wait for the child it has killed.
ReapStopped_NoWait ==
  /\ step = "wait"
  /\ step' = "stopped"
  /\ curPid' = NoPid
  /\ state' = "idle"
  /\ UNCHANGED <<child, waited, errPipe, processes>>

\* waitpid: it waits for the child to be dead and frees its number.
ReapStopped ==
  /\ step = "wait"
  /\ Dead(child)
  /\ proc' = [proc EXCEPT ![child] = "free"]
  /\ step' = "stopped"
  /\ curPid' = NoPid
  /\ state' = "idle"
  /\ UNCHANGED <<child, waited, errPipe, members, foreignHit>>

StopStep == TermGroup \/ TermLeader \/ Poll \/ KillGroup \/ KillLeader \/ ReapStopped

\* The application's process dies: the static state is lost, and what it has forked belongs
\* to the system's first process from then on.
LauncherReset ==
  /\ state' = "idle" /\ curPid' = NoPid
  /\ step' = "idle" /\ child' = NoPid /\ waited' = 0
  /\ errPipe' = "empty"
  /\ proc' = [p \in Pids |-> IF p \in Children \union members THEN "foreign" ELSE proc[p]]
  /\ members' = {}
  /\ UNCHANGED foreignHit

----------------------------------------------------------------------------
(* The forked child up to execve, the guest, and the rest of the system.    *)

Setsid(p) ==
  /\ proc[p] = "forked"
  /\ proc' = [proc EXCEPT ![p] = "grouped"]
  /\ UNCHANGED <<launcher, errPipe, members, foreignHit>>

\* execve succeeds: its close-on-exec end of the pipe is closed.
Exec(p) ==
  /\ proc[p] = "grouped"
  /\ proc' = [proc EXCEPT ![p] = "guest"]
  /\ errPipe' = IF child = p THEN "eof" ELSE errPipe
  /\ UNCHANGED <<launcher, members, foreignHit>>

\* execve fails: ReportExecFailure writes errno and leaves with 127.
ExecFails(p) ==
  /\ proc[p] = "grouped"
  /\ proc' = [proc EXCEPT ![p] = "failed"]
  /\ errPipe' = IF child = p THEN "errno" ELSE errPipe
  /\ UNCHANGED <<launcher, members, foreignHit>>

ChildStep == \E p \in Pids : Setsid(p) \/ Exec(p) \/ ExecFails(p)

GuestForks(p) ==
  /\ proc[p] = "guest"
  /\ members' = members \union {p}
  /\ UNCHANGED <<launcher, errPipe, proc, foreignHit>>

GuestExits(p) ==
  /\ proc[p] = "guest"
  /\ proc' = [proc EXCEPT ![p] = "zombie"]
  /\ UNCHANGED <<launcher, errPipe, members, foreignHit>>

MembersExit(p) ==
  /\ p \in members
  /\ members' = members \ {p}
  /\ UNCHANGED <<launcher, errPipe, proc, foreignHit>>

\* The kernel reuses a number when neither a process nor a process group has it.
ForeignStarts(p) ==
  /\ proc[p] = "free"
  /\ p \notin members
  /\ proc' = [proc EXCEPT ![p] = "foreign"]
  /\ UNCHANGED <<launcher, errPipe, members, foreignHit>>

ForeignExits(p) ==
  /\ proc[p] = "foreign"
  /\ proc' = [proc EXCEPT ![p] = "free"]
  /\ UNCHANGED <<launcher, errPipe, members, foreignHit>>

WorldStep ==
  \E p \in Pids : \/ GuestForks(p) \/ GuestExits(p) \/ MembersExit(p)
                  \/ ForeignStarts(p) \/ ForeignExits(p)

=============================================================================
