-------------------------- MODULE ContainerService --------------------------
(***************************************************************************)
(* The host-side coordinator, ContainerService.kt: the foreground service  *)
(* that owns the guest, composed with the native launcher (Launcher) and   *)
(* with the shell runner (ContainerProcessRunner). All its handlers run on *)
(* the main thread, to their end; beside them run the forked child, the    *)
(* guest's processes, the rest of the system and the runner's coroutines.  *)
(*                                                                         *)
(* The IPC server and the frame channel are here as "open" or not; what    *)
(* they do while open is in IpcServer and FrameChannel. Closing the frame  *)
(* channel is a step; nativeIpcStop joins the server's threads, and this   *)
(* module does not assume that it returns: when it does is in IpcServer.   *)
(* The renderer, which the stop path tells to drop its window, is in       *)
(* DisplayRenderer.                                                        *)
(***************************************************************************)
EXTENDS Launcher, ContainerProcessRunner

VARIABLES
  svc,           \* does the service instance exist?
  started,       \* does the system count it as started (startForegroundService, stopSelf)?
  bound,         \* is the viewport bound to it?
  at,            \* which part of a handler the main thread is in
  then,          \* what follows nativeIpcStop: "stopSelf", "destroyed" or "launchFailed"
  guestPid,      \* ContainerService.guestPid
  channel,       \* does g_host_channel hold a channel?
  ipc            \* is there an IPC server, started and not stopped to the end?

service == <<svc, started, bound, at, then, guestPid, channel, ipc>>
vars    == <<launcher, errPipe, processes, runner, service>>

TypeOK ==
  /\ LauncherTypeOK
  /\ RunnerTypeOK
  /\ svc \in BOOLEAN /\ started \in BOOLEAN /\ bound \in BOOLEAN
  /\ at \in {"idle", "launch", "runner", "stopRunner", "stopNative", "release",
            "ipcStop"}
  /\ then \in {"stopSelf", "destroyed", "launchFailed"}
  /\ guestPid \in Pids \union {NoPid}
  /\ channel \in BOOLEAN /\ ipc \in BOOLEAN

Init ==
  /\ LauncherInit
  /\ RunnerInit
  /\ svc = FALSE /\ started = FALSE /\ bound = FALSE
  /\ at = "idle" /\ then = "stopSelf"
  /\ guestPid = NoPid
  /\ channel = FALSE /\ ipc = FALSE

----------------------------------------------------------------------------
(* startGuest                                                               *)

\* The system delivers an intent to an instance it has not decided to destroy, or to a
\* new one.
Reachable == svc => started \/ bound

\* onStartCommand with ACTION_START (or the null intent of a sticky restart). The results
\* of nativeIpcStart (already listening, or no socket) and of nativeCreateFrameChannel (no
\* memory, then no descriptor is announced) do not stop the launch.
OnStart ==
  /\ at = "idle"
  /\ Reachable
  /\ NewJobs # {}
  /\ svc' = TRUE
  /\ started' = TRUE
  /\ IF guestPid # NoPid /\ state = "running"
     THEN UNCHANGED <<launcher, errPipe, processes, at, channel, ipc>>
     ELSE /\ ipc' \in {TRUE, ipc}
          /\ channel' \in {TRUE, channel}
          /\ CallStart
          /\ at' = "launch"
  /\ UNCHANGED <<runner, bound, then, guestPid>>

LaunchDone ==
  /\ at = "launch"
  /\ step = "started"
  /\ step' = "idle"
  /\ guestPid' = child
  /\ RunnerCancel
  /\ at' = "runner"
  /\ UNCHANGED <<state, curPid, child, waited, errPipe, processes, svc, started, bound, then,
                 channel, ipc>>

RunnerLaunched ==
  /\ at = "runner"
  /\ RunnerLaunch
  /\ at' = "idle"
  /\ UNCHANGED <<launcher, errPipe, processes, svc, started, bound, then, guestPid, channel,
                 ipc>>

\* Mutant: a failed launch leaves the frame channel and the socket open.
LaunchFailed_NoCleanup ==
  /\ at = "launch"
  /\ step = "failed"
  /\ step' = "idle"
  /\ at' = "idle"
  /\ UNCHANGED <<state, curPid, child, waited, errPipe, processes, runner, svc, started, bound,
                 then, guestPid, channel, ipc>>

LaunchFailed ==
  /\ at = "launch"
  /\ step = "failed"
  /\ step' = "idle"
  /\ channel' = FALSE
  /\ then' = "launchFailed"
  /\ at' = "ipcStop"
  /\ UNCHANGED <<state, curPid, child, waited, errPipe, processes, runner, svc, started, bound,
                 guestPid, ipc>>

----------------------------------------------------------------------------
(* stopGuest                                                                *)

StopGuest ==
  /\ at' = "stopRunner"
  /\ RunnerCancel
  /\ UNCHANGED <<launcher, errPipe, processes, bound, guestPid, channel, ipc>>

\* onStartCommand with ACTION_STOP; startForegroundService creates the service for it.
OnStop ==
  /\ at = "idle"
  /\ Reachable
  /\ svc' = TRUE
  /\ started' = TRUE
  /\ then' = "stopSelf"
  /\ StopGuest

OnDestroy ==
  /\ at = "idle"
  /\ svc /\ ~started /\ ~bound
  /\ then' = "destroyed"
  /\ StopGuest
  /\ UNCHANGED <<svc, started>>

RunnerStopped ==
  /\ at = "stopRunner"
  /\ RunnerForget
  /\ IF guestPid # NoPid
     THEN CallStop(guestPid) /\ at' = "stopNative"
     ELSE at' = "release" /\ UNCHANGED <<launcher, errPipe, processes>>
  /\ UNCHANGED <<svc, started, bound, then, guestPid, channel, ipc>>

\* Mutant: stopGuest keeps the number of the guest it has waited for.
NativeStopped_KeepPid ==
  /\ at = "stopNative"
  /\ step = "stopped"
  /\ step' = "idle"
  /\ at' = "release"
  /\ UNCHANGED <<state, curPid, child, waited, errPipe, processes, runner, svc, started, bound,
                 then, guestPid, channel, ipc>>

NativeStopped ==
  /\ at = "stopNative"
  /\ step = "stopped"
  /\ step' = "idle"
  /\ guestPid' = NoPid
  /\ at' = "release"
  /\ UNCHANGED <<state, curPid, child, waited, errPipe, processes, runner, svc, started, bound,
                 then, channel, ipc>>

Release ==
  /\ at = "release"
  /\ channel' = FALSE
  /\ at' = "ipcStop"
  /\ UNCHANGED <<launcher, errPipe, processes, runner, svc, started, bound, then, guestPid, ipc>>

\* nativeIpcStop returns, and with it startGuest, or stopGuest with the stopSelf or the end
\* of onDestroy after it, when the instance is gone. (Cancelling the scope ends no coroutine
\* that stopGuest has not ended.)
IpcStopReturns ==
  /\ at = "ipcStop"
  /\ ipc' = FALSE
  /\ started' = (started /\ then # "stopSelf")
  /\ svc' = (svc /\ then # "destroyed")
  /\ at' = "idle"
  /\ UNCHANGED <<launcher, errPipe, processes, runner, bound, then, guestPid, channel>>

----------------------------------------------------------------------------
(* The viewport's binding (BIND_AUTO_CREATE).                               *)

Bind ==
  /\ at = "idle"
  /\ Reachable
  /\ ~bound
  /\ bound' = TRUE
  /\ svc' = TRUE
  /\ UNCHANGED <<launcher, errPipe, processes, runner, started, at, then, guestPid, channel, ipc>>

Unbind ==
  /\ at = "idle"
  /\ bound
  /\ bound' = FALSE
  /\ UNCHANGED <<launcher, errPipe, processes, runner, svc, started, at, then, guestPid,
                 channel, ipc>>

----------------------------------------------------------------------------
\* The system kills the application, at any point of a handler: all the host's state is
\* lost, and what it has forked lives on without it. START_STICKY brings the service back
\* with OnStart, or the user does.
HostDies ==
  /\ svc
  /\ LauncherReset
  /\ RunnerReset
  /\ svc' = FALSE /\ started' = FALSE /\ bound' = FALSE
  /\ at' = "idle"
  /\ guestPid' = NoPid
  /\ channel' = FALSE /\ ipc' = FALSE
  /\ UNCHANGED then

----------------------------------------------------------------------------
Native ==
  /\ \/ StartStep
     \/ StopStep
  /\ UNCHANGED <<runner, service>>

Handler == \/ LaunchDone \/ RunnerLaunched \/ LaunchFailed \/ RunnerStopped \/ NativeStopped
           \/ Release \/ (~ipc /\ IpcStopReturns)

Child  == ChildStep /\ UNCHANGED <<runner, service>>
World  == WorldStep /\ UNCHANGED <<runner, service>>
Runner == RunnerStep /\ UNCHANGED <<launcher, errPipe, processes, service>>

Next == OnStart \/ OnStop \/ OnDestroy \/ Bind \/ Unbind \/ HostDies \/ Native \/ Handler
        \/ IpcStopReturns \/ Child \/ World \/ Runner

\* The main thread runs, and a forked child runs up to execve or exit. nativeIpcStop returns
\* at once when there is no server; with one, it returns when the server's threads let it.
\* Whether intents arrive, and what the guest does, is not up to the host.
Spec == Init /\ [][Next]_vars /\ WF_vars(Native) /\ WF_vars(Handler) /\ WF_vars(Child)

----------------------------------------------------------------------------
(* Correctness.                                                             *)

\* Between two handlers every child of the host that nobody has waited for is the guest
\* the service knows: no second guest, and no zombie or running process it has lost.
NoLostChild == at = "idle" => Children = {guestPid} \ {NoPid}

\* The service and the native launcher agree on whether there is a guest and which one.
Agreement ==
  at = "idle" => /\ curPid = guestPid
                 /\ state = IF guestPid = NoPid THEN "idle" ELSE "running"

\* Signals go to our own child or to nobody, also when the kernel has given its number
\* away in the meantime.
OnlyOwnSignalled == ~foreignHit

\* Stop ends the guest's whole process group, not only its leader.
GroupGone == at = "idle" /\ guestPid = NoPid => members = {}

\* The frame channel and the socket are open for a guest only: none is left without one.
NothingLeftOpen == at = "idle" /\ guestPid = NoPid => ~channel /\ ~ipc

\* They are closed only when the host has no process left that could use them: the guest is
\* dead and waited for before (or the host itself has died, and has no children then).
ClosedAfterGuest ==
  [][(channel /\ ~channel') \/ (ipc /\ ~ipc') => Children' = {}]_vars

\* Every start and stop comes to its end, however the launch and the guest's death go, but for
\* one call: the last of stopGuest and of a failed launch, nativeIpcStop, with a server to
\* stop. Its joins have no bound; IpcServer says what they may wait for. Nothing before it,
\* the waitpid of Stop included, holds the main thread for ever.
HandlersReturn == at # "idle" ~> (at = "idle" \/ (at = "ipcStop" /\ ipc))

\* launcher.h:46-49: Start returns "<0 ... or child exec failure relayed over the CLOEXEC
\* pipe": a guest announced as running is not one whose execve has failed.
ExecFailureReported == state = "running" => proc[curPid] # "failed"

=============================================================================
