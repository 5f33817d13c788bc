----------------------- MODULE ContainerProcessRunner -----------------------
(***************************************************************************)
(* ContainerProcessRunner.kt: the diagnostic shell that runs beside the    *)
(* guest. startGuest and stopGuest are called on the main thread; each     *)
(* startGuest launches a coroutine on Dispatchers.IO, which starts the     *)
(* process, records it and then reads its output until it ends.            *)
(*                                                                         *)
(* Like Launcher, the module is composed by its caller, ContainerService.  *)
(***************************************************************************)
EXTENDS Integers

CONSTANT MaxJobs       \* bound: startGuest calls in a behaviour

ASSUME JobsAssumption == MaxJobs \in Nat

VARIABLES
  processJob,          \* the current job, 0 for null
  activeProcess,       \* the job whose process is recorded, 0 for null
  phase,               \* job -> how far its coroutine is
  shells               \* jobs whose process is alive

runner == <<processJob, activeProcess, phase, shells>>

Jobs == 1 .. MaxJobs
NewJobs == {j \in Jobs : phase[j] = "none"}

RunnerTypeOK ==
  /\ processJob \in Jobs \union {0}
  /\ activeProcess \in Jobs \union {0}
  /\ phase \in [Jobs -> {"none", "queued", "starting", "started", "reading", "done"}]
  /\ shells \in SUBSET Jobs

RunnerInit ==
  /\ processJob = 0 /\ activeProcess = 0
  /\ phase = [j \in Jobs |-> "none"]
  /\ shells = {}

\* stopGuest up to destroyForcibly: the job is cancelled and the recorded process is killed.
\* A job that has not been dispatched never runs; one that has does not notice: pb.start,
\* readLine and waitFor do not look at the cancellation.
RunnerCancel ==
  /\ phase' = [j \in Jobs |-> IF j = processJob /\ phase[j] = "queued" THEN "done" ELSE phase[j]]
  /\ processJob' = 0
  /\ shells' = shells \ {activeProcess}
  /\ UNCHANGED activeProcess

\* The last assignment of stopGuest.
RunnerForget ==
  /\ activeProcess' = 0
  /\ UNCHANGED <<processJob, phase, shells>>

\* The end of startGuest: stopGuest's last assignment and the launch of the next job.
RunnerLaunch ==
  /\ activeProcess' = 0
  /\ \E j \in NewJobs :
       /\ \A k \in NewJobs : j <= k
       /\ processJob' = j
       /\ phase' = [phase EXCEPT ![j] = "queued"]
  /\ UNCHANGED shells

Dispatch(j) ==
  /\ phase[j] = "queued"
  /\ phase' = [phase EXCEPT ![j] = "starting"]
  /\ UNCHANGED <<processJob, activeProcess, shells>>

\* pb.start(), which may throw; nothing looks at the cancellation before it.
StartProcess(j) ==
  /\ phase[j] = "starting"
  /\ \/ /\ phase' = [phase EXCEPT ![j] = "started"]
        /\ shells' = shells \union {j}
     \/ /\ phase' = [phase EXCEPT ![j] = "done"]
        /\ UNCHANGED shells
  /\ UNCHANGED <<processJob, activeProcess>>

\* activeProcess = proc
RecordProcess(j) ==
  /\ phase[j] = "started"
  /\ phase' = [phase EXCEPT ![j] = "reading"]
  /\ activeProcess' = j
  /\ UNCHANGED <<processJob, shells>>

\* The shell falls silent after its greeting, so the reader, cancelled or not, is held in
\* readLine or waitFor until the process is dead.
ReaderEnds(j) ==
  /\ phase[j] = "reading"
  /\ j \notin shells
  /\ phase' = [phase EXCEPT ![j] = "done"]
  /\ UNCHANGED <<processJob, activeProcess, shells>>

ShellDies(j) ==
  /\ j \in shells
  /\ shells' = shells \ {j}
  /\ UNCHANGED <<processJob, activeProcess, phase>>

\* The application's process dies: its coroutines end, and the shells are nobody's.
RunnerReset ==
  /\ processJob' = 0
  /\ activeProcess' = 0
  /\ phase' = [j \in Jobs |-> IF phase[j] = "none" THEN "none" ELSE "done"]
  /\ shells' = {}

RunnerStep ==
  \E j \in Jobs : \/ Dispatch(j) \/ StartProcess(j) \/ RecordProcess(j)
                  \/ ReaderEnds(j) \/ ShellDies(j)

\* "Calls [stopGuest] first so only one process is ever active"
\* (ContainerProcessRunner.kt:35).
OneShell == \A j, k \in shells : j = k

=============================================================================
