# A TLA+ model of virtualaosp

The repository runs an Android userland (the *guest*) as ordinary processes of
one Android application (the *host*). There is no namespace, no root and no
kernel module: the guest's processes are forked by the application, a preloaded
library (`libfake`) redirects their file system calls into a directory of the
application, frames come back through shared memory and input goes out through a
socket. The code is three native libraries in C++ and the application in Kotlin.

Paths below are relative to `src/app/src/main/cpp/` (C++) and to
`src/app/src/main/java/dev/itzkaguya/aospcontainer/` (Kotlin).

## 1. The system

| component | state | operations | talks to |
|---|---|---|---|
| **frame transport** `core/frame_channel.cpp`, `fake/frame_producer.cpp`, `common/include/frame_protocol.h` | a memfd region: header, slots with a sequence word and pixels; in the guest the last sequence and the next slot; in the host the channel singleton | `Create`, `frame_producer_init_from_env`, `frame_publish`, `ReadLatest`, `SetHostChannel` | guest and host through the region only; the host side is called by the renderer's pump thread |
| **guest process launcher** `core/launcher.cpp`, JNI in `core/container_core.cpp` | `g_state`, `g_pid`; the processes it forks | `Start`, `Stop`, `state` | called by the service on the main thread; signals and waits for the guest |
| **container service** `service/ContainerService.kt` | `guestPid`, the handler's heartbeat, the state flow | `onStartCommand` (START, STOP), `onDestroy`, `onBind` | intents and the viewport; launcher, runner, IPC server, frame channel, renderer |
| **diagnostic shell runner** `core/ContainerProcessRunner.kt` | `processJob`, `activeProcess` | `startGuest`, `stopGuest`, a coroutine per start | called by the service; a shell process; the console log |
| **IPC server** `core/ipc.cpp` | the listening socket, the client list, an accept thread and a thread per client | `Start`, `Stop`, `Send`, `Broadcast` | service, input consumer, guests' clients |
| **IPC client** `fake/ipc_client.cpp` | a running flag, one connection | connect, retry, announce, dispatch | IPC server, input injector |
| **input path** `core/input_consumer.cpp`, `fake/input_injector.cpp`, `input/ContainerInput.kt` | surface size; two spool descriptors | touch batches, keys, spool records | touch listener, IPC, guest files |
| **lifecycle launcher** `core/guest_launcher.cpp`, `core/native_bridge.cpp` | a second launcher: state, pid, monitor thread, log thread, software frame pump; the JNI listener | `startContainer`, `stopContainer`, `monitorLoop`, state callbacks | renderer, service's state flow |
| **display renderer** `core/display_renderer.cpp` | window, EGL objects, frame buffer, pump and render threads | `setNativeWindow`, `updateWindowSize`, `destroyWindow`, `updateGuestFrame`, loops | surface callbacks, frame channel, software pump |
| **rootfs import and install** `rootfs/*.kt`, `core/RootFsExtractor.kt`, `ui/install/InstallViewModel.kt`, `core/interp_patcher.cpp` | directories on disk, the manifest, the screen's state | import, extract, validate, patch interpreters, wipe | archives, the file system |
| **path redirection** `fake/path_redirect.cpp` | root and excluded prefixes, fixed after start | `map_path`, `unmap_path` | every file hook |
| **virtual files** `fake/vfs_emu.cpp` | a flag: is the placeholder tree made? | open, stat, access, readlink, opendir of emulated paths | file hooks, the sandbox |
| **syscall hooks** `fake/syscall_hooks_*.cpp`, `fake/mount_emu.cpp`, `fake/uid_spoof.cpp` | the tables set up when the library is loaded | wrappers that translate paths | libc, kernel |
| **seccomp filter** `fake/seccomp_filter.cpp` | none | a constant program, installed once | kernel |
| **user interface, build** | Compose state | – | intents, surface callbacks |

### What is hard about it

- *Two processes, no lock.* The frame ring is read while it is written, the
  writer may die at any instruction, and the library is built for a strongly
  and for a weakly ordered machine.
- *Processes outlive the calls that start them.* A fork becomes a process group,
  an exec, a guest that may catch signals, a zombie; its number is reused when it
  has been waited for. The application itself may be killed and restarted.
- *Threads around singletons.* Accept, client, monitor, pump and render threads
  and coroutines read state that the main thread replaces (`impl_`, the host
  channel, the EGL objects, `activeProcess`).
- *Partial failure.* A launch, an import, an extraction or a send may stop after
  some of its effects.

### What makes each part correct

- Frame transport: a delivered frame is one whole frame, the one its sequence
  names, new enough, and the last one is eventually delivered.
- Launcher and service: one guest or none, known to both; no child lost; only own
  processes signalled; everything opened for a guest is closed after it; nothing
  but the socket server's `Stop` can hold a handler.
- Runner: one shell at a time.
- IPC: after `Stop` no thread and no descriptor is left, and few, known waits can
  hold `Stop` or a broadcast; a guest that is served is in the list and in every broadcast; a guest is served or sees
  the end and reconnects.
- Lifecycle launcher: one guest at a time with a thread that waits for it; a
  guest's end is reported, and before the next one's RUNNING; every call returns.
- Renderer: once a surface callback has returned there is no EGL handle for a swap on
  the window it took away; the window that stays shows the last frame at the window's
  size.
- Import: what stands in the place of a system is never a mixture and never was
  incomplete, and is deleted only for a whole one; what is patched into it names where
  it ends up.
- Path redirection and the hooks: the guest sees one tree, under whichever name;
  the names it gets back lead to where they came from; a path that does not fit
  is refused; what a directory lists is served, and the other way round where the code
  has a placeholder.

`PROJECT.json` lists every hazard with its line and the properties that cover it,
or why none does.

## 2. The modules

| module | models | status |
|---|---|---|
| `LatestFrame` | what the frame transport promises, with no slots and no sequence words | done |
| `FrameChannel` | the ring: guest producer, host `ReadLatest`, the hand-over to the renderer | done |
| `FrameChannelProofs` | inductive invariant, safety theorems and the refinement of `LatestFrame` | done |
| `Launcher` | `Start`, `Stop`, the forked child, process groups and numbers (no `Next` of its own) | done |
| `ContainerProcessRunner` | the shell runner and its coroutines (no `Next` of its own) | done |
| `ContainerService` | the service's handlers, composed with the two modules above; the specification | done |
| `ContainerServiceProofs` | inductive invariant of the composition and six safety theorems | done |
| `IpcServer` | the socket server's main, accept and client threads, the guests' clients and the descriptor numbers they share | done |
| `IpcServerProofs` | inductive invariant of the server's threads and its list, four safety theorems | done |
| `LifecycleLauncher` | the second launcher and the JNI bridge: callers, monitor, log and pump threads, the listener | done |
| `LifecycleLauncherProofs` | inductive invariant of callers, monitors and guests, five safety theorems | done |
| `DisplayRenderer` | surface callbacks, render thread, pump thread, EGL, the lifetime of the frame channel | done |
| `DisplayRendererProofs` | inductive invariant of window and EGL surface, three safety theorems | done |
| `RootfsImporter` | imports from the archive to the place of the system, with failures and kills | done |
| `RootfsImporterProofs` | inductive invariant of imports and target, four safety theorems | done |
| `GuestFiles` | path translation, the file hooks, emulated files and the placeholder tree in a guest | done |
| `GuestFilesProofs` | the lemmas about translation, four safety theorems, one of them the refinement of `GuestTree` | done |
| `GuestTree` | what `libfake` promises of the guest's files: one tree | done |
| `MCGuestFiles` | the small sandbox `GuestFiles` is checked on | done |

### FrameChannel

One action is one access to shared memory. `Attach` is
`frame_producer_init_from_env` when it succeeds; `PublishBegin`, `Mark`,
`CopyIn(w)`, `PublishEnd` are the call of `frame_publish`, its odd store, the
stores of its memcpy and its even store; `ReadBegin`, `ScanSlot`, `ReadNothing`,
`CopyBegin`, `CopyOut(w)`, `LoadAgain`, `ReadMismatch`, `ReadDone` are
`ReadLatest` in the order of its code, the last one with the `updateGuestFrame`
that `pumpLoop` calls on success. A frame's pixels are its number, word by word,
so that a mixture of two frames is visible. `bytes_used` is written by the guest
and read by nobody, and is left out. `Mark` stores an odd sequence, as
`frame_producer.cpp:111` does; the comment at `frame_protocol.h:43-44`, that odd values are
not used, does not hold.

*Memory order.* With `WeakMemory = FALSE` memory accesses happen in program
order, which is what x86_64 does with these stores and loads. With `TRUE` the
model allows exactly the two reorderings that the C++ orders in the code permit
and arm64 performs: plain stores after a release store may become visible before
it (`CopyIn` before `Mark`), and an acquire load may be satisfied before plain
loads that precede it (`LoadAgain` before `CopyOut`). Nothing moves across the
even store, which is a release store with the copy before it.

*Abstractions.* The pixel format and sizes (a frame of another size is refused
before it touches anything), the 64-bit wrap of the sequence (2^63 frames) and
the misalignment of a slot's sequence word when width times height is odd (the
service asks for 720 x 1280) are not modelled. `Attach` starts from a mapping
that succeeded: the region's descriptor is created close-on-exec
(`frame_channel.cpp:43`), so a guest started by the launcher does not inherit it
today, and no code in the repository calls `frame_publish` yet; the hand-over is
not modelled. The region has one producer: libfake's
constructor attaches in every guest process it is loaded into
(`fake.cpp:63`), and two of them that published would each count from zero; the
model has the single caller the code is written for.

### Launcher, ContainerProcessRunner, ContainerService

The service's handlers run on the main thread from their beginning to their end;
`at` is the part of a handler it is in and `step` is where it is inside `Start`
or `Stop`. Each system call of the launcher that another process can interleave
with is an action: `Fork`, `ReadErrPipe`, `ReapFailed`, the four `kill`s
(`TermGroup`, `TermLeader`, `KillGroup`, `KillLeader`), the turns of the polling
loop (`Poll`), `ReapStopped`. The handler's parts between them are
`OnStart`, `LaunchDone`, `RunnerLaunched`, `LaunchFailed`, `OnStop`, `OnDestroy`,
`RunnerStopped`, `NativeStopped`, `Release`, `IpcStopReturns`.

`LaunchFailed` and `Release` go as far as the call of `nativeIpcStop`, the last thing that
either of `startGuest` and `stopGuest` does; `IpcStopReturns` is its return with what
follows. In between stand the joins of `IpcServer`'s `Stop`, which have no bound, so nothing
makes that step happen while there is a server. `IpcServer` has the other call of this
main thread that may not return, `Broadcast`, which touch and key events make and the
service's handlers do not.

`proc` says of every process number what has it now: nobody, a child of ours
between fork and `setsid`, between `setsid` and `execve`, a running guest, a zombie,
a zombie whose `execve` failed, or a stranger. The kernel gives out a number when
neither a process nor a process group has it. A guest may catch or ignore SIGTERM,
exit by itself at any time, and have other processes in its group (`members`)
that outlive it. `HostDies` is the end of the application at any point: its state is
lost and its children become strangers.

`ContainerProcessRunner` splits `stopGuest` at its last assignment and the
coroutine at dispatch, `pb.start()`, `activeProcess = proc` and the end of its
read loop, because the two run on different threads with no lock.

*Abstractions.* The socket and the frame channel are open or not. The log pump
thread, the notification and its heartbeat, and the state flow that the second
launcher feeds are left out. `startForeground` may not fail. Processes of the
guest that leave the process group (a daemon that calls `setsid` itself) are not
modelled: the code has no means to find them.

### IpcServer

The main thread's `Stop` is `StopBegin`, `CloseListener`, `JoinAccept`,
`CloseClient` for each entry of the list, `ClientsClosed`, `StopEnd`; its `Broadcast`
is `BroadcastBegin`, `SendNext` or `SendWaits` and `SendResumes` for each entry of
the copied list, `BroadcastEnd`. `AcceptBegin` to `Push` are the accept thread,
`CallRecv` to `RemoveOwn` a client thread in the order of `ClientLoop` and
`DropClient`. `Connect` and `GuestCloses` are the guest's `ClientThread`; its sleep
between two attempts takes no step.

`fdt` says what each descriptor number refers to: nothing, the listener, a
connection, or a file of another part of the application (`StrangerOpens`). A
number is looked up when a call is made, so a `close`, `recv` or `send` acts on
whatever has the number by then; a `recv`, `accept4` or waiting `send` in progress
keeps its socket although the number is closed. `accept4` may return any free
number, which covers the kernel's lowest-first rule with numbers that come and go
elsewhere. `impl_` and `impl->running` change together (`Stop` sets both before
anything that another thread waits for), and `HostDies` leaves the node and the
guests.

What goes over a connection is left out: a `recv` gives part of a frame, an
acceptable frame, a bad frame or the end of file, and a send reaches its guest,
fails, or waits for a full buffer. `WriteAll` (`ipc.cpp:32`) sends on whatever has the number
by then: where a stranger's file is a socket, `SendWaits` waits on that, and whoever is to
read there owes nothing. `clients_mu` is held over `JoinAccept` to
`ClientsClosed`; its other sections are one step each.

A broadcast may reach one guest twice, and count it twice: when a descriptor is
closed by `DropClient`, accepted again and not yet removed, the list names it
twice. It may also send into a file that took the number, and `Stop` may close
such a file. The model has these steps; no property claims otherwise.

### LifecycleLauncher

`Callers` are Java threads that call `nativeStartContainer` and
`nativeStopContainer` of `ContainerNativeBridge`. Both are exported and nothing in the
repository's Kotlin calls either yet, so the module lets any number of threads call
them in any order. `pc` is where a caller is, `monitor` where the monitor thread of each
guest is. `startContainer` is `CallStart`, `StartLocked` (the refusal, the failures
before and at the fork, or `Fork`), `JoinLog`, `JoinMonitor`, `PumpExchange`,
`PumpAssign`, and then, outside `mMutex`, `LoadRunning` and `CallRunning`, which are
the bridge's dispatch of RUNNING. `stopContainer` is `CallStop`, `JoinPump`,
`StopLocked`. `monitorLoop` is `Reap`, `Retire` (its critical section), `LoadEnded`,
`CallEnded`. What a thread does with the mutex held is split only where it waits
or touches something that others touch without the mutex.

Guests are numbered in the order of their forks and a number is not used twice, so
the reuse of a process number, which `Launcher` models for the first launcher, is
not modelled here. A guest may end when it likes, may handle the signal of
`stopContainer`, and may leave a process that holds its log pipe. The listener
comes and goes (`AddListener`, `RemoveListener`, as `ContainerService` does in
`onCreate` and `onDestroy`).

`guest_launcher.cpp:274-275` releases the mutex before the callback so that listeners may
call back into the launcher, to restart it after a crash, "without self-deadlock". While a
monitor is in the listener (`CallEnded` to `ListenerReturns`) a call may therefore be made on
its thread: `MayCall` says where, `from` which monitor's thread a call is on. (A listener that
calls back out of RUNNING is on the Java thread that has just left `startContainer`, and is a
caller like any other.) The model then reaches two things the comment does not expect. A
start from the callback joins the monitor of the guest that has ended, which is the thread
it runs on (line 248): `join` throws, nothing catches it, and the process ends (`JoinSelf`). And
when another thread's start has got the mutex first and joins that monitor, the listener's
call waits for the mutex and neither goes on (`ListenerHeld`). The one listener in the
repository (`ContainerService.kt:74-79`) logs, sets a value and returns.

Three things end the process (`aborted`): assigning to a thread object that is still joinable,
calling a listener whose reference has been deleted, and a thread's join of itself.

### DisplayRenderer

The main thread's callbacks are `OnSurfaceCreated` and `OnSurfaceChanged`, each
followed by `BindWindow`, `StartRender` and, for a change, `UpdateWindowSize`;
`OnSurfaceDestroyed`; and `CreateChannel`, `CloseChannel` with `UnmapChannel`. A
callback of the other presenter interface (`nativeAttachSurface`,
`nativePresenterDetach`) is one of these without its size. A turn of `renderLoop` is
`NewSurface`, `NoSurface` or `SurfaceUp` (phases 1 and 2, one critical section),
`ReadSize`, `Upload`, then `Swapped`, or `SwapFails` and `Recover`. A turn of
`pumpLoop` is `PumpCheck` (the first time), `PumpLoad`, and `PumpPut`, `PumpMiss` or
`PumpStale`.

EGL is `egl`, the window whose surface has the handle `mEglSurface`, and `current`, the
window whose surface is current on the render thread. `destroyWindow` ends EGL from the main
thread: the handle is gone, but EGL puts off the end of a surface that is current on another
thread, so that surface, and with it the window's buffer queue, stays until the render thread
makes another current or none. `eglReady`, a local of that thread, is not told. The
comment at `display_renderer.cpp:78-80` says that EGL is terminated at once "so the
BufferQueue is released before the Surface object is invalidated": the release does not
follow, and the model shows the old window still taken when `NewSurface` tries it again; what
the comment wants it for, that no later swap goes to an abandoned window, does hold and is
`HandleGoesWithWindow`.

A swap after that fails and `Recover` sets things straight. A swap fails for the three errors
the code looks for; a lost context (`EGL_CONTEXT_LOST`), which it does not look for, is left
out. A window that was replaced by another without a `destroyWindow` in between is taken to be
abandoned, so that a swap on it fails; `SurfaceFollowsWindow` rests on this, because
`setNativeWindow` leaves EGL as it is and the loop looks at the window again only after an
error. `updateGuestFrame` has a second caller, the lifecycle launcher's software pump
(`guest_launcher.cpp:67`), which nothing in the repository starts; its test pictures are left
out, and `LastFrameShown` is about the frame channel alone.
The 50 ms wait of a loop with no window takes no step. `mSizeChanged` is written and
never read, and is left out.

`nativeCloseFrameChannel` calls `destroyWindow`, also when the viewport stays: its
window is then drawn on again only after the next surface callback. The model has
this, and the properties ask for a window that the renderer has.

### RootfsImporter

`at` is where each import is. `Begin` reads the magic number; `ExtractEntry`,
`ExtractFails`, `ExtractDone` are the unpacking; `Validate`, `Migrate`; `TargetExists`,
`DeleteOne` for each file in any order, `DeleteDone`, `Rename`; `Finally` on every way
out. `target` says of each file in the place of the system which import it came from, so
that mixtures are visible. A file may refuse to be deleted, the rename needs an empty
target or none and may fail, and `Killed` stops everything at any step. An archive may
end early where the readers cannot tell: a tar at a block boundary, a zip at an entry.

Four kinds of file are told apart: the manifest, the init binary, the linker and
another executable. The staging directories of two imports have different names (they
carry the time in milliseconds; two in one millisecond are not modelled). Archives
wrapped in one directory, which `findUnder` tolerates, are not modelled.

A killed import leaves its staging directory behind for ever, and so may one that returns:
`RootfsImporter.kt:62` does not look at what `deleteRecursively` says. The model has both, and no
property speaks of the staging directory. A *whole* tree is one with the files the validation
asks for: an archive that was cut at the end of an entry passes when those came before the cut.
Which architectures a manifest may name is one of the ways `Validate` may refuse;
`RootfsManifest.kt:13` gives `arm64` as the example, which is none of the names in
`Build.SUPPORTED_ABIS` (`arm64-v8a`), so a manifest that follows it is always refused
(`RootfsImporter.kt:272`).

### GuestFiles

A path is the sequence of its components. `MapPath`, `ResolvePath`, `UnmapPath` are the
functions of those names, `Classify` and the `Emu` operators those of `vfs_emu.cpp`.
Each file call is an action that translates its arguments and then lets the kernel
act: `OpenCreate`, `MakeDir`, `Symlink`, `MakeNode`, `Unlink`, `Rename`, `Link`, `Chdir`.
Its argument (`Args`) is an absolute name, or a relative one with the directory it starts
from: the working directory, or that of an `at` variant. `Follow` is the kernel's own
following of a link, in the host's name space. `OpenDir`, `MakePlaceholder`, `TreeBuilt`
are `opendir` of an emulated directory, which builds the placeholder tree, in several
threads at once, with a restart at any point. An entry may fail to be made
(`MakePlaceholder` with `Created(p, {})`, or because the directory it goes into is not
there): the code logs it or passes it over, and sets `done` all the same. `missed` remembers
it; `Found` is what `opendir` then makes of a path.

Lengths are counted in components: the hook's buffers (8192 bytes) take more than the
kernel (4096), as `SizesAssumption` says. Names with `..` are left out, a link is
followed once and only at the end of a path, and a call that fails changes nothing.
The placeholder tree is made of seven entries where the code has 22: directories and
files, one to three levels deep.

Served and listed are not the same. Everything under `/sys` counts as a directory
(`vfs_emu.cpp:76-90`) and so does `/proc/<own pid>` (`:49-51`), but only what
`ensure_placeholder_tree` creates is ever found by `opendir`. `vfs_emu.h:6-7` calls what is
served a whitelist and says that every other path returns ENOENT; for these paths `stat` and
`access` answer and `opendir` does not. `OnlyServed` names them, and `ListedIsServed` has them,
and the entries that failed, as its exceptions.

`did` is the last call with its arguments. `OneTree` says that the files, seen as
`GuestTree`'s `held` through what each name stands for (`Thing`), follow `GuestTree`, and
that each call does there what it is named for. Its exceptions are in `Expected`: a file
opened through a symbolic link with an absolute target, which the kernel looks for on
the host, and a relative `mknodat`, which forgets its directory. A `chdir` through such a link
may leave the sandbox in the model too; no property says that it does not.

## 3. The runs

| run | what it asks | bounds |
|---|---|---|
| `frame_channel` | with ordered memory: whole frames (`SnapshotWhole`), the newest frame kept (`NewestSurvives`), `LatestFrame` implemented, the last frame eventually shown (`CatchesUp`) | 3 slots, 2 words, 7 frames: the writer goes round the ring twice and into a third turn within one read, and a copy has a middle. One word could not be torn; a third word or a fourth slot adds no new overlap |
| `frame_channel_arm` | the contract's claim that the re-read validates the copy (`NoTornSnapshot`), on weakly ordered memory; **violated** | 3 slots, 2 words, 4 frames |
| `container_service` | `NoLostChild`, `Agreement`, `OnlyOwnSignalled`, `GroupGone`, `NothingLeftOpen`, `ClosedAfterGuest`, `HandlersReturn` | 2 process numbers (a guest and a stranger, or a stranger with the guest's old number), 2 turns of the polling loop (first and last differ), 2 shell jobs, so 2 launches |
| `exec_failure` | `launcher.h`'s claim that `Start` reports a failed exec; **violated** | as above |
| `runner_shells` | the runner's "only one process is ever active"; **violated** | as above |
| `ipc_server` | `StopLeavesNothing`, `ListedWhileServed`, `BroadcastReachesAll`, `CallsReturn`, `GuestsServed`, `GuestsReleased` | 2 connections, each used again and again, 3 numbers: the listener, and two for two guests or a guest and a stranger, so that a number is closed and given out again, the list names one twice, and the numbers run out |
| `ipc_stop_at_start` | `ipc.h`'s claim that `Stop` joins all threads; **violated** | as above |
| `lifecycle_launcher` | `OneGuestWatched`, `StateAgrees`, `SerialCallsSafe`, `EndBeforeNextRunning`, `CallsReturn`, `EndReported` | 2 Java threads, so that a start overlaps a start or a stop, of another thread or of the listener; 2 guests, so that one is followed by another while its monitor, its log thread and the pump are still there |
| `display_renderer` | `HandleGoesWithWindow`, `DrawsOnCurrent`, `SurfaceFollowsWindow`, `LastFrameShown` | 2 windows that replace each other, 2 sizes, 2 frames on each channel (an old one and the last), channels opened and closed without bound |
| `rootfs_importer` | `ImportedInPlace`, `OnlyWholeTreesAppear`, `DeletedOnlyForWholeTrees` | 2 imports over an older tree or none: at once, or one after the other |
| `imported_interp` | `RootfsImporter.kt`'s claim about the interpreter it writes; **violated** | 1 import |
| `guest_files` | `HereLeadsBack`, `ListedIsServed`, `OneTree` | 2 threads, 3 files; 4 places: a sandbox directory with two guest names, one that an alias hides, an excluded one, and a host file that a guest path names too; 5 absolute and 2 relative names, one longer than the kernel takes; 7 placeholders, and 5 paths under `/proc` and `/sys` that have none |

Deadlock is checked, except in three runs: `lifecycle_launcher` and
`display_renderer`, whose process may end (`aborted`, `crashed`), and
`rootfs_importer`, whose imports end. `guest_files` uses the symmetry of threads and of
files, sound because its properties are safety properties that name neither, and a `VIEW`
that leaves out `did`: every step is checked with its own `did'`, and nothing else reads
it. Its `CONSTRAINT` (`Apart`) explores the guest's files only while the placeholder tree has
not been begun, and the placeholder tree only before the first call on files: no
action reads or changes both and no property relates them, so every behaviour of one is met
beside the first state of the other. The proofs do not use it.

The five violations are disagreements between the code and its own
documentation; `PROJECT.json` quotes the lines.

- *frame_channel_arm*: the guest's pixel stores become visible before its odd
  mark (or the host's second load before its copy), so the host accepts half of
  one frame and half of another. A fence after the odd store and one before the
  second load would restore the order the contract assumes.
- *exec_failure*: the parent reads the non-blocking pipe before the child has
  reached `execve`, takes EAGAIN for success and announces the guest as running.
  The same read has the child's zombie stay until the next STOP, which does wait
  for it, so `NoLostChild` holds all the same.
- *runner_shells*: a stop between `pb.start()` and the assignment finds nothing to
  destroy.
- *ipc_stop_at_start*: `Stop` comes before the accept thread's first line. Reading
  `impl_` before the thread is made, and handing it over, would remove it.
- *imported_interp*: the interpreter is written for the staging directory before the
  rename. Building it from `rootfs/<id>` would give the path the comment means.

What the passing run of the service shows is not obvious from the code: a guest
that dies by itself is waited for by nobody, and precisely because of that its
number cannot be reused before `Stop` has signalled it for the last time
(`OnlyOwnSignalled`, and the mutant that keeps `guestPid` breaks it). The price
is in the hazards: `kill(pid, 0)` never says ESRCH, so `Stop` always waits for its
full grace period, and the service goes on believing in the dead guest.

### Fairness

- `FrameChannel`: weak fairness of the host's steps. `pumpLoop` turns every 8 ms
  while the renderer runs and nothing in `ReadLatest` waits. The guest has none: it
  may stop in the middle of a frame.
- `ContainerService`: weak fairness of the main thread inside a handler (`Native`,
  `Handler`) and of a forked child up to `execve` or `_exit` (`Child`): both are
  straight-line code that the scheduler runs. No fairness for intents, for the
  guest or for the runner's coroutines. The return of `nativeIpcStop` is fair only
  when there is no server to stop: with one it joins threads that may wait without
  bound (`IpcServer`), and `HandlersReturn` says that a handler returns or has come to
  that call. It includes `waitpid` without a time limit, which returns because SIGKILL has
  made the child a zombie.

- `IpcServer`: weak fairness of the main thread inside a call, of the accept thread,
  of a client thread where it does not wait for its guest, of a send whose guest
  has closed its end, and of a guest that reads the end of file. Guests need not
  connect, send, read or close; other parts of the application need not close
  what they opened, nor read what is sent to them by mistake. `CallsReturn` therefore has
  three exceptions, and the code has no bound for any of them: a send to a guest that does not
  read, a send on a stranger's socket that took a dropped guest's number, and a client thread
  whose `recv` landed on a file that took its number after `Stop` closed it.

- `LifecycleLauncher`: strong fairness of each caller inside a call and of each
  monitor. The threads run, and a thread that waits for a mutex which comes free
  again and again gets it in the end; C++ mutexes do not promise that, Linux futexes
  give it in practice. Weak fairness of the pump thread. The listener's method ends, when
  the calls it makes do. Guests, what they leave behind and callers owe nothing, and a
  listener need not be there: `CallsReturn` and `EndReported` have the
  wait for an earlier guest's log as an exception (`LogHeld`), since it is as long as some
  process holds the pipe, and a start that waits for a listener that waits for it
  (`ListenerHeld`).
- `DisplayRenderer`: weak fairness of the main thread inside a callback, of the
  render loop and of the pump loop, which wait for no other thread but a mutex that is
  held briefly. Strong fairness of `NewSurface` and of `PumpPut`: an EGL set-up that
  is tried again and again, and a read of a frame that stays, succeed some time.
  Without them `InitFails` and `PumpMiss` could go on for ever.
- `RootfsImporter`, `GuestFiles`: none; their properties are safety properties.

## 4. The proofs

Every safety property of a passing run is a theorem here, for every value of the
constants. These are only assumed to be what their `ASSUME`s say, which TLC
evaluates in the runs:

- 2 to 16 slots, which is `Create`'s check, and a frame that is not empty;
- special values (`NoPid`, `Free`, `None`, `Old`, `"stranger"` and the like) that are no
  member of the set they stand beside;
- finite sets of callers and of imports; bounds (`MaxFrames`, `GracePolls`, `MaxJobs`,
  `MaxGuests`) that are arbitrary naturals, some of them positive;
- for `GuestFiles`, a hook's buffer longer than the kernel's paths, a sandbox that is not
  `/` or the placeholders' own directory and has room below it for the placeholders
  (`Len(Root) + 3 <= PathMax`), `/` as a directory, and links no longer than `symlink(2)`
  takes. `Components`, what a path is made of, is a constant because the provers do not
  know a string literal for an element of `STRING`; the run has `STRING` for it.

Each inductive invariant was first checked by TLC, on the instances of the runs and
for some on larger ones.

**FrameChannelProofs.** `TypeCorrect` holds on either kind of machine; it needs
that a copy has a chosen slot (`SlotChosen`). The other three theorems assume
ordered memory and rest on `IInv`:

- `WriterInv`: frame *n* carries sequence *2n*, and the slot being written shows
  the odd number in between;
- `SlotInv`: every other slot holds, whole, the frame its even sequence names;
- `RingInv`, `NewestInv`: sequences grow along the guest's round, so the next slot
  to be overwritten is the oldest; and the newest frame is in another slot than
  that one, which takes two slots or more;
- `ReaderInv`: as long as the chosen slot still shows the chosen sequence, the
  words copied so far belong to that frame. This is the seqlock argument: a
  sequence never comes back, so an equal second load means nothing was written
  in between;
- `FreshInv`: the scan has found a sequence at least as new as the newest at the
  call's beginning (`floor`), or a slot it has yet to visit still holds that
  frame, or every slot has moved past it; in the last case whatever was chosen
  is older than what its slot holds now, and the second load cannot match.

None of the properties is inductive by itself: a whole snapshot needs the copied
words tied to the sequence, and those need the slots and the writer's counters.
`SnapshotsAreWhole` and `NewestFrameSurvives` follow by weakening.
`FrameChannelImplementsLatestFrame` maps every step to `Complete`, `Call`,
`ReturnNothing`, `ReturnFrame` or a stutter; `ReturnFrame` is where `FreshInv`
and `ReaderInv` are needed.

**ContainerServiceProofs.** `IInv` says, for each point of the main thread (`at`,
`step`), what the host's children are and what the launcher and the service know
of them (`SettledInv`, `LaunchInv`, `PipeInv`, `LaunchedInv`, `StopInv`,
`ReleaseInv`), and that only a guest has group members (`MembersInv`). The
strengthening that matters is in `StopInv`: until `waitpid` the child is a child,
so its number is not reused and the signals are safe; and after the two SIGTERMs
it is past `execve` or dead, because SIGTERM before `execve` has its default
action, so SIGKILL to the group misses nobody. The other actors' steps are proved
to preserve it once (`InvOthers`), from one fact: they make no child and lose
none, and revive no dead one. From it follow `NoChildIsLost`,
`ServiceAndLauncherAgree`, `NoStrangerSignalled`, `StopEndsTheGroup`,
`NothingIsLeftOpen`, and the action property `ClosedOnlyAfterTheGuest`.
`ServiceTypeCorrect` is proved from the types alone.

**IpcServerProofs.** `IInv` has the types, `StopLeavesNothing` and eight parts. A thread
and its number: `OwnerInv` says that a connection has one number at most, its
thread's or one that `DropClient` has left to `Stop`, and that until `Stop` goes over the list
a thread's number is its own up to its close. A thread and its entry: what
`ListedWhileServed` says, that the number is in the list, is not inductive, because
the list may hold a number twice and `RemoveOwn` takes the first. `ListInv` asks for a
one-to-one placing of the threads (and of the connections left to `Stop`) on entries
with their numbers: an entry too many does no harm, and whichever of two equal
entries goes, one stays for the other thread (`EntryRemoved`). `PhaseInv`, `ListenInv`,
`WaitInv` and `AcceptInv` say how far `Stop` has come and what may still arrive: when the
accept thread is joined, whoever has a descriptor has an entry (`OwnersAreListed`), so
closing the list closes everything (`ClosingInv`). `DueInv` has a guest that a broadcast owes
its message among the numbers to come. From it follow `NothingAfterStop`,
`ServedAreListed` and `BroadcastMissesNobody`.

**LifecycleLauncherProofs.** `IInv` is the types and four groups. `LockInv`: who holds
`mMutex`, and which guest each caller has forked. `GuestInv`: where a guest, its
monitor, `mGuestPid` and `mState` are relative to each other at each place of the caller
that has forked it; this is what makes `OneGuestWatched` and `StateAgrees` inductive,
since a fork is allowed by `mGuestPid` and must imply that all earlier guests are
reaped. `OrderedInv`: `mMonitorThread` is the only monitor that may be at work, so a caller
past its join has no earlier monitor beside it; RUNNING is told after the join, ENDED
by the monitor, hence `EndsAreToldInOrder`, although both are told without the mutex.
`PumpedInv`: as long as calls have not overlapped, one caller at most is not idle, and the
pump's flag and thread go together (`OneCallAtATimeIsSafe`).

**DisplayRendererProofs.** `DrawsOnCurrent` follows from `EglInv`: when there is an EGL
surface, `eglReady` is set and that surface is the current one, wherever the render
thread is. Only that thread makes a surface and makes it current in the same step;
what the main thread does under it can only take the surface away.
`HandleGoesWithWindow` needs `BindInv`, a surface that stays while its callback runs. It is
about the handle and the references; for the surface that stays current, `EglInv` goes one
way only.

**RootfsImporterProofs.** `ValidatedInv`: past `Validate` a tree has what is required and no
longer changes; with that, a rename is the only step that brings a file into the place of the
system, and it brings a whole tree (`TargetIsAWholeTree`), and a file goes only while an
import past `Validate` deletes (`OldTreeLostOnlyToAWholeOne`). `AloneInv` and
`PlacedInv` are for `SuccessIsInPlace`: while an import is alone nobody else deletes or
renames. Two imports at once do undo each other, which is why the property asks for
`alone`.

**GuestFilesProofs.** `HereFits` (the kernel's directory has a path that the kernel takes) and
`PassedInv` (a placeholder that some thread has passed, or that `done` claims, is there or
was missed) are the invariant; with `BackingIsOneToOne`, no two paths share a backing
location, it gives `FoundIsServed`. The rest is about the operators: `MapUnmap`, `AliasFacts`, `ResolveFacts`
(an alias never cuts a path the kernel would take), and `ReachedIsNamed`: whatever rule
translates a name, the kernel is asked for the place of what the name stands for.
`HeldChange` turns a change at one place of the disk into a change at one thing of
`GuestTree` and at no other, because `PlaceOfThing` makes the mapping one-to-one. With
them each file call is shown to take its step of `GuestTree`, and the other calls none
(`GuestSeesOneTree`, which is the property `OneTree`: the refinement and the history of
calls together). The attempt to prove `HereLeadsBack` found a directory the model
had overlooked: below the sandbox, a path that itself begins with the sandbox's path. Its
name as `readlink` gives it is taken for a host path and is not translated; with
`/proc`, `/sys`, the excluded prefixes and the aliases, `Shadowed` now names it.

TLC's part, out of the prover's reach: the liveness properties (`CatchesUp`,
`HandlersReturn`, `CallsReturn`, `GuestsServed`, `GuestsReleased`, `EndReported`,
`SurfaceFollowsWindow`, `LastFrameShown`), which need fairness and ENABLED, and the
violations, which are counterexamples.

## 5. The plan

Every component the code's core logic lies in has its module, and every safety property a
run checks its theorem. What is left:

1. Simpler proofs where several leaves repeat one argument (`IpcServerProofs`, the frames of
   the accept and client steps; `LifecycleLauncherProofs`, the cases of `GuestStep`).
2. The hazards that `PROJECT.json` lists without a property, as far as the code promises
   anything about them; most are gaps in the code's own design, with the reason in their
   notes.
3. The hand-over of the frame descriptor (memfd, fork, exec, attach).

## 6. Not modelled

- The install screen and `RootFsExtractor`: a second way to a rootfs, beside the
  import and without a protocol in common with it.
- The input path: batches are scaled and sent on through the server `IpcServer`
  models; the spool files that `input_injector.cpp` writes have no reader in the
  repository.
- The hand-over of the frame descriptor to the guest, see `FrameChannel` above.
- The software pump's pictures in the renderer's buffer; the end of the surface that is
  still current on the render thread when its window goes, which is EGL's.
- What emulated files contain, attribute calls, read-only calls (`stat`, `access`,
  `readlink` of files that are not emulated), `execve`, the constant answers of
  `uid_spoof.cpp`, and `mount` and its relatives, which answer success and change
  nothing. `open64`, `openat`, `fopen64`, `lstat`, `fstatat` and `faccessat` do not
  go through the emulation at all and pass an emulated path to the host's kernel; with
  no contents in the model there is nothing in which this could show.
- The Compose user interface (layout, no protocol), notification drawing, the
  constant seccomp program, build files.

The reasons are in `PROJECT.json`, component by component.
