------------------------------ MODULE GuestFiles ------------------------------
(***************************************************************************)
(* libfake in a guest process: the path of every file call is translated    *)
(* into the sandbox (path_redirect.cpp, path_resolver.cpp) before the       *)
(* kernel sees it (syscall_hooks_*.cpp, mount_emu.cpp), and part of /proc   *)
(* and /sys is answered in the process (vfs_emu.cpp).                       *)
(*                                                                         *)
(* A path is the sequence of its components, so a prefix always ends at a   *)
(* component; lengths are counted in components. Names hold no ".."; a link *)
(* is followed once.                                                        *)
(***************************************************************************)
EXTENDS Naturals, FiniteSets, SequencesExt

CONSTANTS
  Threads,       \* threads of the guest process
  Components,    \* what a component of a path can be
  Root,          \* the sandbox, a host path
  Excluded,      \* AC_EXCLUDE: prefixes left to the host
  FileNames,     \* the paths the guest names files by, [abs |-> BOOLEAN, path |-> ...]
  DirNames,      \* and those it names directories by
  Dirs,          \* directories of the host, those of the sandbox among them
  Places,        \* host paths where a file can be
  LinkTargets,   \* absolute paths the guest stores in symbolic links
  VirtualNames,  \* paths under /proc and /sys the guest asks for
  Files,         \* identities of files (inodes)
  None,          \* no file
  OutSize,       \* the hooks' path buffers
  PathMax        \* the longest path the kernel takes

ASSUME SizesAssumption ==
  /\ {OutSize, PathMax} \subseteq Nat
  /\ PathMax < OutSize           \* 8192 bytes against 4096
  /\ Root # <<>>                 \* set_state: an absolute path
  /\ \A p \in Excluded : ~IsPrefix(p, <<".virtual">>) /\ ~IsPrefix(<<".virtual">>, p)

Paths == Seq(Components)

\* Root is a directory of the application's, with room below it for the placeholders, and
\* "/" is a directory. symlink(2) takes no longer target than the kernel takes a path.
ASSUME PathsAssumption ==
  /\ {"system", "vendor", "apex", "data", "storage", "etc", "bin", "xbin",
      ".virtual", "proc", "self", "net", "sys", "class", "version", "status"} \subseteq Components
  /\ Root \in Paths /\ Head(Root) # ".virtual" /\ Len(Root) + 3 <= PathMax
  /\ Excluded \union Dirs \union Places \union LinkTargets \union VirtualNames \subseteq Paths
  /\ FileNames \union DirNames \subseteq [abs : BOOLEAN, path : Paths]
  /\ <<>> \in Dirs
  /\ \A l \in LinkTargets : Len(l) <= PathMax
  /\ None \notin Files

VARIABLES
  disk,          \* the file each place holds
  kind,          \* what each file is
  to,            \* what each symbolic link holds
  cwd,           \* the kernel's working directory of the process
  job,           \* 0, or the placeholder each thread creates next
  placed,        \* the placeholders that exist
  done,          \* has this process gone through them all?
  missed,        \* history: those it has failed to create and are not there
  did            \* history: the last call on files and its arguments

files == <<disk, kind, to>>
tree  == <<job, placed, done, missed>>
vars  == <<disk, kind, to, cwd, job, placed, done, missed, did>>

\* All but the last call, which only OneTree reads, at the step that makes it.
View == <<disk, kind, to, cwd, job, placed, done, missed>>

Under(path, prefix) == IsPrefix(prefix, path)

InSandbox(path) == Under(path, Root)
IsVirtual(path) == Under(path, <<"proc">>) \/ Under(path, <<"sys">>)
IsExcluded(path) == \E p \in Excluded : Under(path, p)

----------------------------------------------------------------------------
(* Translation.                                                             *)

\* The alias table, by first component.
Alias == [system |-> <<"system">>, vendor |-> <<"vendor">>, apex |-> <<"apex">>,
          data |-> <<"data">>, storage |-> <<"storage">>,
          etc |-> <<"system", "etc">>, bin |-> <<"system", "bin">>, xbin |-> <<"system", "xbin">>]

HasAlias(path) == path # <<>> /\ Head(path) \in DOMAIN Alias

ResolvePath(path) ==
  LET redirected == Root \o Alias[Head(path)] \o Tail(path)
  IN  SubSeq(redirected, 1, IF Len(redirected) < OutSize THEN Len(redirected) ELSE OutSize)

Passthrough(path) == InSandbox(path) \/ IsVirtual(path) \/ IsExcluded(path)

\* Mutant: the guard for paths of the sandbox is missing.
MapPath_NoGuard(path) ==
  CASE IsVirtual(path) \/ IsExcluded(path) -> {path}
    [] ~(IsVirtual(path) \/ IsExcluded(path)) /\ HasAlias(path) -> {ResolvePath(path)}
    [] OTHER -> {h \in {Root \o path} : Len(h) <= OutSize}

\* The host paths map_path gives for an absolute path: one, or none when it does not fit.
MapPath(path) ==
  CASE Passthrough(path) -> {path}
    [] ~Passthrough(path) /\ HasAlias(path) -> {ResolvePath(path)}
    [] OTHER -> {h \in {Root \o path} : Len(h) <= OutSize}

UnmapPath(path) == SubSeq(path, Len(Root) + 1, Len(path))

\* A path argument with the directory a relative one starts from: the working directory, or
\* the one an at-variant is given.
Args(names) == {[abs |-> n.abs, path |-> n.path, dir |-> d] :
                  n \in {m \in names : m.abs}, d \in {<<>>}}
               \union {[abs |-> n.abs, path |-> n.path, dir |-> d] :
                  n \in {m \in names : ~m.abs}, d \in Dirs}

\* What the kernel is asked for, as far as it takes the length.
Reached(a) == {h \in IF a.abs THEN MapPath(a.path) ELSE {a.dir \o a.path} : Len(h) <= PathMax}

\* The kernel follows the link at the end of a path in its own, the host's, name space.
Follow(h) == IF h \in Places /\ disk[h] # None /\ kind[disk[h]] = "link" THEN to[disk[h]] ELSE h

At(a) == Reached(a) \intersect Places

----------------------------------------------------------------------------
(* Emulated files. One file stands for those that are treated alike.        *)

Self == <<"proc", "self">>
Own  == <<"proc", "pid">>        \* /proc/<own pid>

Classify(path) ==
  CASE ~IsVirtual(path) -> "NotVirtual"
    [] path \in {<<"proc">>, Self, <<"proc", "net">>, Own} \/ Under(path, <<"sys">>) -> "Dir"
    [] path \in {<<"proc", "version">>, Self \o <<"status">>, Own \o <<"status">>} -> "File"
    [] OTHER -> "Unknown"

EmuOpens(path) == Classify(path) = "File"
EmuStats(path) == Classify(path) \in {"Dir", "File"}
EmuReads(path) == Classify(path) \in {"Dir", "File"}  \* access, without W_OK

\* What readlink answers for /proc/self/cwd.
EmuReadlinkCwd == IF InSandbox(cwd) THEN UnmapPath(cwd) ELSE cwd

\* The placeholders, in the order they are created: the directories, then the files. More is
\* served than has a placeholder: every path under /sys, and the process's own number in /proc.
Placeholders == << <<"proc">>, Self, <<"proc", "net">>, <<"sys">>, <<"sys", "class">>,
                   <<"proc", "version">>, Self \o <<"status">> >>

Backing(path) == Root \o <<".virtual">> \o path

\* opendir finds it: an entry of the directory it is in, and a directory that can be opened.
Found(path) == Backing(path) \in placed

----------------------------------------------------------------------------
Init ==
  /\ disk = [h \in Places |-> None]
  /\ kind = [i \in Files |-> "file"]
  /\ to = [i \in Files |-> <<>>]
  /\ cwd = <<>>                  \* the host's "/": nothing changes it before execve
  /\ job = [t \in Threads |-> 0]
  /\ placed = {} /\ missed = {}
  /\ done = FALSE
  /\ did = <<"none">>

Unused == {i \in Files : \A h \in Places : disk[h] # i}

\* A new file at h: the kernel's part of every call that creates one.
Create(h, k, target) ==
  /\ disk[h] = None
  /\ \E i \in Unused :
       /\ disk' = [disk EXCEPT ![h] = i]
       /\ kind' = [kind EXCEPT ![i] = k]
       /\ to' = [to EXCEPT ![i] = target]
  /\ UNCHANGED <<cwd, tree>>

Did(op, args) == did' = <<op>> \o args

\* open, openat, creat or fopen of a new file. open and fopen answer emulated paths themselves.
OpenCreate(a) ==
  \E h \in {Follow(g) : g \in Reached(a)} \intersect Places :
    Create(h, "file", <<>>) /\ Did("open", <<a>>)

\* mkdir, mkdirat, mkfifo: a link at the end of the path is there already.
MakeDir(a) == \E h \in At(a) : Create(h, "dir", <<>>) /\ Did("mkdir", <<a>>)

\* The target is stored as the guest gives it.
Symlink(target, a) == \E h \in At(a) : Create(h, "link", target) /\ Did("symlink", <<a>>)

\* mknod, mknodat: an empty regular file in place of the device. Where something is already,
\* the stat that follows changes nothing. mknodat takes a relative path from the working
\* directory, whatever its directory argument.
MakeNode(a) ==
  \E h \in At([a EXCEPT !.dir = cwd]) : Create(h, "file", <<>>) /\ Did("mknod", <<a>>)

\* What is known of a file goes with its last name.
Forget(i, remaining) == i # None /\ \A h \in Places : remaining[h] # i

Keep(d) ==
  /\ disk' = d
  /\ kind' = [i \in Files |-> IF Forget(i, d) THEN "file" ELSE kind[i]]
  /\ to' = [i \in Files |-> IF Forget(i, d) THEN <<>> ELSE to[i]]
  /\ UNCHANGED <<cwd, tree>>

\* unlink, unlinkat, rmdir
Unlink(a) ==
  \E h \in At(a) : /\ disk[h] # None
                   /\ Keep([disk EXCEPT ![h] = None])
                   /\ Did("unlink", <<a>>)

IsDir(h) == kind[disk[h]] = "dir"

\* Mutant: the new path goes to the kernel as it is.
Rename_NewVerbatim(a, b) ==
  \E h \in At(a), g \in {IF b.abs THEN b.path ELSE b.dir \o b.path} \intersect Places :
    /\ disk[h] \notin {None, disk[g]}
    /\ disk[g] # None => (IsDir(h) <=> IsDir(g))
    /\ Keep([disk EXCEPT ![h] = None, ![g] = disk[h]])
    /\ Did("rename", <<a, b>>)

\* rename, renameat: both paths are translated before anything is done.
Rename(a, b) ==
  \E h \in At(a), g \in At(b) :
    /\ disk[h] \notin {None, disk[g]}
    /\ disk[g] # None => (IsDir(h) <=> IsDir(g))
    /\ Keep([disk EXCEPT ![h] = None, ![g] = disk[h]])
    /\ Did("rename", <<a, b>>)

Link(a, b) ==
  \E h \in At(a), g \in At(b) :
    /\ disk[h] # None /\ ~IsDir(h) /\ disk[g] = None
    /\ Keep([disk EXCEPT ![g] = disk[h]])
    /\ Did("link", <<a, b>>)

Chdir(a) ==
  /\ cwd' \in {Follow(h) : h \in Reached(a)} \intersect Dirs
  /\ a.abs \/ a.dir = cwd
  /\ UNCHANGED <<files, tree, did>>

----------------------------------------------------------------------------
(* opendir of an emulated directory.                                        *)

\* Mutant: the tree counts as made when it is begun.
OpenDir_MarkFirst(t) ==
  /\ job[t] = 0 /\ ~done
  /\ job' = [job EXCEPT ![t] = 1]
  /\ done' = TRUE
  /\ UNCHANGED <<files, cwd, placed, missed, did>>

OpenDir(t) ==
  /\ job[t] = 0 /\ ~done
  /\ job' = [job EXCEPT ![t] = 1]
  /\ UNCHANGED <<files, cwd, placed, done, missed, did>>

\* Creating p has given the host paths in made.
Created(p, made) ==
  /\ placed' = placed \union made
  /\ missed' = {q \in missed \union {p} : Backing(q) \notin placed'}

\* Its directory is there.
HasPlace(p) == Len(p) > 1 => Backing(Front(p)) \in placed

\* Mutant: the directories are made with the real mkdir.
MakePlaceholder_RealMkdir(t) ==
  /\ job[t] \in 1..Len(Placeholders)
  /\ LET p == Placeholders[job[t]]
     IN  \/ HasPlace(p)
            /\ Created(p, {IF Classify(p) = "Dir" THEN <<".virtual">> \o p ELSE Backing(p)})
         \/ Created(p, {})
  /\ job' = [job EXCEPT ![t] = @ + 1]
  /\ UNCHANGED <<files, cwd, done, did>>

\* The directories through the mkdir hook, the files with the real open. What fails is passed
\* over, whatever the reason.
MakePlaceholder(t) ==
  /\ job[t] \in 1..Len(Placeholders)
  /\ LET p == Placeholders[job[t]]
     IN  \/ HasPlace(p) /\ Created(p, IF Classify(p) = "Dir" THEN MapPath(<<".virtual">> \o p)
                                                            ELSE {Backing(p)})
         \/ Created(p, {})
  /\ job' = [job EXCEPT ![t] = @ + 1]
  /\ UNCHANGED <<files, cwd, done, did>>

\* All have been tried: they are never tried again by this process.
TreeBuilt(t) ==
  /\ job[t] = Len(Placeholders) + 1
  /\ done' = TRUE
  /\ job' = [job EXCEPT ![t] = 0]
  /\ UNCHANGED <<files, cwd, placed, missed, did>>

\* The guest is killed and another one is started on the same tree.
Restart ==
  /\ cwd' = <<>>
  /\ job' = [t \in Threads |-> 0]
  /\ done' = FALSE /\ missed' = {}
  /\ UNCHANGED <<files, placed, did>>

----------------------------------------------------------------------------
FileCall ==
  \E a \in Args(FileNames) :
    \/ OpenCreate(a)
    \/ MakeDir(a)
    \/ \E target \in LinkTargets : Symlink(target, a)
    \/ MakeNode(a)
    \/ Unlink(a)
    \/ \E b \in Args(FileNames) : Rename(a, b) \/ Link(a, b)

Next ==
  \/ FileCall
  \/ \E a \in Args(DirNames) : Chdir(a)
  \/ \E t \in Threads : OpenDir(t) \/ MakePlaceholder(t) \/ TreeBuilt(t)
  \/ Restart

Spec == Init /\ [][Next]_vars

----------------------------------------------------------------------------
(* Properties.                                                              *)

\* Every variable has its type; no more placeholders are made than there are.
TypeOK ==
  /\ disk \in [Places -> Files \union {None}]
  /\ kind \in [Files -> {"file", "dir", "link"}]
  /\ to \in [Files -> LinkTargets \union {<<>>}]
  /\ cwd \in Dirs
  /\ job \in [Threads -> 0..Len(Placeholders) + 1]
  /\ placed \subseteq {Backing(p) : p \in ToSet(Placeholders)}
  /\ done \in BOOLEAN /\ missed \subseteq ToSet(Placeholders)

\* What a name stands for: a file of the guest's tree, or a host path left to it.
ThingAt(h) == [guest |-> InSandbox(h), path |-> IF InSandbox(h) THEN UnmapPath(h) ELSE h]

Thing(a) ==
  IF a.abs /\ ~Passthrough(a.path)
  THEN [guest |-> TRUE, path |-> IF HasAlias(a.path) THEN Alias[Head(a.path)] \o Tail(a.path)
                                                     ELSE a.path]
  ELSE ThingAt(IF a.abs THEN a.path ELSE a.dir \o a.path)

HostPath(x) == IF x.guest THEN Root \o x.path ELSE x.path

Things == {ThingAt(h) : h \in Places}

Tree == INSTANCE GuestTree WITH held <- [x \in Things |-> disk[HostPath(x)]]

ThroughLink(a) == \E h \in At(a) : Follow(h) # h

\* What the call just made should have done to the tree.
Expected(op, a) ==
  CASE op = "open"    -> ThroughLink(a[1]) \/ Tree!Make(Thing(a[1]))
    [] op = "mknod"   -> (~a[1].abs /\ a[1].dir # cwd) \/ Tree!Make(Thing(a[1]))
    [] op \in {"mkdir", "symlink"} -> Tree!Make(Thing(a[1]))
    [] op = "unlink"  -> Tree!Remove(Thing(a[1]))
    [] op = "rename"  -> Tree!Rename(Thing(a[1]), Thing(a[2]))
    [] op = "link"    -> Tree!Link(Thing(a[1]), Thing(a[2]))
    [] OTHER          -> FALSE

\* The guest sees one tree: under every name of a file (through an alias, through the path
\* of the sandbox itself, relative to a directory) a call changes that file's place, nothing
\* else of the guest's tree and nothing on the host that the call does not name. Excepted are
\* a file opened through a symbolic link, which the kernel looks for on the host, and a
\* relative mknodat, which forgets its directory.
OneTree == Tree!Spec /\ [][Expected(Head(did'), Tail(did'))]_disk

\* Directories of the sandbox whose guest path means something else: /etc is system/etc,
\* /proc is not looked for in the sandbox, and a path that begins with the sandbox's own is
\* taken for a host path.
Shadowed(dir) ==
  LET path == UnmapPath(dir)
  IN  Passthrough(path) \/ (HasAlias(path) /\ Alias[Head(path)] # <<Head(path)>>)

\* Inside the sandbox both names a process can get for its directory, the host path getcwd
\* gives and the guest path readlink makes of it, lead back to that directory
\* (path_redirect.h: "paths produced by realpath()/readlink() that already carry the
\* sandbox prefix resolve correctly").
HereLeadsBack ==
  InSandbox(cwd) =>
    /\ MapPath(cwd) = {cwd}
    /\ ~Shadowed(cwd) => MapPath(EmuReadlinkCwd) = {cwd}

\* Served by stat and access although no directory lists it.
OnlyServed(path) ==
  /\ path \notin ToSet(Placeholders)
  /\ Under(path, <<"sys">>) \/ path \in {Own, Own \o <<"status">>}

\* What opendir finds is served by stat, access and open alike. The other way round, once a
\* thread is through the tree, or another is, however the threads interleave and whenever an
\* earlier guest was killed, opendir finds everything that is served, but for what this process
\* has failed to create and for the paths that have no placeholder (OnlyServed): for those
\* "a whitelist of virtual entries is served ... every other path returns ENOENT"
\* (vfs_emu.h:6) does not hold.
ListedIsServed ==
  \A p \in VirtualNames :
    /\ Found(p) => EmuStats(p) /\ EmuReads(p) /\ (EmuOpens(p) <=> Classify(p) # "Dir")
    /\ EmuStats(p) /\ (done \/ \E t \in Threads : job[t] = Len(Placeholders) + 1) =>
         Found(p) \/ p \in missed \/ OnlyServed(p)
=============================================================================
