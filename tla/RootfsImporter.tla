--------------------------- MODULE RootfsImporter ---------------------------
(***************************************************************************)
(* RootfsImporter.kt: an archive becomes rootfs/<id>. It is unpacked into a *)
(* staging directory, validated, its binaries are given a new interpreter,  *)
(* the old tree is deleted and the new one renamed into its place. The      *)
(* screen (ContainerManagerScreen.kt) lets several imports run at once, on  *)
(* pool threads; the application can be killed at any step.                 *)
(***************************************************************************)
EXTENDS FiniteSets

CONSTANTS
  Imports,       \* the imports, each of an archive of its own, all with the same manifest id
  None,          \* no import: the file is not there
  Old            \* the import, before these, that the tree in place may come from

ASSUME ImportsAssumption == IsFiniteSet(Imports) /\ {None, Old} \cap Imports = {} /\ None # Old

\* What the code tells apart in a tree.
Items       == {"manifest.json", "init", "linker64", "tool"}
Required    == {"manifest.json", "init", "linker64"}
Executables == {"init", "tool"}  \* with a PT_INTERP

VARIABLES
  at,            \* where each import is
  tree,          \* what it has unpacked
  staged,        \* does its staging directory exist?
  interp,        \* the interpreter its executables name: their own, or one under a directory
  listed,        \* what deleteRecursively has still to visit under the target
  target,        \* rootfs/<id>: the import each file comes from
  alone          \* history: has no other import run since this one began?

vars == <<at, tree, staged, interp, listed, target, alone>>

Active == {"extract", "validate", "migrate", "exists", "delete", "rename", "failing", "finish"}

TypeOK ==
  /\ at \in [Imports -> Active \union {"idle", "imported", "failed", "killed"}]
  /\ tree \in [Imports -> SUBSET Items]
  /\ staged \in [Imports -> BOOLEAN]
  /\ interp \in [Imports -> [Executables -> {"own", "staging", "target"}]]
  /\ listed \in [Imports -> SUBSET Items]
  /\ target \in [Items -> Imports \union {None, Old}]
  /\ alone \in [Imports -> BOOLEAN]

Init ==
  /\ at = [i \in Imports |-> "idle"]
  /\ tree = [i \in Imports |-> {}]
  /\ staged = [i \in Imports |-> FALSE]
  /\ interp = [i \in Imports |-> [f \in Executables |-> "own"]]
  /\ listed = [i \in Imports |-> {}]
  /\ target \in {[f \in Items |-> None], [f \in Items |-> Old]}
  /\ alone = [i \in Imports |-> TRUE]

Goto(i, l) == at' = [at EXCEPT ![i] = l]

----------------------------------------------------------------------------
(* Unpacking.                                                               *)

\* detectFormat has read the magic number.
Begin(i) ==
  /\ at[i] = "idle"
  /\ Goto(i, "extract")
  /\ alone' = [j \in Imports |->
       IF j = i THEN \A k \in Imports : at[k] \notin Active ELSE alone[j] /\ at[j] = "idle"]
  /\ UNCHANGED <<tree, staged, interp, listed, target>>

\* Mutant: an entry's path is not checked.
ExtractEntry_Unsafe(i) ==
  /\ at[i] = "extract"
  /\ \E f \in (Items \union {"../elsewhere"}) \ tree[i] : tree' = [tree EXCEPT ![i] = @ \union {f}]
  /\ staged' = [staged EXCEPT ![i] = TRUE]
  /\ UNCHANGED <<at, interp, listed, target, alone>>

\* A file of the archive. Entries that are skipped (unsafe paths, links, devices, PAX
\* headers) leave no trace.
ExtractEntry(i) ==
  /\ at[i] = "extract"
  /\ \E f \in Items \ tree[i] : tree' = [tree EXCEPT ![i] = @ \union {f}]
  /\ staged' = [staged EXCEPT ![i] = TRUE]
  /\ UNCHANGED <<at, interp, listed, target, alone>>

\* An ImportException or an IOException: a truncated entry, a broken stream, no space.
ExtractFails(i) ==
  /\ at[i] = "extract"
  /\ Goto(i, "failing")
  /\ UNCHANGED <<tree, staged, interp, listed, target, alone>>

\* The end of the archive, the real one or an end at which a tar or zip reader cannot see
\* that something is missing. manifest.json may be anywhere in the tree.
ExtractDone(i) ==
  /\ at[i] = "extract"
  /\ Goto(i, IF "manifest.json" \in tree[i] THEN "validate" ELSE "failing")
  /\ UNCHANGED <<tree, staged, interp, listed, target, alone>>

\* extractTar or extractZip.
Unpack(i) == ExtractEntry(i) \/ ExtractFails(i) \/ ExtractDone(i)

----------------------------------------------------------------------------
(* Validation and the interpreters.                                         *)

\* What the manifest and its architecture come to: refused, or accepted with or without
\* the migration.
Verdicts == {"migrate", "exists", "failing"}

\* Mutant: the layout is not looked at.
Validate_ManifestOnly(i) ==
  /\ at[i] = "validate"
  /\ \E next \in Verdicts : Goto(i, next)
  /\ UNCHANGED <<tree, staged, interp, listed, target, alone>>

\* validateLayout wants the init binary and the linker.
Validate(i) ==
  /\ at[i] = "validate"
  /\ \E next \in Verdicts :
       /\ next # "failing" => Required \subseteq tree[i]
       /\ Goto(i, next)
  /\ UNCHANGED <<tree, staged, interp, listed, target, alone>>

\* Which executables take the new interpreter: not those whose segment is too short.
Patchable(i) == SUBSET (Executables \cap tree[i])

\* migrateInterpreters
Migrate(i) ==
  /\ at[i] = "migrate"
  /\ \E patched \in Patchable(i) :
       interp' = [interp EXCEPT ![i] =
                    [f \in Executables |-> IF f \in patched THEN "staging" ELSE @[f]]]
  /\ Goto(i, "exists")
  /\ UNCHANGED <<tree, staged, listed, target, alone>>

----------------------------------------------------------------------------
(* Into place.                                                              *)

TargetExists(i) ==
  /\ at[i] = "exists"
  /\ \/ /\ \A f \in Items : target[f] = None
        /\ Goto(i, "rename")
        /\ UNCHANGED listed
     \/ /\ \E f \in Items : target[f] # None
        /\ Goto(i, "delete")
        /\ listed' = [listed EXCEPT ![i] = Items]
  /\ UNCHANGED <<tree, staged, interp, target, alone>>

\* deleteRecursively goes by path, whoever put the file there by now; a file may refuse.
DeleteOne(i) ==
  /\ at[i] = "delete"
  /\ \E f \in listed[i] :
       /\ listed' = [listed EXCEPT ![i] = @ \ {f}]
       /\ target' \in {target, [target EXCEPT ![f] = None]}
  /\ UNCHANGED <<at, tree, staged, interp, alone>>

\* Its result is not looked at.
DeleteDone(i) ==
  /\ at[i] = "delete" /\ listed[i] = {}
  /\ Goto(i, "rename")
  /\ UNCHANGED <<tree, staged, interp, listed, target, alone>>

Empty == \A f \in Items : target[f] = None

\* Mutant: the result of the rename is not looked at.
Rename_Unchecked(i) ==
  /\ at[i] = "rename"
  /\ Goto(i, "finish")
  /\ IF Empty
     THEN /\ target' = [f \in Items |-> IF f \in tree[i] THEN i ELSE None]
          /\ staged' = [staged EXCEPT ![i] = FALSE]
     ELSE UNCHANGED <<target, staged>>
  /\ UNCHANGED <<tree, interp, listed, alone>>

\* rename(2) replaces an empty directory or none, and can fail on its own account.
Rename(i) ==
  /\ at[i] = "rename"
  /\ \/ /\ Empty
        /\ target' = [f \in Items |-> IF f \in tree[i] THEN i ELSE None]
        /\ staged' = [staged EXCEPT ![i] = FALSE]
        /\ Goto(i, "finish")
     \/ Goto(i, "failing") /\ UNCHANGED <<target, staged>>
  /\ UNCHANGED <<tree, interp, listed, alone>>

\* deleteRecursively on the staging directory; its result is not looked at, and what refuses
\* stays.
Finally(i) ==
  /\ at[i] \in {"finish", "failing"}
  /\ staged' \in {staged, [staged EXCEPT ![i] = FALSE]}
  /\ Goto(i, IF at[i] = "finish" THEN "imported" ELSE "failed")
  /\ UNCHANGED <<tree, interp, listed, target, alone>>

\* The application is killed: every import stops where it is, and nothing is cleaned up then
\* or later.
Killed ==
  /\ \E i \in Imports : at[i] \in Active
  /\ at' = [i \in Imports |-> IF at[i] \in Active THEN "killed" ELSE at[i]]
  /\ UNCHANGED <<tree, staged, interp, listed, target, alone>>

----------------------------------------------------------------------------
Step(i) ==
  \/ Begin(i) \/ Unpack(i) \/ Validate(i) \/ Migrate(i)
  \/ TargetExists(i) \/ DeleteOne(i) \/ DeleteDone(i) \/ Rename(i) \/ Finally(i)

Next == (\E i \in Imports : Step(i)) \/ Killed

Spec == Init /\ [][Next]_vars

----------------------------------------------------------------------------
(* Properties                                                               *)

\* Whatever runs at once or is killed, files come to the target only as the whole of one
\* validated tree, in one step, and never beside files of another: what is found there is a
\* tree that was complete once, from one import. Complete is what the validation sees: an
\* archive that is cut at the end of an entry passes with every required file.
OnlyWholeTreesAppear ==
  [][\A f \in Items :
       target'[f] \notin {target[f], None} =>
         LET i == target'[f]
         IN  /\ Required \subseteq tree[i]
             /\ target' = [g \in Items |-> IF g \in tree[i] THEN i ELSE None]]_vars

\* A file leaves the target only while an import whose own tree has passed the validation is
\* replacing it, whoever else runs: an archive that is broken, refused or incomplete never
\* costs the system that is there. (A kill or a failing rename after the deletion does.)
DeletedOnlyForWholeTrees ==
  [][\A f \in Items :
       target[f] # None /\ target'[f] = None =>
         \E i \in Imports : at[i] = "delete" /\ Required \subseteq tree[i]]_vars

\* An import that reports success and had no other beside or after it has its tree in place,
\* whole, also when the old one could not be deleted entirely. (Two imports at once can
\* delete from each other's tree and both report success.)
ImportedInPlace ==
  \A i \in Imports :
    at[i] = "imported" /\ alone[i] =>
      target = [f \in Items |-> IF f \in tree[i] THEN i ELSE None]

\* An executable that was given a new interpreter names one that exists, as "Rewrites
\* PT_INTERP ... to the sandbox-absolute linker path" has it.
InterpResolves ==
  \A f \in Executables : \A i \in Imports :
    target[f] = i /\ at[i] = "imported" /\ alone[i] =>
      CASE interp[i][f] = "staging" -> staged[i]
        [] interp[i][f] = "target"  -> target["linker64"] = i
        [] OTHER                    -> TRUE
=============================================================================
