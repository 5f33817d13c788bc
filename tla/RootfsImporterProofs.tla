------------------------ MODULE RootfsImporterProofs ------------------------
(***************************************************************************)
(* Proofs about RootfsImporter, for any finite set of imports that run at  *)
(* once or one after the other, over an older tree or none, with the       *)
(* application killed at any step.                                         *)
(***************************************************************************)
EXTENDS RootfsImporter, TLAPS

\* The tree of import i, as rename(2) leaves it under rootfs/<id>.
Whole(i) == [f \in Items |-> IF f \in tree[i] THEN i ELSE None]

(***************************************************************************)
(* The inductive invariant.                                                *)
(***************************************************************************)

\* Past validateLayout a tree has what is required, and nothing is unpacked any more.
ValidatedInv ==
  \A i \in Imports :
    at[i] \in {"migrate", "exists", "delete", "rename", "finish", "imported"} =>
      Required \subseteq tree[i]

\* An import that has begun and is still alone has nobody beside it who could touch the
\* target: whoever begins later ends its being alone.
AloneInv ==
  \A i, k \in Imports :
    alone[i] /\ at[i] # "idle" /\ k # i => at[k] \notin Active

\* Such an import has its tree in place from the rename on.
PlacedInv ==
  \A i \in Imports : at[i] \in {"finish", "imported"} /\ alone[i] => target = Whole(i)

IInv == TypeOK /\ ValidatedInv /\ AloneInv /\ PlacedInv

(***************************************************************************)
(* What one step can do. Each lemma is cited for several invariants.       *)
(***************************************************************************)

\* A tree grows while its archive is being unpacked, and only then; the import stays there.
LEMMA TreeStep ==
  ASSUME TypeOK, NEW i \in Imports, NEW j \in Imports, Step(j)
  PROVE  tree'[i] = tree[i] \/ (i = j /\ at[i] = "extract" /\ at'[i] = "extract")
<1>1. CASE ExtractEntry(j)
  <2>1. PICK f \in Items : tree' = [tree EXCEPT ![j] = @ \union {f}]
    BY <1>1 DEF ExtractEntry
  <2>2. CASE i = j
    BY <1>1, <2>2 DEF ExtractEntry
  <2>3. CASE i # j
    BY <2>1, <2>3 DEF TypeOK
  <2>4. QED
    BY <2>2, <2>3
<1>2. CASE ~ExtractEntry(j)
  BY <1>2 DEF Step, Begin, Unpack, ExtractFails, ExtractDone, Validate, Migrate, TargetExists,
     DeleteOne, DeleteDone, Rename, Finally
<1>3. QED
  BY <1>1, <1>2

\* An import moves by its own steps, and nobody becomes active but by beginning.
LEMMA OthersStay ==
  ASSUME TypeOK, NEW i \in Imports, NEW j \in Imports, Step(j), i # j
  PROVE  /\ at'[i] = at[i]
         /\ alone'[i] = alone[i] \/ (Begin(j) /\ alone'[i] = (alone[i] /\ at[i] = "idle"))
BY DEF Step, Begin, Unpack, ExtractEntry, ExtractFails, ExtractDone, Validate, Migrate,
   TargetExists, DeleteOne, DeleteDone, Rename, Finally, Goto, TypeOK

\* The target is touched by an import that deletes or renames.
LEMMA TargetStep ==
  ASSUME TypeOK, NEW j \in Imports, Step(j)
  PROVE  \/ target' = target
         \/ at[j] = "delete" /\ \E f \in Items : target' = [target EXCEPT ![f] = None]
         \/ at[j] = "rename" /\ at'[j] = "finish" /\ target' = Whole(j)
<1>1. CASE DeleteOne(j)
  <2>1. PICK f \in listed[j] : target' \in {target, [target EXCEPT ![f] = None]}
    BY <1>1 DEF DeleteOne
  <2>2. f \in Items
    BY DEF TypeOK
  <2>3. QED
    BY <1>1, <2>1, <2>2 DEF DeleteOne
<1>2. CASE Rename(j)
  BY <1>2 DEF Rename, Goto, Whole, TypeOK
<1>3. CASE ~DeleteOne(j) /\ ~Rename(j)
  BY <1>3 DEF Step, Begin, Unpack, ExtractEntry, ExtractFails, ExtractDone, Validate, Migrate,
     TargetExists, DeleteDone, Finally
<1>4. QED
  BY <1>1, <1>2, <1>3

\* An import that moves without beginning was active already.
LEMMA ActiveBefore ==
  ASSUME TypeOK, NEW j \in Imports, Step(j), ~Begin(j)
  PROVE  at[j] \in Active /\ UNCHANGED alone
BY DEF Step, Unpack, ExtractEntry, ExtractFails, ExtractDone, Validate, Migrate, TargetExists,
   DeleteOne, DeleteDone, Rename, Finally, Active

\* A kill changes nothing but where the imports are.
LEMMA KilledStep ==
  ASSUME TypeOK, Killed, NEW i \in Imports
  PROVE  /\ UNCHANGED <<tree, staged, interp, listed, target, alone>>
         /\ at'[i] = IF at[i] \in Active THEN "killed" ELSE at[i]
BY DEF Killed

(***************************************************************************)
(* Types.                                                                  *)
(***************************************************************************)

\* The first state is well typed.
LEMMA ImportTypeInit == Init => TypeOK
BY ImportsAssumption DEF Init, TypeOK, Active

\* Every step keeps the types: one case per action.
LEMMA ImportTypeStep == TypeOK /\ [Next]_vars => TypeOK'
<1> SUFFICES ASSUME TypeOK, [Next]_vars PROVE TypeOK'
  OBVIOUS
<1> USE DEF TypeOK
<1>1. ASSUME NEW i \in Imports, Step(i) PROVE TypeOK'
  <2>1. CASE Begin(i)
    <3>1. alone' \in [Imports -> BOOLEAN]
      BY <2>1 DEF Begin
    <3>2. at' \in [Imports -> Active \union {"idle", "imported", "failed", "killed"}]
      BY <2>1 DEF Begin, Goto, Active
    <3>3. QED
      BY <2>1, <3>1, <3>2 DEF Begin
  <2>2. CASE ExtractEntry(i)
    BY <2>2 DEF ExtractEntry
  <2>3. CASE ExtractFails(i)
    BY <2>3 DEF ExtractFails, Goto, Active
  <2>4. CASE ExtractDone(i)
    BY <2>4 DEF ExtractDone, Goto, Active
  <2>5. CASE Validate(i)
    BY <2>5 DEF Validate, Verdicts, Goto, Active
  <2>6. CASE Migrate(i)
    <3>1. PICK patched \in Patchable(i) :
            interp' = [interp EXCEPT ![i] =
                         [f \in Executables |-> IF f \in patched THEN "staging" ELSE @[f]]]
      BY <2>6 DEF Migrate
    <3>2. interp[i] \in [Executables -> {"own", "staging", "target"}]
      OBVIOUS
    <3>3. [f \in Executables |-> IF f \in patched THEN "staging" ELSE interp[i][f]]
            \in [Executables -> {"own", "staging", "target"}]
      BY <3>2
    <3>4. interp' \in [Imports -> [Executables -> {"own", "staging", "target"}]]
      BY <3>1, <3>3
    <3>5. at' \in [Imports -> Active \union {"idle", "imported", "failed", "killed"}]
      BY <2>6 DEF Migrate, Goto, Active
    <3>6. QED
      BY <2>6, <3>4, <3>5 DEF Migrate
  <2>7. CASE TargetExists(i)
    BY <2>7 DEF TargetExists, Goto, Active
  <2>8. CASE DeleteOne(i)
    BY <2>8 DEF DeleteOne
  <2>9. CASE DeleteDone(i)
    BY <2>9 DEF DeleteDone, Goto, Active
  <2>10. CASE Rename(i)
    <3>1. [f \in Items |-> IF f \in tree[i] THEN i ELSE None]
            \in [Items -> Imports \union {None, Old}]
      OBVIOUS
    <3>2. target' \in [Items -> Imports \union {None, Old}]
      BY <2>10, <3>1 DEF Rename
    <3>3. /\ at' \in [Imports -> Active \union {"idle", "imported", "failed", "killed"}]
          /\ staged' \in [Imports -> BOOLEAN]
      BY <2>10 DEF Rename, Goto, Active
    <3>4. QED
      BY <2>10, <3>2, <3>3 DEF Rename
  <2>11. CASE Finally(i)
    BY <2>11 DEF Finally, Goto, Active
  <2>12. QED
    BY <1>1, <2>1, <2>2, <2>3, <2>4, <2>5, <2>6, <2>7, <2>8, <2>9, <2>10, <2>11
       DEF Step, Unpack
<1>2. CASE Killed
  BY <1>2 DEF Killed
<1>3. CASE UNCHANGED vars
  BY <1>3 DEF vars
<1>4. QED
  BY <1>1, <1>2, <1>3 DEF Next

\* The types hold for any finite set of imports.
THEOREM ImportTypeCorrect == Spec => []TypeOK
BY ImportTypeInit, ImportTypeStep, PTL DEF Spec

(***************************************************************************)
(* The invariant holds.                                                    *)
(***************************************************************************)

\* Nothing has begun: the invariant holds at once.
LEMMA ImportInit == Init => IInv
<1> SUFFICES ASSUME Init PROVE IInv
  OBVIOUS
<1>1. TypeOK
  BY ImportTypeInit
<1>2. ValidatedInv /\ AloneInv /\ PlacedInv
  BY DEF Init, ValidatedInv, AloneInv, PlacedInv
<1>3. QED
  BY <1>1, <1>2 DEF IInv

\* Validate lets no tree past it without what is required, and later steps leave the tree alone.
LEMMA ValidatedStep ==
  ASSUME TypeOK, ValidatedInv, [Next]_vars
  PROVE  ValidatedInv'
<1> DEFINE Past == {"migrate", "exists", "delete", "rename", "finish", "imported"}
<1> SUFFICES ASSUME NEW i \in Imports, at'[i] \in Past PROVE Required \subseteq tree'[i]
  BY DEF ValidatedInv
<1>1. ASSUME Step(i) PROVE Required \subseteq tree'[i]
  <2>1. tree'[i] = tree[i]
    BY <1>1, TreeStep
  <2>2. CASE Validate(i)
    BY <2>1, <2>2 DEF Validate, Verdicts, Goto, TypeOK
  <2>3. CASE ~Validate(i)
    <3>1. at[i] \in Past
      BY <1>1, <2>3 DEF Step, Begin, Unpack, ExtractEntry, ExtractFails, ExtractDone, Migrate,
         TargetExists, DeleteOne, DeleteDone, Rename, Finally, Goto, TypeOK
    <3>2. QED
      BY <2>1, <3>1 DEF ValidatedInv
  <2>4. QED
    BY <2>2, <2>3
<1>2. ASSUME NEW j \in Imports, j # i, Step(j) PROVE Required \subseteq tree'[i]
  BY <1>2, OthersStay, TreeStep DEF ValidatedInv
<1>3. CASE Killed
  BY <1>3, KilledStep DEF ValidatedInv
<1>4. CASE UNCHANGED vars
  BY <1>4 DEF vars, ValidatedInv
<1>5. QED
  BY <1>1, <1>2, <1>3, <1>4 DEF Next

\* Whoever begins ends everybody else's being alone.
LEMMA AloneStep ==
  ASSUME TypeOK, AloneInv, [Next]_vars
  PROVE  AloneInv'
<1> SUFFICES ASSUME NEW i \in Imports, NEW k \in Imports,
                    alone'[i], at'[i] # "idle", k # i
             PROVE  at'[k] \notin Active
  BY DEF AloneInv
<1>1. ASSUME NEW j \in Imports, Begin(j) PROVE at'[k] \notin Active
  <2>1. CASE j = i
    BY <1>1, <2>1 DEF Begin, Goto, TypeOK
  <2>2. CASE j # i
    BY <1>1, <2>2 DEF Begin, Goto, TypeOK
  <2>3. QED
    BY <2>1, <2>2
<1>2. ASSUME NEW j \in Imports, Step(j), ~Begin(j) PROVE at'[k] \notin Active
  <2>1. at[j] \in Active /\ alone' = alone
    BY <1>2, ActiveBefore
  <2>2. CASE j = i
    BY <1>2, <2>1, <2>2, OthersStay DEF AloneInv, Active
  <2>3. CASE j # i
    BY <1>2, <2>1, <2>3, OthersStay DEF AloneInv
  <2>4. QED
    BY <2>2, <2>3
<1>3. CASE Killed
  BY <1>3, KilledStep DEF Active
<1>4. CASE UNCHANGED vars
  BY <1>4 DEF vars, AloneInv
<1>5. QED
  BY <1>1, <1>2, <1>3, <1>4 DEF Next

\* What an import has put in place stays while it is alone.
LEMMA PlacedStep ==
  ASSUME TypeOK, AloneInv, PlacedInv, [Next]_vars
  PROVE  PlacedInv'
<1> SUFFICES ASSUME NEW i \in Imports, at'[i] \in {"finish", "imported"}, alone'[i]
             PROVE  target' = Whole(i)'
  BY DEF PlacedInv
<1>1. ASSUME Step(i) PROVE target' = Whole(i)'
  <2>1. tree'[i] = tree[i]
    BY <1>1, TreeStep
  <2>2. Whole(i)' = Whole(i)
    BY <2>1 DEF Whole
  <2>3. CASE Rename(i)
    <3>1. target' = Whole(i)
      BY <2>3 DEF Rename, Goto, Whole, TypeOK
    <3>2. QED
      BY <2>2, <3>1
  <2>4. CASE ~Rename(i)
    <3>1. Finally(i) /\ at[i] = "finish" /\ alone' = alone /\ target' = target
      BY <1>1, <2>4 DEF Step, Begin, Unpack, ExtractEntry, ExtractFails, ExtractDone, Validate,
         Verdicts, Migrate, TargetExists, DeleteOne, DeleteDone, Finally, Goto, TypeOK
    <3>2. QED
      BY <2>2, <3>1 DEF PlacedInv
  <2>5. QED
    BY <2>3, <2>4
<1>2. ASSUME NEW j \in Imports, j # i, Step(j) PROVE target' = Whole(i)'
  <2>1. at'[i] = at[i] /\ tree'[i] = tree[i]
    BY <1>2, OthersStay, TreeStep
  <2>2. ~Begin(j)
    BY <1>2, <2>1 DEF Begin
  <2>3. at[j] \in Active /\ alone[i]
    BY <1>2, <2>2, ActiveBefore
  <2>4. FALSE
    BY <1>2, <2>1, <2>3 DEF AloneInv
  <2>5. QED
    BY <2>4
<1>3. CASE Killed
  BY <1>3, KilledStep DEF PlacedInv, Whole, Active
<1>4. CASE UNCHANGED vars
  BY <1>4 DEF vars, PlacedInv, Whole
<1>5. QED
  BY <1>1, <1>2, <1>3, <1>4 DEF Next

\* The parts together are inductive.
LEMMA ImportInvariant == Spec => []IInv
<1>1. IInv /\ [Next]_vars => IInv'
  BY ImportTypeStep, ValidatedStep, AloneStep, PlacedStep DEF IInv
<1>2. QED
  BY ImportInit, <1>1, PTL DEF Spec

(***************************************************************************)
(* What it gives.                                                          *)
(***************************************************************************)

\* An import that reports success and had no other beside or after it has its tree in place,
\* whole.
THEOREM SuccessIsInPlace == Spec => []ImportedInPlace
<1>1. IInv => ImportedInPlace
  BY DEF IInv, PlacedInv, ImportedInPlace, Whole
<1>2. QED
  BY ImportInvariant, <1>1, PTL

\* Files come to the target only as the whole of one validated tree, in one step, whatever
\* else runs or is killed.
THEOREM TargetIsAWholeTree == Spec => OnlyWholeTreesAppear
<1> DEFINE Appears ==
      \A f \in Items :
        target'[f] \notin {target[f], None} =>
          LET i == target'[f]
          IN  /\ Required \subseteq tree[i]
              /\ target' = [g \in Items |-> IF g \in tree[i] THEN i ELSE None]
<1>1. IInv /\ [Next]_vars => [Appears]_vars
  <2> SUFFICES ASSUME IInv, Next, NEW f \in Items, target'[f] \notin {target[f], None}
               PROVE  /\ Required \subseteq tree[target'[f]]
                      /\ target' = Whole(target'[f])
    BY DEF Whole
  <2>1. TypeOK /\ ValidatedInv
    BY DEF IInv
  <2>2. ~Killed
    BY DEF Killed
  <2>3. PICK j \in Imports : Step(j)
    BY <2>2 DEF Next
  <2>4. target' # target /\ \A g \in Items : target' # [target EXCEPT ![g] = None]
    BY <2>1 DEF TypeOK
  <2>5. at[j] = "rename" /\ target' = Whole(j)
    BY <2>1, <2>3, <2>4, TargetStep
  <2>6. target'[f] = j
    BY <2>5 DEF Whole
  <2>7. Required \subseteq tree[j]
    BY <2>1, <2>5 DEF ValidatedInv
  <2>8. QED
    BY <2>5, <2>6, <2>7
<1>2. QED
  BY ImportInvariant, <1>1, PTL DEF Spec, OnlyWholeTreesAppear

\* A file leaves the target only for an import that has validated its own tree.
THEOREM OldTreeLostOnlyToAWholeOne == Spec => DeletedOnlyForWholeTrees
<1> DEFINE Replaced ==
      \A f \in Items :
        target[f] # None /\ target'[f] = None =>
          \E i \in Imports : at[i] = "delete" /\ Required \subseteq tree[i]
<1>1. IInv /\ [Next]_vars => [Replaced]_vars
  <2> SUFFICES ASSUME IInv, Next, NEW f \in Items, target[f] # None, target'[f] = None
               PROVE  \E i \in Imports : at[i] = "delete" /\ Required \subseteq tree[i]
    OBVIOUS
  <2>1. TypeOK /\ ValidatedInv
    BY DEF IInv
  <2>2. ~Killed
    BY DEF Killed
  <2>3. PICK j \in Imports : Step(j)
    BY <2>2 DEF Next
  <2>4. CASE at[j] = "delete"
    BY <2>1, <2>4 DEF ValidatedInv
  <2>5. CASE at[j] # "delete"
    <3>1. Rename(j) /\ target' # target
      BY <2>3, <2>5 DEF Step, Begin, Unpack, ExtractEntry, ExtractFails, ExtractDone, Validate,
         Migrate, TargetExists, DeleteOne, DeleteDone, Rename, Finally
    <3>2. Empty
      BY <3>1 DEF Rename
    <3>3. QED
      BY <3>2 DEF Empty
  <2>6. QED
    BY <2>4, <2>5
<1>2. QED
  BY ImportInvariant, <1>1, PTL DEF Spec, DeletedOnlyForWholeTrees
=============================================================================
