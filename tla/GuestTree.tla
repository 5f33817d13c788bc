------------------------------ MODULE GuestTree ------------------------------
(***************************************************************************)
(* What libfake promises of the guest's files: there is one tree, a thing   *)
(* in it has one place, and a call changes the things it names and nothing  *)
(* else, in the sandbox or out of it.                                       *)
(***************************************************************************)
CONSTANTS
  Things,   \* the places a call can name: those of the guest's tree, and host places left to it
  Files,    \* the identities of files, directories and links
  None      \* nothing is there

VARIABLE held    \* what each place holds

Init == held \in [Things -> Files \union {None}]

\* A file that has no name yet appears at a place where nothing was.
Make(a) ==
  /\ a \in Things /\ held[a] = None
  /\ \E i \in Files : /\ \A x \in Things : held[x] # i
                      /\ held' = [held EXCEPT ![a] = i]

Remove(a) == a \in Things /\ held[a] # None /\ held' = [held EXCEPT ![a] = None]

\* The file leaves one place and takes the other, unless both are names of it already.
Rename(a, b) ==
  /\ {a, b} \subseteq Things
  /\ held[a] \notin {None, held[b]}
  /\ held' = [held EXCEPT ![a] = None, ![b] = held[a]]

Link(a, b) ==
  /\ {a, b} \subseteq Things
  /\ held[a] # None
  /\ held[b] = None
  /\ held' = [held EXCEPT ![b] = held[a]]

Next == \E a, b \in Things : Make(a) \/ Remove(a) \/ Rename(a, b) \/ Link(a, b)

Spec == Init /\ [][Next]_held
=============================================================================
