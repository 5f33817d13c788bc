----------------------------- MODULE LatestFrame -----------------------------
(***************************************************************************)
(* What the frame transport promises its consumer, with no slots, no       *)
(* sequence words and no memory copies: the guest completes frames one     *)
(* after another; a read that returns shows one whole frame, and that      *)
(* frame was the newest complete one at some moment between the call and   *)
(* the return.                                                             *)
(***************************************************************************)
EXTENDS Naturals

CONSTANT Words      \* the parts of a frame that one memory access moves

VARIABLES
  published,        \* number of frames the guest has completed
  reading,          \* is a ReadLatest call running?
  floor,            \* the value of published when that call began
  picture           \* for each word of the consumer's frame, the frame it is from

vars == <<published, reading, floor, picture>>

Init ==
  /\ published = 0
  /\ reading = FALSE
  /\ floor = 0
  /\ picture = [w \in Words |-> 0]

Complete ==
  /\ published' = published + 1
  /\ UNCHANGED <<reading, floor, picture>>

Call ==
  /\ ~reading
  /\ reading' = TRUE
  /\ floor' = published
  /\ UNCHANGED <<published, picture>>

ReturnNothing ==
  /\ reading
  /\ reading' = FALSE
  /\ UNCHANGED <<published, floor, picture>>

ReturnFrame ==
  /\ reading
  /\ reading' = FALSE
  /\ \E n \in (floor .. published) \ {0} : picture' = [w \in Words |-> n]
  /\ UNCHANGED <<published, floor>>

Next == Complete \/ Call \/ ReturnNothing \/ ReturnFrame

Spec == Init /\ [][Next]_vars

=============================================================================
