------------------------- MODULE FrameChannelProofs -------------------------
(***************************************************************************)
(* Proofs about FrameChannel, for any number of slots that Create accepts, *)
(* any frame size and any number of frames.                                *)
(***************************************************************************)
EXTENDS FrameChannel, TLAPS

(***************************************************************************)
(* Arithmetic the steps rest on.                                           *)
(***************************************************************************)

\* The parity of a sequence number tells a stable slot from one being written.
LEMMA EvenFacts ==
  ASSUME NEW n \in Nat, Even(n)
  PROVE  /\ Even(n + 2)
         /\ ~Even(n + 1)
         /\ n \div 2 \in Nat
         /\ n = 2 * (n \div 2)
         /\ (n + 2) \div 2 = n \div 2 + 1
BY DEF Even

\* g_next_slot runs round the ring.
LEMMA NextSlotFacts ==
  ASSUME NEW s \in Slots
  PROVE  /\ (s + 1) % NumSlots \in Slots
         /\ (s + 1) % NumSlots = IF s = NumSlots - 1 THEN 0 ELSE s + 1
         /\ (s + 1) % NumSlots # s
BY SlotsAssumption DEF Slots

LEMMA SlotFacts == /\ NumSlots \in Nat
                   /\ NumSlots >= 2
                   /\ NoSlot \notin Slots
                   /\ 0 \in Slots
                   /\ Slots \subseteq Nat
                   /\ \A s \in Nat : s < NumSlots => s \in Slots
BY SlotsAssumption DEF Slots, NoSlot

(***************************************************************************)
(* Types.                                                                  *)
(***************************************************************************)

\* The re-read and the copy address a slot: ReadLatest returned before if it found none.
SlotChosen == reader = "copy" => bestSlot \in Slots

LEMMA TypeInit == Init => TypeOK
<1> SUFFICES ASSUME Init PROVE TypeOK
  OBVIOUS
<1>1. Blank \in [Words -> Nat]
  BY DEF Blank
<1>2. 0 \in Slots /\ 0 \in 0 .. NumSlots
  BY SlotFacts
<1>3. QED
  BY <1>1, <1>2 DEF Init, TypeOK

LEMMA TypeStep == TypeOK /\ SlotChosen /\ [Next]_vars => (TypeOK /\ SlotChosen)'
<1> SUFFICES ASSUME TypeOK, SlotChosen, [Next]_vars PROVE TypeOK' /\ SlotChosen'
  OBVIOUS
<1> USE DEF TypeOK, SlotChosen
<1>1. CASE Attach
  BY <1>1 DEF Attach, region, consumer, display
<1>2. CASE PublishBegin
  BY <1>2 DEF PublishBegin, region, consumer, display
<1>3. CASE Mark
  BY <1>3 DEF Mark, consumer, display
<1>4. CASE PublishEnd
  <2>1. (nextSlot + 1) % NumSlots \in Slots
    BY NextSlotFacts
  <2>2. sequence' \in [Slots -> Nat] /\ lastSequence' \in Nat /\ nextSlot' \in Slots
    BY <1>4, <2>1 DEF PublishEnd
  <2>3. publishing' = FALSE /\ marked' = FALSE /\ written' = {}
    BY <1>4 DEF PublishEnd
  <2>4. UNCHANGED <<pixels, attached, drawn, consumer, display>>
    BY <1>4 DEF PublishEnd
  <2>5. QED
    BY <2>2, <2>3, <2>4 DEF consumer, display
<1>5. CASE Crash
  BY <1>5 DEF Crash, region, consumer, display
<1>6. ASSUME NEW w \in Words, CopyIn(w) PROVE TypeOK' /\ SlotChosen'
  BY <1>6 DEF CopyIn, consumer, display
<1>7. CASE ReadBegin
  BY <1>7, SlotFacts DEF ReadBegin, region, publisher, display
<1>8. CASE ScanSlot
  <2>1. scanned \in Slots /\ scanned + 1 \in 0 .. NumSlots
    BY <1>8, SlotFacts DEF ScanSlot
  <2>2. QED
    BY <1>8, <2>1 DEF ScanSlot, region, publisher, display
<1>9. CASE ReadNothing
  BY <1>9 DEF ReadNothing, region, publisher, display
<1>10. CASE CopyBegin
  BY <1>10 DEF CopyBegin, region, publisher, display
<1>11. ASSUME NEW w \in Words, CopyOut(w) PROVE TypeOK' /\ SlotChosen'
  <2>1. pixels[bestSlot] \in [Words -> Nat]
    BY <1>11 DEF CopyOut
  <2>2. QED
    BY <1>11, <2>1 DEF CopyOut, region, publisher, display
<1>12. CASE LoadAgain
  BY <1>12 DEF LoadAgain, region, publisher, display
<1>13. CASE ReadMismatch
  BY <1>13 DEF ReadMismatch, region, publisher, display
<1>14. CASE ReadDone
  BY <1>14 DEF ReadDone, region, publisher
<1>15. CASE UNCHANGED vars
  BY <1>15 DEF vars, region, publisher, consumer, display
<1>16. QED
  BY <1>1, <1>2, <1>3, <1>4, <1>5, <1>6, <1>7, <1>8, <1>9, <1>10, <1>11, <1>12,
     <1>13, <1>14, <1>15 DEF Next, Guest, Host

\* Every variable stays in its range, on either kind of machine.
THEOREM TypeCorrect == Spec => []TypeOK
<1>1. Init => TypeOK /\ SlotChosen
  BY TypeInit DEF Init, SlotChosen
<1>2. TypeOK /\ SlotChosen /\ [Next]_vars => (TypeOK /\ SlotChosen)'
  BY TypeStep
<1>3. QED
  BY <1>1, <1>2, PTL DEF Spec

(***************************************************************************)
(* The inductive invariant, for a machine that keeps the order of the      *)
(* accesses. Each part is what one line of the protocol relies on.         *)
(***************************************************************************)

\* The guest's private counters: frame n carries sequence 2n, and the slot it is writing
\* shows the odd number in between.
WriterInv ==
  /\ Even(lastSequence)
  /\ 2 * drawn = IF publishing THEN lastSequence + 2 ELSE lastSequence
  /\ marked => publishing
  /\ ~marked => written = {}
  /\ marked => sequence[nextSlot] = lastSequence + 1
  /\ \A w \in written : pixels[nextSlot][w] = drawn

\* Is slot s stable, that is, not the one under the guest's pen?
Stable(s) == ~(marked /\ s = nextSlot)

\* A stable slot holds the whole frame its even sequence names.
SlotInv ==
  \A s \in Slots :
    Stable(s) => /\ Even(sequence[s])
                 /\ sequence[s] <= lastSequence
                 /\ \A w \in Words : 2 * pixels[s][w] = sequence[s]

\* Slot s was written before slot t in the guest's round.
Older(s, t) == IF s >= nextSlot THEN t < nextSlot \/ s < t ELSE t < nextSlot /\ s < t

\* Sequences grow along that round: the next slot to be overwritten is the oldest.
RingInv ==
  \A s, t \in Slots :
    Stable(s) /\ Older(s, t) =>
      sequence[s] < sequence[t] \/ (sequence[s] = 0 /\ sequence[t] = 0)

\* The newest frame is not in the slot that will be overwritten next.
NewestInv ==
  lastSequence > 0 => \E s \in Slots \ {nextSlot} : sequence[s] = lastSequence

\* What the reader remembers: the slot it chose has not moved backwards, and as long as it
\* has not moved at all, what was copied from it is of the frame it was chosen for.
ReaderInv ==
  /\ Even(bestSeq)
  /\ bestSeq <= lastSequence
  /\ bestSlot \in Slots => bestSeq > 0 /\ sequence[bestSlot] >= bestSeq
  /\ reader = "copy" =>
       /\ bestSlot \in Slots
       /\ sequence[bestSlot] = bestSeq => \A w \in copied : 2 * buffer[w] = bestSeq
       /\ after # NotLoaded => copied = Words
       /\ after = bestSeq => \A w \in copied : 2 * buffer[w] = bestSeq

\* Every slot has moved past the frame that was the newest when the read began.
Passed == \A s \in Slots : sequence[s] > floor

\* A read does not settle for an older frame than the newest one at its begin: it still
\* has that frame's slot before it, or has found as good, or will see the slot it chose
\* overwritten.
FreshInv ==
  /\ Even(floor)
  /\ floor <= lastSequence
  /\ reader = "scan" => \/ bestSeq >= floor
                        \/ Passed
                        \/ \E c \in scanned .. NumSlots - 1 : sequence[c] = floor
  /\ reader = "copy" => \/ bestSeq >= floor
                        \/ Passed /\ (after # NotLoaded => after > floor)

IInv == /\ TypeOK
        /\ WriterInv
        /\ SlotInv
        /\ RingInv
        /\ NewestInv
        /\ ReaderInv
        /\ FreshInv
        /\ SnapshotWhole

LEMMA IInvInit == Init => IInv
<1> SUFFICES ASSUME Init PROVE IInv
  OBVIOUS
<1>1. TypeOK
  BY TypeInit
<1>2. Even(0)
  BY DEF Even
<1>3. /\ \A s \in Slots : sequence[s] = 0
      /\ \A s \in Slots, w \in Words : pixels[s][w] = 0
      /\ \A w \in Words : shown[w] = 0
  BY DEF Init, Blank
<1>4. WriterInv /\ SlotInv /\ RingInv /\ NewestInv
  BY <1>2, <1>3 DEF Init, WriterInv, SlotInv, RingInv, NewestInv
<1>5. ReaderInv /\ FreshInv /\ SnapshotWhole
  BY <1>2, <1>3, SlotFacts DEF Init, ReaderInv, FreshInv, SnapshotWhole
<1>6. QED
  BY <1>1, <1>4, <1>5 DEF IInv

\* A step of the host leaves alone all that the guest's invariants speak of.
LEMMA HostKeepsGuest ==
  ASSUME IInv, UNCHANGED <<region, publisher>>
  PROVE  WriterInv' /\ SlotInv' /\ RingInv' /\ NewestInv'
<1>1. /\ UNCHANGED <<sequence, pixels, attached, lastSequence, nextSlot, drawn>>
      /\ UNCHANGED <<publishing, marked, written>>
  BY DEF region, publisher
<1>2. QED
  BY <1>1 DEF IInv, WriterInv, SlotInv, RingInv, NewestInv, Stable, Older

\* A step of the guest that touches no slot leaves alone what the host's invariants speak of.
LEMMA QuietGuestKeepsHost ==
  ASSUME IInv, UNCHANGED <<sequence, lastSequence, consumer, display>>
  PROVE  ReaderInv' /\ FreshInv' /\ SnapshotWhole'
<1>1. /\ UNCHANGED <<reader, scanned, bestSeq, bestSlot, copied, buffer, after, floor>>
      /\ UNCHANGED <<shownSeq, shown>>
  BY DEF consumer, display
<1>2. QED
  BY <1>1 DEF IInv, ReaderInv, FreshInv, Passed, SnapshotWhole

\* The two stores of a sequence word only ever raise it, which is all a reader needs.
LEMMA RaisingKeepsReader ==
  ASSUME IInv, TypeOK',
         \A s \in Slots : sequence'[s] >= sequence[s],
         lastSequence' >= lastSequence,
         UNCHANGED <<consumer, display>>
  PROVE  /\ ReaderInv'
         /\ SnapshotWhole'
         /\ Passed => Passed'
<1>1. /\ UNCHANGED <<reader, scanned, bestSeq, bestSlot, copied, buffer, after, floor>>
      /\ UNCHANGED <<shownSeq, shown>>
  BY DEF consumer, display
<1>2. /\ bestSeq \in Nat /\ floor \in Nat /\ lastSequence \in Nat /\ lastSequence' \in Nat
      /\ \A s \in Slots : sequence[s] \in Nat /\ sequence'[s] \in Nat
  BY DEF IInv, TypeOK
<1>3. ReaderInv'
  BY <1>1, <1>2 DEF IInv, ReaderInv
<1>4. QED
  BY <1>1, <1>2, <1>3 DEF IInv, SnapshotWhole, Passed

LEMMA MarkStep ==
  ASSUME IInv, TypeOK', Mark
  PROVE  IInv'
<1> DEFINE n == nextSlot
<1>1. /\ publishing /\ ~marked /\ marked' = TRUE
      /\ n \in Slots
      /\ sequence' = [sequence EXCEPT ![n] = lastSequence + 1]
      /\ UNCHANGED <<pixels, attached, lastSequence, nextSlot, drawn, publishing, written>>
      /\ UNCHANGED <<consumer, display>>
  BY DEF Mark, IInv, TypeOK
<1>2. /\ lastSequence \in Nat /\ floor \in Nat /\ bestSeq \in Nat
      /\ \A s \in Slots : sequence[s] \in Nat /\ sequence'[s] \in Nat
      /\ sequence'[n] = lastSequence + 1
      /\ \A s \in Slots \ {n} : sequence'[s] = sequence[s]
  BY <1>1 DEF IInv, TypeOK
<1>3. \A s \in Slots : sequence[s] <= lastSequence
  BY <1>1 DEF IInv, SlotInv, Stable
<1>4. WriterInv'
  BY <1>1, <1>2 DEF IInv, WriterInv
<1>5. SlotInv' /\ RingInv'
  BY <1>1, <1>2, SlotFacts DEF IInv, SlotInv, RingInv, Stable, Older
<1>6. NewestInv'
  BY <1>1, <1>2 DEF IInv, NewestInv
<1>7. ReaderInv' /\ SnapshotWhole' /\ (Passed => Passed')
  BY <1>1, <1>2, <1>3, RaisingKeepsReader
<1>8. FreshInv'
  <2>1. UNCHANGED <<reader, scanned, bestSeq, after, floor>>
    BY <1>1 DEF consumer
  <2>2. ASSUME NEW c \in scanned .. NumSlots - 1, sequence[c] = floor, floor > 0
        PROVE  sequence'[c] = floor \/ Passed'
    <3>1. c \in Slots
      BY SlotFacts DEF Slots, IInv, TypeOK
    <3>2. CASE c # n
      BY <2>2, <3>1, <3>2, <1>2
    <3>3. CASE c = n
      <4>1. \A t \in Slots \ {n} : sequence[t] > floor
        BY <1>1, <1>2, <2>2, <3>3, SlotFacts DEF IInv, RingInv, Stable, Older
      <4>2. lastSequence + 1 > floor
        BY <1>2 DEF IInv, FreshInv
      <4>3. QED
        BY <4>1, <4>2, <1>2, <2>1 DEF Passed
    <3>4. QED
      BY <3>2, <3>3
  <2>3. QED
    BY <1>1, <1>2, <1>7, <2>1, <2>2 DEF IInv, FreshInv
<1>9. QED
  BY <1>4, <1>5, <1>6, <1>7, <1>8 DEF IInv

LEMMA PublishEndStep ==
  ASSUME IInv, TypeOK', PublishEnd
  PROVE  IInv'
<1> DEFINE n == nextSlot
<1> DEFINE m == nextSlot'
<1>1. /\ publishing /\ marked /\ written = Words
      /\ publishing' = FALSE /\ marked' = FALSE /\ written' = {}
      /\ n \in Slots
      /\ lastSequence' = lastSequence + 2
      /\ sequence' = [sequence EXCEPT ![n] = lastSequence + 2]
      /\ UNCHANGED <<pixels, attached, drawn, consumer, display>>
  BY DEF PublishEnd, IInv, TypeOK
<1>2. /\ m \in Slots
      /\ m = IF n = NumSlots - 1 THEN 0 ELSE n + 1
      /\ m # n
  BY <1>1, NextSlotFacts DEF PublishEnd
<1>3. /\ lastSequence \in Nat /\ floor \in Nat /\ bestSeq \in Nat
      /\ \A s \in Slots : sequence[s] \in Nat /\ sequence'[s] \in Nat
      /\ sequence'[n] = lastSequence + 2
      /\ \A s \in Slots \ {n} : sequence'[s] = sequence[s]
      /\ sequence[n] = lastSequence + 1
  BY <1>1 DEF IInv, TypeOK, WriterInv
<1>4. Even(lastSequence) /\ Even(lastSequence + 2) /\ ~Even(lastSequence + 1)
  BY <1>3, EvenFacts DEF IInv, WriterInv
<1>5. \A w \in Words : 2 * pixels[n][w] = lastSequence + 2
  BY <1>1 DEF IInv, WriterInv
<1>6. WriterInv'
  BY <1>1, <1>3, <1>4 DEF IInv, WriterInv
<1>7. SlotInv'
  BY <1>1, <1>3, <1>4, <1>5 DEF IInv, SlotInv, Stable
<1>8. RingInv'
  <2> SUFFICES ASSUME NEW s \in Slots, NEW t \in Slots, Older(s, t)'
               PROVE  sequence'[s] < sequence'[t] \/ (sequence'[s] = 0 /\ sequence'[t] = 0)
    BY DEF RingInv
  <2>1. s # n
    BY <1>2, SlotFacts DEF Older, Slots
  <2>2. CASE t = n
    BY <1>1, <1>3, <2>1, <2>2 DEF IInv, SlotInv, Stable
  <2>3. CASE t # n
    <3>1. /\ s \in Int /\ t \in Int /\ n \in Int
          /\ s < NumSlots /\ t < NumSlots /\ t >= 0
          /\ n < NumSlots /\ NumSlots \in Int
      BY <1>1, SlotFacts DEF Slots
    <3>2. IF s >= m THEN t < m \/ s < t ELSE t < m /\ s < t
      BY DEF Older
    <3>3. IF s >= n THEN t < n \/ s < t ELSE t < n /\ s < t
      <4>1. CASE n = NumSlots - 1
        BY <1>2, <2>1, <2>3, <3>1, <3>2, <4>1
      <4>2. CASE n # NumSlots - 1
        BY <1>2, <2>1, <2>3, <3>1, <3>2, <4>2
      <4>3. QED
        BY <4>1, <4>2
    <3>4. Older(s, t)
      BY <3>3 DEF Older
    <3>5. QED
      BY <1>1, <1>3, <2>1, <2>3, <3>4 DEF IInv, RingInv, Stable
  <2>4. QED
    BY <2>2, <2>3
<1>9. NewestInv'
  BY <1>1, <1>2, <1>3 DEF NewestInv
<1>10. ReaderInv' /\ SnapshotWhole' /\ (Passed => Passed')
  BY <1>1, <1>3, RaisingKeepsReader
<1>11. FreshInv'
  <2>1. UNCHANGED <<reader, scanned, bestSeq, after, floor>>
    BY <1>1 DEF consumer
  <2>2. ASSUME NEW c \in scanned .. NumSlots - 1, sequence[c] = floor
        PROVE  sequence'[c] = floor
    <3>1. c \in Slots
      BY SlotFacts DEF Slots, IInv, TypeOK
    <3>2. c # n
      BY <2>2, <1>3, <1>4 DEF IInv, FreshInv
    <3>3. QED
      BY <2>2, <3>1, <3>2, <1>3
  <2>3. lastSequence' >= floor /\ Even(floor)
    BY <1>1, <1>3 DEF IInv, FreshInv
  <2>4. QED
    BY <1>10, <2>1, <2>2, <2>3 DEF IInv, FreshInv
<1>12. QED
  BY <1>6, <1>7, <1>8, <1>9, <1>10, <1>11 DEF IInv

LEMMA CopyInStep ==
  ASSUME IInv, TypeOK', NEW w \in Words, CopyIn(w), WeakMemory = FALSE
  PROVE  IInv'
<1>1. /\ publishing /\ marked
      /\ nextSlot \in Slots
      /\ written' = written \union {w}
      /\ pixels' = [pixels EXCEPT ![nextSlot][w] = drawn]
      /\ UNCHANGED <<sequence, attached, lastSequence, nextSlot, drawn, publishing, marked>>
      /\ UNCHANGED <<consumer, display>>
  BY DEF CopyIn, IInv, TypeOK
<1>2. /\ \A s \in Slots \ {nextSlot} : pixels'[s] = pixels[s]
      /\ \A v \in Words : pixels'[nextSlot][v] = IF v = w THEN drawn ELSE pixels[nextSlot][v]
      /\ written \subseteq Words
  BY <1>1 DEF IInv, TypeOK
<1>3. WriterInv'
  BY <1>1, <1>2 DEF IInv, WriterInv
<1>4. SlotInv' /\ RingInv' /\ NewestInv'
  BY <1>1, <1>2 DEF IInv, SlotInv, RingInv, NewestInv, Stable, Older
<1>5. ReaderInv' /\ FreshInv' /\ SnapshotWhole'
  BY <1>1, QuietGuestKeepsHost
<1>6. QED
  BY <1>3, <1>4, <1>5 DEF IInv

\* The guest's steps that touch no slot: attaching, being handed a frame, dying.
LEMMA QuietGuestStep ==
  ASSUME IInv, TypeOK', Attach \/ PublishBegin \/ Crash
  PROVE  IInv'
<1>1. /\ UNCHANGED <<sequence, pixels, lastSequence, nextSlot, marked, written>>
      /\ UNCHANGED <<consumer, display>>
  BY DEF Attach, PublishBegin, Crash, region
<1>2. \/ UNCHANGED <<drawn, publishing>>
      \/ ~publishing /\ publishing' = TRUE /\ drawn' = drawn + 1
  BY DEF Attach, PublishBegin, Crash
<1>3. WriterInv'
  <2>1. drawn \in Nat /\ lastSequence \in Nat /\ publishing \in BOOLEAN
    BY DEF IInv, TypeOK
  <2>2. ~publishing => written = {}
    BY DEF IInv, WriterInv
  <2>3. QED
    BY <1>1, <1>2, <2>1, <2>2 DEF IInv, WriterInv
<1>4. SlotInv' /\ RingInv' /\ NewestInv'
  BY <1>1 DEF IInv, SlotInv, RingInv, NewestInv, Stable, Older
<1>5. ReaderInv' /\ FreshInv' /\ SnapshotWhole'
  BY <1>1, QuietGuestKeepsHost
<1>6. QED
  BY <1>3, <1>4, <1>5 DEF IInv

LEMMA ReadBeginStep ==
  ASSUME IInv, TypeOK', ReadBegin
  PROVE  IInv'
<1>1. WriterInv' /\ SlotInv' /\ RingInv' /\ NewestInv'
  BY HostKeepsGuest DEF ReadBegin
<1>2. /\ reader' = "scan" /\ scanned' = 0 /\ bestSeq' = 0 /\ bestSlot' = NoSlot
      /\ floor' = lastSequence
      /\ UNCHANGED <<sequence, lastSequence, copied, buffer, after, shownSeq, shown>>
  BY DEF ReadBegin, region, publisher, display
<1>3. Even(0) /\ lastSequence \in Nat /\ Even(lastSequence)
  BY DEF Even, IInv, TypeOK, WriterInv
<1>4. ReaderInv' /\ SnapshotWhole'
  BY <1>2, <1>3, SlotFacts DEF IInv, ReaderInv, SnapshotWhole
<1>5. 0 >= lastSequence \/ \E c \in 0 .. NumSlots - 1 : sequence[c] = lastSequence
  BY <1>3 DEF IInv, NewestInv, Slots
<1>6. FreshInv'
  BY <1>2, <1>3, <1>5 DEF FreshInv
<1>7. QED
  BY <1>1, <1>4, <1>6 DEF IInv

LEMMA ScanSlotStep ==
  ASSUME IInv, TypeOK', ScanSlot
  PROVE  IInv'
<1>1. WriterInv' /\ SlotInv' /\ RingInv' /\ NewestInv'
  BY HostKeepsGuest DEF ScanSlot
<1>2. /\ reader = "scan" /\ reader' = "scan" /\ scanned \in Slots /\ scanned' = scanned + 1
      /\ UNCHANGED <<sequence, lastSequence, copied, buffer, after, floor, shownSeq, shown>>
  BY SlotFacts DEF ScanSlot, region, publisher, display, IInv, TypeOK
<1>3. /\ lastSequence \in Nat /\ bestSeq \in Nat /\ floor \in Nat
      /\ \A s \in Slots : sequence[s] \in Nat
  BY DEF IInv, TypeOK
<1>4. CASE Even(sequence[scanned]) /\ sequence[scanned] > bestSeq
  <2>1. bestSeq' = sequence[scanned] /\ bestSlot' = scanned
    BY <1>4 DEF ScanSlot
  <2>2. sequence[scanned] <= lastSequence
    <3>1. CASE Stable(scanned)
      BY <1>2, <3>1 DEF IInv, SlotInv
    <3>2. CASE ~Stable(scanned)
      <4>1. ~Even(lastSequence + 1)
        BY <1>3, EvenFacts DEF IInv, WriterInv
      <4>2. QED
        BY <1>4, <3>2, <4>1 DEF IInv, WriterInv, Stable
    <3>3. QED
      BY <3>1, <3>2
  <2>3. ReaderInv' /\ SnapshotWhole'
    BY <1>2, <1>3, <1>4, <2>1, <2>2 DEF IInv, ReaderInv, SnapshotWhole
  <2>4. ASSUME NEW c \in scanned .. NumSlots - 1, sequence[c] = floor
        PROVE  bestSeq' >= floor \/ c \in scanned + 1 .. NumSlots - 1
    BY <1>2, <1>3, <2>1, <2>4, SlotFacts DEF Slots
  <2>5. FreshInv'
    BY <1>2, <1>3, <1>4, <2>1, <2>4 DEF IInv, FreshInv, Passed
  <2>6. QED
    BY <1>1, <2>3, <2>5 DEF IInv
<1>5. CASE ~(Even(sequence[scanned]) /\ sequence[scanned] > bestSeq)
  <2>1. UNCHANGED <<bestSeq, bestSlot>>
    BY <1>5 DEF ScanSlot
  <2>2. ReaderInv' /\ SnapshotWhole'
    BY <1>2, <2>1 DEF IInv, ReaderInv, SnapshotWhole
  <2>3. ASSUME NEW c \in scanned .. NumSlots - 1, sequence[c] = floor
        PROVE  bestSeq' >= floor \/ c \in scanned + 1 .. NumSlots - 1
    <3>1. CASE c = scanned
      BY <1>3, <1>5, <2>1, <2>3, <3>1 DEF IInv, FreshInv
    <3>2. CASE c # scanned
      BY <1>2, <3>2, SlotFacts DEF Slots
    <3>3. QED
      BY <3>1, <3>2
  <2>4. FreshInv'
    BY <1>2, <1>3, <2>1, <2>3 DEF IInv, FreshInv, Passed
  <2>5. QED
    BY <1>1, <2>2, <2>4 DEF IInv
<1>6. QED
  BY <1>4, <1>5

LEMMA CopyBeginStep ==
  ASSUME IInv, TypeOK', CopyBegin
  PROVE  IInv'
<1>1. WriterInv' /\ SlotInv' /\ RingInv' /\ NewestInv'
  BY HostKeepsGuest DEF CopyBegin
<1>2. /\ reader = "scan" /\ scanned = NumSlots /\ bestSlot # NoSlot
      /\ reader' = "copy" /\ copied' = {} /\ after' = NotLoaded
      /\ UNCHANGED <<sequence, lastSequence, bestSeq, bestSlot, buffer, floor, shownSeq, shown>>
  BY DEF CopyBegin, region, publisher, display
<1>3. bestSlot \in Slots /\ bestSeq \in Nat /\ NotLoaded # bestSeq
  BY <1>2 DEF IInv, TypeOK, NotLoaded
<1>4. ReaderInv' /\ SnapshotWhole'
  BY <1>2, <1>3 DEF IInv, ReaderInv, SnapshotWhole
<1>5. ~ \E c \in scanned .. NumSlots - 1 : TRUE
  BY <1>2, SlotFacts
<1>6. FreshInv'
  BY <1>2, <1>5 DEF IInv, FreshInv, Passed
<1>7. QED
  BY <1>1, <1>4, <1>6 DEF IInv

LEMMA CopyOutStep ==
  ASSUME IInv, TypeOK', NEW w \in Words, CopyOut(w), WeakMemory = FALSE
  PROVE  IInv'
<1>1. WriterInv' /\ SlotInv' /\ RingInv' /\ NewestInv'
  BY HostKeepsGuest DEF CopyOut
<1>2. /\ reader = "copy" /\ w \notin copied
      /\ copied' = copied \union {w}
      /\ buffer' = [buffer EXCEPT ![w] = pixels[bestSlot][w]]
      /\ UNCHANGED <<reader, scanned, bestSeq, bestSlot, after, floor, sequence, lastSequence,
                     shownSeq, shown>>
  BY DEF CopyOut, region, publisher, display
<1>3. bestSlot \in Slots /\ bestSeq \in Nat /\ copied \subseteq Words /\ after = NotLoaded
  BY <1>2 DEF IInv, TypeOK, ReaderInv
<1>4. \A v \in copied : buffer'[v] = buffer[v]
  BY <1>2, <1>3 DEF IInv, TypeOK
<1>5. buffer'[w] = pixels[bestSlot][w]
  BY <1>2 DEF IInv, TypeOK
<1>6. ASSUME sequence[bestSlot] = bestSeq
      PROVE  2 * pixels[bestSlot][w] = bestSeq
  <2>1. Stable(bestSlot)
    <3>1. Even(bestSeq) /\ lastSequence \in Nat /\ Even(lastSequence)
      BY DEF IInv, ReaderInv, WriterInv, TypeOK
    <3>2. ~Even(lastSequence + 1)
      BY <3>1, EvenFacts
    <3>3. QED
      BY <1>6, <3>1, <3>2 DEF IInv, WriterInv, Stable
  <2>2. QED
    BY <1>3, <1>6, <2>1 DEF IInv, SlotInv
<1>7. NotLoaded # bestSeq
  BY <1>3 DEF NotLoaded
<1>8. ReaderInv' /\ SnapshotWhole' /\ FreshInv'
  BY <1>2, <1>3, <1>4, <1>5, <1>6, <1>7
     DEF IInv, ReaderInv, SnapshotWhole, FreshInv, Passed
<1>9. QED
  BY <1>1, <1>8 DEF IInv

LEMMA LoadAgainStep ==
  ASSUME IInv, TypeOK', LoadAgain, WeakMemory = FALSE
  PROVE  IInv'
<1>1. WriterInv' /\ SlotInv' /\ RingInv' /\ NewestInv'
  BY HostKeepsGuest DEF LoadAgain
<1>2. /\ reader = "copy" /\ copied = Words /\ after' = sequence[bestSlot]
      /\ UNCHANGED <<reader, scanned, bestSeq, bestSlot, copied, buffer, floor, sequence,
                     lastSequence, shownSeq, shown>>
  BY DEF LoadAgain, region, publisher, display
<1>3. bestSlot \in Slots /\ sequence[bestSlot] \in Nat
  BY <1>2 DEF IInv, TypeOK, ReaderInv
<1>4. ReaderInv' /\ SnapshotWhole' /\ FreshInv'
  BY <1>2, <1>3 DEF IInv, ReaderInv, SnapshotWhole, FreshInv, Passed
<1>5. QED
  BY <1>1, <1>4 DEF IInv

\* Both ways a read returns without a frame.
LEMMA ReadFailsStep ==
  ASSUME IInv, TypeOK', ReadNothing \/ ReadMismatch
  PROVE  IInv'
<1>1. UNCHANGED <<region, publisher>> /\ reader' = "idle"
      /\ UNCHANGED <<scanned, bestSeq, bestSlot, copied, buffer, after, floor, display>>
  BY DEF ReadNothing, ReadMismatch
<1>2. WriterInv' /\ SlotInv' /\ RingInv' /\ NewestInv'
  BY <1>1, HostKeepsGuest
<1>3. ReaderInv' /\ SnapshotWhole' /\ FreshInv'
  BY <1>1 DEF IInv, ReaderInv, SnapshotWhole, FreshInv, region, publisher, display
<1>4. QED
  BY <1>2, <1>3 DEF IInv

LEMMA ReadDoneStep ==
  ASSUME IInv, TypeOK', ReadDone
  PROVE  IInv'
<1>1. /\ UNCHANGED <<region, publisher>> /\ reader = "copy" /\ reader' = "idle"
      /\ copied = Words /\ after = bestSeq
      /\ shownSeq' = bestSeq /\ shown' = buffer
      /\ UNCHANGED <<scanned, bestSeq, bestSlot, copied, buffer, after, floor>>
  BY DEF ReadDone
<1>2. WriterInv' /\ SlotInv' /\ RingInv' /\ NewestInv'
  BY <1>1, HostKeepsGuest
<1>3. ReaderInv' /\ FreshInv'
  BY <1>1 DEF IInv, ReaderInv, FreshInv, region, publisher
<1>4. SnapshotWhole'
  BY <1>1 DEF IInv, ReaderInv, SnapshotWhole
<1>5. QED
  BY <1>2, <1>3, <1>4 DEF IInv

LEMMA IInvStep ==
  ASSUME WeakMemory = FALSE, IInv, [Next]_vars
  PROVE  IInv'
<1>1. SlotChosen
  BY DEF IInv, ReaderInv, SlotChosen
<1>2. TypeOK'
  BY <1>1, TypeStep DEF IInv
<1>3. CASE Attach \/ PublishBegin \/ Crash
  BY <1>2, <1>3, QuietGuestStep
<1>4. CASE Mark
  BY <1>2, <1>4, MarkStep
<1>5. CASE PublishEnd
  BY <1>2, <1>5, PublishEndStep
<1>6. ASSUME NEW w \in Words, CopyIn(w) PROVE IInv'
  BY <1>2, <1>6, CopyInStep
<1>7. CASE ReadBegin
  BY <1>2, <1>7, ReadBeginStep
<1>8. CASE ScanSlot
  BY <1>2, <1>8, ScanSlotStep
<1>9. CASE CopyBegin
  BY <1>2, <1>9, CopyBeginStep
<1>10. ASSUME NEW w \in Words, CopyOut(w) PROVE IInv'
  BY <1>2, <1>10, CopyOutStep
<1>11. CASE LoadAgain
  BY <1>2, <1>11, LoadAgainStep
<1>12. CASE ReadNothing \/ ReadMismatch
  BY <1>2, <1>12, ReadFailsStep
<1>13. CASE ReadDone
  BY <1>2, <1>13, ReadDoneStep
<1>14. CASE UNCHANGED vars
  <2>1. UNCHANGED <<region, publisher, consumer, display>>
    BY <1>14 DEF vars
  <2>2. UNCHANGED <<sequence, lastSequence>>
    BY <2>1 DEF region, publisher
  <2>3. QED
    BY <1>2, <2>1, <2>2, HostKeepsGuest, QuietGuestKeepsHost DEF IInv
<1>15. QED
  BY <1>3, <1>4, <1>5, <1>6, <1>7, <1>8, <1>9, <1>10, <1>11, <1>12, <1>13, <1>14
     DEF Next, Guest, Host

(***************************************************************************)
(* The results.                                                            *)
(***************************************************************************)

LEMMA IInvCorrect ==
  ASSUME WeakMemory = FALSE
  PROVE  Spec => []IInv
BY IInvInit, IInvStep, PTL DEF Spec

\* On a machine that keeps the order of the accesses, ReadLatest accepts whole frames only,
\* each the one its sequence names.
THEOREM SnapshotsAreWhole ==
  ASSUME WeakMemory = FALSE
  PROVE  Spec => []SnapshotWhole
<1>1. IInv => SnapshotWhole
  BY DEF IInv
<1>2. QED
  BY <1>1, IInvCorrect, PTL

\* The newest complete frame is in some slot, whole, whatever the guest is doing or has died
\* doing.
THEOREM NewestFrameSurvives ==
  ASSUME WeakMemory = FALSE
  PROVE  Spec => []NewestSurvives
<1>1. IInv => NewestSurvives
  <2> SUFFICES ASSUME IInv, lastSequence > 0
               PROVE  \E s \in Slots : /\ sequence[s] = lastSequence
                                       /\ \A w \in Words : 2 * pixels[s][w] = lastSequence
    BY DEF NewestSurvives
  <2>1. PICK s \in Slots \ {nextSlot} : sequence[s] = lastSequence
    BY DEF IInv, NewestInv
  <2>2. \A w \in Words : 2 * pixels[s][w] = sequence[s]
    BY <2>1 DEF IInv, SlotInv, Stable
  <2>3. QED
    BY <2>1, <2>2
<1>2. QED
  BY <1>1, IInvCorrect, PTL

\* Every step of the transport is a step of LatestFrame or invisible to it.
LEMMA PromiseStep ==
  ASSUME WeakMemory = FALSE, IInv, [Next]_vars
  PROVE  [Promise!Next]_(Promise!vars)
<1> USE DEF Promise!vars
<1>1. /\ lastSequence \in Nat /\ floor \in Nat /\ bestSeq \in Nat
      /\ Even(lastSequence) /\ Even(floor) /\ Even(bestSeq)
  BY DEF IInv, TypeOK, WriterInv, FreshInv, ReaderInv
<1>2. ASSUME UNCHANGED <<lastSequence, reader, floor, shown>>
      PROVE  UNCHANGED Promise!vars
  BY <1>2
<1>3. CASE Attach \/ PublishBegin \/ Mark \/ Crash \/ \E w \in Words : CopyIn(w)
  BY <1>2, <1>3 DEF Attach, PublishBegin, Mark, Crash, CopyIn, consumer, display
<1>4. CASE PublishEnd
  <2>1. lastSequence' \div 2 = lastSequence \div 2 + 1
    BY <1>1, <1>4, EvenFacts DEF PublishEnd
  <2>2. Promise!Complete
    BY <1>4, <2>1 DEF PublishEnd, consumer, display, Promise!Complete
  <2>3. QED
    BY <2>2 DEF Promise!Next
<1>5. CASE ReadBegin
  <2>1. Promise!Call
    BY <1>5 DEF ReadBegin, publisher, display, Promise!Call
  <2>2. QED
    BY <2>1 DEF Promise!Next
<1>6. CASE ScanSlot \/ CopyBegin \/ LoadAgain \/ \E w \in Words : CopyOut(w)
  <2>1. reader # "idle" /\ reader' # "idle" /\ UNCHANGED <<lastSequence, floor, shown>>
    BY <1>6 DEF ScanSlot, CopyBegin, LoadAgain, CopyOut, publisher, display
  <2>2. QED
    BY <2>1
<1>7. CASE ReadNothing \/ ReadMismatch
  <2>1. Promise!ReturnNothing
    BY <1>7 DEF ReadNothing, ReadMismatch, publisher, display, Promise!ReturnNothing
  <2>2. QED
    BY <2>1 DEF Promise!Next
<1>8. CASE ReadDone
  <2> DEFINE n == bestSeq \div 2
  <2>1. /\ reader = "copy" /\ reader' = "idle" /\ copied = Words /\ after = bestSeq
        /\ shown' = buffer /\ UNCHANGED <<lastSequence, floor>>
    BY <1>8 DEF ReadDone, publisher
  <2>2. bestSeq > 0 /\ bestSeq <= lastSequence
    BY <2>1 DEF IInv, ReaderInv
  <2>3. bestSeq >= floor
    <3>1. after # NotLoaded
      BY <2>1, <1>1 DEF NotLoaded
    <3>2. QED
      BY <2>1, <3>1, <1>1 DEF IInv, FreshInv
  <2>4. n \in (floor \div 2 .. lastSequence \div 2) \ {0}
    BY <1>1, <2>2, <2>3, EvenFacts
  <2>5. \A w \in Words : buffer[w] = n
    <3>1. n \in Nat /\ bestSeq = 2 * n
      BY <1>1, EvenFacts
    <3>2. \A w \in Words : buffer[w] \in Nat /\ 2 * buffer[w] = bestSeq
      BY <2>1 DEF IInv, TypeOK, ReaderInv
    <3>3. QED
      BY <3>1, <3>2
  <2>6. shown' = [w \in Words |-> n]
    BY <2>1, <2>5 DEF IInv, TypeOK
  <2>7. Promise!ReturnFrame
    BY <2>1, <2>4, <2>6 DEF Promise!ReturnFrame
  <2>8. QED
    BY <2>7 DEF Promise!Next
<1>9. CASE UNCHANGED vars
  BY <1>2, <1>9 DEF vars, publisher, consumer, display
<1>10. QED
  BY <1>3, <1>4, <1>5, <1>6, <1>7, <1>8, <1>9 DEF Next, Guest, Host

\* The transport implements the latest-frame register, for every ring Create accepts.
THEOREM FrameChannelImplementsLatestFrame ==
  ASSUME WeakMemory = FALSE
  PROVE  Spec => ImplementsLatestFrame
<1>1. Init => Promise!Init
  BY DEF Init, Blank, Promise!Init
<1>2. IInv /\ [Next]_vars => [Promise!Next]_(Promise!vars)
  BY PromiseStep
<1>3. QED
  BY <1>1, <1>2, IInvCorrect, PTL DEF Spec, ImplementsLatestFrame, Promise!Spec

=============================================================================
