---------------------------- MODULE FrameChannel ----------------------------
(***************************************************************************)
(* The shared-memory frame transport: a ring of slots in one memfd region, *)
(* written by frame_publish in the guest (fake/frame_producer.cpp) and     *)
(* read by FrameChannelHost::ReadLatest on the host's pump thread          *)
(* (core/frame_channel.cpp, core/display_renderer.cpp).                    *)
(*                                                                         *)
(* One action is one access to the shared region (or one memory access of  *)
(* a memcpy), because guest and host run in two processes and nothing but  *)
(* the slots' sequence words keeps them apart.                             *)
(***************************************************************************)
EXTENDS Integers

CONSTANTS
  NumSlots,      \* slot_count of the region header
  Words,         \* the parts of a frame that one access of a memcpy moves
  MaxFrames,     \* bound: frames the guest draws in a behaviour
  WeakMemory     \* TRUE on arm64-v8a, FALSE on x86_64: see Mark and LoadAgain

\* Create refuses fewer than 2 and more than 16 slots; a frame is not empty.
ASSUME SlotsAssumption == NumSlots \in 2 .. 16
ASSUME WordsAssumption == Words # {}
ASSUME FramesAssumption == MaxFrames \in Nat
ASSUME MemoryAssumption == WeakMemory \in BOOLEAN

VARIABLES
  \* the region
  sequence,      \* slot -> AcFrameSlotMeta.sequence
  pixels,        \* slot -> word -> number of the frame the word belongs to
  \* the guest process that publishes
  attached,      \* "no": not mapped yet, "yes": g_region is set, "dead": process gone
  lastSequence,  \* g_last_sequence
  nextSlot,      \* g_next_slot
  drawn,         \* frames handed to frame_publish so far: the number of the newest
  publishing,    \* is frame_publish running?
  marked,        \* has its odd store reached memory?
  written,       \* the words its memcpy has stored so far
  \* the host thread inside ReadLatest
  reader,        \* where it is: "idle", "scan", "copy"
  scanned,       \* the loop variable i of the scan
  bestSeq,       \* best_seq
  bestSlot,      \* best_slot, NoSlot before one is found
  copied,        \* the words its memcpy has loaded so far
  buffer,        \* dst, as far as it is filled
  after,         \* the re-read sequence, NotLoaded before the load
  floor,         \* history: lastSequence when this ReadLatest began
  \* what the renderer was given by updateGuestFrame
  shownSeq,      \* Snapshot.sequence of the newest snapshot
  shown          \* mFrameBuffer

region    == <<sequence, pixels>>
publisher == <<attached, lastSequence, nextSlot, drawn, publishing, marked, written>>
consumer  == <<reader, scanned, bestSeq, bestSlot, copied, buffer, after, floor>>
display   == <<shownSeq, shown>>
vars      == <<region, publisher, consumer, display>>

Slots     == 0 .. NumSlots - 1
NoSlot    == -1
NotLoaded == -1
Blank     == [w \in Words |-> 0]
Even(n)   == n % 2 = 0

----------------------------------------------------------------------------
(* Create zero-fills the region (ftruncate of a fresh memfd) and writes the *)
(* header, which never changes afterwards.                                  *)
Init ==
  /\ sequence = [s \in Slots |-> 0]
  /\ pixels = [s \in Slots |-> Blank]
  /\ attached = "no"
  /\ lastSequence = 0 /\ nextSlot = 0
  /\ drawn = 0 /\ publishing = FALSE /\ marked = FALSE /\ written = {}
  /\ reader = "idle"
  /\ scanned = 0 /\ bestSeq = 0 /\ bestSlot = NoSlot
  /\ copied = {} /\ buffer = Blank /\ after = NotLoaded /\ floor = 0
  /\ shownSeq = 0 /\ shown = Blank

----------------------------------------------------------------------------
(* The guest.                                                               *)

\* frame_producer_init_from_env on its success path: the region is mapped.
Attach ==
  /\ attached = "no"
  /\ attached' = "yes"
  /\ UNCHANGED <<region, lastSequence, nextSlot, drawn, publishing, marked, written,
                 consumer, display>>

\* frame_publish is called with a frame of the right size (another size returns
\* false and touches nothing).
PublishBegin ==
  /\ attached = "yes"
  /\ ~publishing
  /\ drawn < MaxFrames
  /\ drawn' = drawn + 1
  /\ publishing' = TRUE
  /\ UNCHANGED <<region, attached, lastSequence, nextSlot, marked, written,
                 consumer, display>>

\* The odd store. It is a release store: it is not visible before what precedes it,
\* but on a weakly ordered machine the pixel stores after it may be visible first.
Mark ==
  /\ attached = "yes"
  /\ publishing
  /\ ~marked
  /\ marked' = TRUE
  /\ sequence' = [sequence EXCEPT ![nextSlot] = lastSequence + 1]
  /\ UNCHANGED <<pixels, attached, lastSequence, nextSlot, drawn, publishing, written,
                 consumer, display>>

\* One store of memcpy(dst, pixels, len).
CopyIn(w) ==
  /\ attached = "yes"
  /\ publishing
  /\ marked \/ WeakMemory
  /\ w \notin written
  /\ written' = written \union {w}
  /\ pixels' = [pixels EXCEPT ![nextSlot][w] = drawn]
  /\ UNCHANGED <<sequence, attached, lastSequence, nextSlot, drawn, publishing, marked,
                 consumer, display>>

\* Mutant: the slot index runs past slot_count.
PublishEnd_NoWrap ==
  /\ attached = "yes" /\ publishing /\ marked /\ written = Words
  /\ lastSequence' = lastSequence + 2
  /\ sequence' = [sequence EXCEPT ![nextSlot] = lastSequence + 2]
  /\ nextSlot' = nextSlot + 1
  /\ publishing' = FALSE /\ marked' = FALSE /\ written' = {}
  /\ UNCHANGED <<pixels, attached, drawn, consumer, display>>

\* Mutant: the guest keeps writing the same slot.
PublishEnd_SameSlot ==
  /\ attached = "yes" /\ publishing /\ marked /\ written = Words
  /\ lastSequence' = lastSequence + 2
  /\ sequence' = [sequence EXCEPT ![nextSlot] = lastSequence + 2]
  /\ publishing' = FALSE /\ marked' = FALSE /\ written' = {}
  /\ UNCHANGED <<pixels, attached, nextSlot, drawn, consumer, display>>

\* The even store, a release store: everything before it is visible by now. It ends
\* the call, which moves on to the next slot.
PublishEnd ==
  /\ attached = "yes"
  /\ publishing
  /\ marked
  /\ written = Words
  /\ lastSequence' = lastSequence + 2
  /\ sequence' = [sequence EXCEPT ![nextSlot] = lastSequence + 2]
  /\ nextSlot' = (nextSlot + 1) % NumSlots
  /\ publishing' = FALSE
  /\ marked' = FALSE
  /\ written' = {}
  /\ UNCHANGED <<pixels, attached, drawn, consumer, display>>

\* The guest process dies, wherever it is in frame_publish; the region outlives it.
Crash ==
  /\ attached = "yes"
  /\ attached' = "dead"
  /\ UNCHANGED <<region, lastSequence, nextSlot, drawn, publishing, marked, written,
                 consumer, display>>

----------------------------------------------------------------------------
(* The host: one turn of pumpLoop calls ReadLatest on the published channel. *)

ReadBegin ==
  /\ reader = "idle"
  /\ reader' = "scan"
  /\ scanned' = 0
  /\ bestSeq' = 0
  /\ bestSlot' = NoSlot
  /\ floor' = lastSequence
  /\ UNCHANGED <<copied, buffer, after, region, publisher, display>>

\* Mutant: the scan takes the last published slot instead of the newest.
ScanSlot_AnyPublished ==
  /\ reader = "scan"
  /\ scanned < NumSlots
  /\ scanned' = scanned + 1
  /\ IF Even(sequence[scanned]) /\ sequence[scanned] > 0
     THEN bestSeq' = sequence[scanned] /\ bestSlot' = scanned
     ELSE UNCHANGED <<bestSeq, bestSlot>>
  /\ UNCHANGED <<reader, copied, buffer, after, floor, region, publisher, display>>

\* Mutant: the scan does not skip a slot that is being written.
ScanSlot_OddToo ==
  /\ reader = "scan"
  /\ scanned < NumSlots
  /\ scanned' = scanned + 1
  /\ IF sequence[scanned] > bestSeq
     THEN bestSeq' = sequence[scanned] /\ bestSlot' = scanned
     ELSE UNCHANGED <<bestSeq, bestSlot>>
  /\ UNCHANGED <<reader, copied, buffer, after, floor, region, publisher, display>>

\* One acquire load of the scan for the highest even sequence.
ScanSlot ==
  /\ reader = "scan"
  /\ scanned < NumSlots
  /\ scanned' = scanned + 1
  /\ IF Even(sequence[scanned]) /\ sequence[scanned] > bestSeq
     THEN bestSeq' = sequence[scanned] /\ bestSlot' = scanned
     ELSE UNCHANGED <<bestSeq, bestSlot>>
  /\ UNCHANGED <<reader, copied, buffer, after, floor, region, publisher, display>>

\* The scan found nothing published: ReadLatest returns false.
ReadNothing ==
  /\ reader = "scan"
  /\ scanned = NumSlots
  /\ bestSlot = NoSlot
  /\ reader' = "idle"
  /\ UNCHANGED <<scanned, bestSeq, bestSlot, copied, buffer, after, floor,
                 region, publisher, display>>

CopyBegin ==
  /\ reader = "scan"
  /\ scanned = NumSlots
  /\ bestSlot # NoSlot
  /\ reader' = "copy"
  /\ copied' = {}
  /\ after' = NotLoaded
  /\ UNCHANGED <<scanned, bestSeq, bestSlot, buffer, floor, region, publisher, display>>

\* One load of memcpy(dst, pixels, need).
CopyOut(w) ==
  /\ reader = "copy"
  /\ w \notin copied
  /\ copied' = copied \union {w}
  /\ buffer' = [buffer EXCEPT ![w] = pixels[bestSlot][w]]
  /\ UNCHANGED <<reader, scanned, bestSeq, bestSlot, after, floor,
                 region, publisher, display>>

\* The validating load. Acquire orders it before later accesses only: on a weakly
\* ordered machine it may be satisfied before the memcpy's loads.
LoadAgain ==
  /\ reader = "copy"
  /\ after = NotLoaded
  /\ copied = Words \/ WeakMemory
  /\ after' = sequence[bestSlot]
  /\ UNCHANGED <<reader, scanned, bestSeq, bestSlot, copied, buffer, floor,
                 region, publisher, display>>

\* The sequence moved while the pixels were copied: ReadLatest returns false.
ReadMismatch ==
  /\ reader = "copy"
  /\ copied = Words
  /\ after \notin {NotLoaded, bestSeq}
  /\ reader' = "idle"
  /\ UNCHANGED <<scanned, bestSeq, bestSlot, copied, buffer, after, floor,
                 region, publisher, display>>

\* Mutant: the snapshot is not validated.
ReadDone_Unchecked ==
  /\ reader = "copy"
  /\ copied = Words
  /\ reader' = "idle"
  /\ shownSeq' = bestSeq
  /\ shown' = buffer
  /\ UNCHANGED <<scanned, bestSeq, bestSlot, copied, buffer, after, floor,
                 region, publisher>>

\* ReadLatest returns true, and pumpLoop hands the buffer to updateGuestFrame.
ReadDone ==
  /\ reader = "copy"
  /\ copied = Words
  /\ after = bestSeq
  /\ reader' = "idle"
  /\ shownSeq' = bestSeq
  /\ shown' = buffer
  /\ UNCHANGED <<scanned, bestSeq, bestSlot, copied, buffer, after, floor,
                 region, publisher>>

----------------------------------------------------------------------------
Guest == Attach \/ PublishBegin \/ Mark \/ PublishEnd \/ Crash \/ \E w \in Words : CopyIn(w)

Host == \/ ReadBegin \/ ScanSlot \/ ReadNothing \/ CopyBegin
        \/ (\E w \in Words : CopyOut(w)) \/ LoadAgain \/ ReadMismatch \/ ReadDone

Next == Guest \/ Host

\* pumpLoop calls ReadLatest every 8 ms for as long as the renderer runs, and nothing in
\* ReadLatest waits, so the host keeps taking steps. The guest owes nothing: a process
\* that stops in the middle of a frame is a behaviour of the code.
Spec == Init /\ [][Next]_vars /\ WF_vars(Host)

----------------------------------------------------------------------------
(* Correctness.                                                             *)

TypeOK ==
  /\ sequence \in [Slots -> Nat]
  /\ pixels \in [Slots -> [Words -> Nat]]
  /\ attached \in {"no", "yes", "dead"}
  /\ lastSequence \in Nat
  /\ nextSlot \in Slots
  /\ drawn \in Nat
  /\ publishing \in BOOLEAN
  /\ marked \in BOOLEAN
  /\ written \in SUBSET Words
  /\ reader \in {"idle", "scan", "copy"}
  /\ scanned \in 0 .. NumSlots
  /\ bestSeq \in Nat
  /\ bestSlot \in Slots \union {NoSlot}
  /\ copied \in SUBSET Words
  /\ buffer \in [Words -> Nat]
  /\ after \in Nat \union {NotLoaded}
  /\ floor \in Nat
  /\ shownSeq \in Nat
  /\ shown \in [Words -> Nat]

\* Every snapshot ReadLatest accepts is one frame: no word of it belongs to another frame
\* (frame_protocol.h:9-12, "Consumers validate a snapshot by re-reading the sequence").
NoTornSnapshot == \A v, w \in Words : shown[v] = shown[w]

\* An accepted snapshot is the very frame whose sequence it is labelled with, all of it:
\* the n-th frame of a guest process carries sequence 2n.
SnapshotWhole == \A w \in Words : 2 * shown[w] = shownSeq

\* Two slots are enough to never lose the picture: once a frame is complete, the newest
\* complete frame stays readable in some slot, also while the guest overwrites another
\* slot and also when it dies there.
NewestSurvives ==
  lastSequence > 0 =>
    \E s \in Slots : /\ sequence[s] = lastSequence
                     /\ \A w \in Words : 2 * pixels[s][w] = lastSequence

\* The transport implements LatestFrame: the picture is always one whole frame that was the
\* newest complete one at some moment of the ReadLatest call that returned it.
Promise == INSTANCE LatestFrame WITH
             published <- lastSequence \div 2,
             reading   <- reader # "idle",
             floor     <- floor \div 2,
             picture   <- shown
ImplementsLatestFrame == Promise!Spec

\* When the guest stops completing frames, the host ends up showing the last complete one,
\* even if the guest died or hangs in the middle of the next.
CatchesUp ==
  \A n \in 1 .. MaxFrames : <>[](lastSequence = 2 * n) => <>[](shownSeq = 2 * n)

=============================================================================
