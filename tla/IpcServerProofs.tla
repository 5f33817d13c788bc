--------------------------- MODULE IpcServerProofs ---------------------------
(***************************************************************************)
(* Proofs about IpcServer, for any number of guests and of descriptor      *)
(* numbers.                                                                *)
(***************************************************************************)
EXTENDS IpcServer, SequenceTheorems, WellFoundedInduction, TLAPS

(***************************************************************************)
(* The inductive invariant.                                                *)
(***************************************************************************)

\* Where the main thread can be, and what goes with it. While Stop goes over the list
\* nothing accepts any more.
PhaseInv ==
  /\ Stopping => ~impl
  /\ main \in {"send", "wait"} => impl
  /\ main \in {"clients", "joinClients"} => accepter = "none"
  /\ main = "wait" => todo # <<>>

\* The listener is there no longer than the server, and nothing waits behind a closed one
\* unless an accept4 in progress holds it.
ListenInv ==
  /\ Listening => impl \/ main = "listener"
  /\ ~Listening /\ accepter # "accept" => backlog = <<>>

\* A connection waits once, without a thread and without a descriptor.
WaitInv ==
  /\ \A i, j \in 1..Len(backlog) : backlog[i] = backlog[j] => i = j
  /\ \A c \in ToSet(backlog) : thread[c] = "none" /\ \A f \in Fds : fdt[f] # c

\* At most one connection is between its accept and its entry in the list.
AcceptInv ==
  /\ \A c \in Conns : thread[c] = "accepted" => accepter = "push"
  /\ \A c, d \in Conns : thread[c] = "accepted" /\ thread[d] = "accepted" => c = d

Owning == {"accepted", "call", "recv", "drop", "close"}

\* A connection has one number at most: its thread's, or one that DropClient has left to
\* Stop. Until Stop goes over the list, a thread's number is its own up to the close.
OwnerInv ==
  /\ \A c \in Conns : thread[c] # "none" => fdOf[c] \in Fds
  /\ \A c \in Conns, f \in Fds : fdt[f] = c =>
       \/ thread[c] \in Owning /\ fdOf[c] = f
       \/ thread[c] = "none" /\ main \in {"listener", "joinAccept", "clients"}
  /\ \A f, g \in Fds : fdt[f] = fdt[g] /\ fdt[f] \in Conns => f = g
  /\ main \notin {"clients", "joinClients"} =>
       \A c \in Conns : /\ thread[c] # "foreign"
                        /\ thread[c] \in Owning => fdt[fdOf[c]] = c

\* Those the list owes an entry: every client thread until its RemoveOwn, and every
\* connection that has been left to Stop.
InList(c) == \/ thread[c] \in {"call", "recv", "drop", "close", "remove"}
             \/ thread[c] = "none" /\ \E f \in Fds : fdt[f] = c

Entry(c, f) == IF thread[c] = "none" THEN fdt[f] = c ELSE fdOf[c] = f

Placing(pos) ==
  /\ \A c \in Conns : InList(c) => pos[c] \in 1..Len(clients) /\ Entry(c, clients[pos[c]])
  /\ \A c, d \in Conns : InList(c) /\ InList(d) /\ pos[c] = pos[d] => c = d

\* The list has an entry for each of them, two entries for two of them also when they have
\* the same number: so the entry a thread removes is never the one another needs.
ListInv ==
  main \notin {"clients", "joinClients"} =>
    \E pos \in [Conns -> 0..Len(clients)] : Placing(pos)

\* What Stop has still to close is still before it.
ClosingInv ==
  /\ main = "clients" => \A f \in Fds : fdt[f] \in Conns => f \in ToSet(todo)
  /\ main = "joinClients" => clients = <<>> /\ \A f \in Fds : fdt[f] \notin Conns

\* A guest that Broadcast owes its message has kept its connection since Broadcast began, and
\* while its thread serves it, its number is among those to come.
DueInv ==
  main \in {"send", "wait"} =>
    \A c \in due :
      /\ peer[c] = "open" /\ c \notin ToSet(backlog) /\ thread[c] # "accepted"
      /\ thread[c] \in {"call", "recv"} =>
           IF main = "send" THEN fdOf[c] \in ToSet(todo)
                            ELSE c = sending \/ fdOf[c] \in ToSet(Tail(todo))

IInv == /\ TypeOK /\ StopLeavesNothing /\ PhaseInv /\ ListenInv /\ WaitInv
        /\ AcceptInv /\ OwnerInv /\ ListInv /\ ClosingInv /\ DueInv

(***************************************************************************)
(* Sequences.                                                              *)
(***************************************************************************)

\* What a sequence holds, when it is empty, when an element is added or the first taken off.
LEMMA SetOfSeq ==
  /\ ToSet(<<>>) = {}
  /\ \A S : \A s \in Seq(S) : \A x : x \in ToSet(s) <=> \E i \in 1..Len(s) : s[i] = x
  /\ \A S : \A s \in Seq(S) : ToSet(s) \subseteq S
  /\ \A S : \A s \in Seq(S), e \in S : ToSet(Append(s, e)) = ToSet(s) \union {e}
  /\ \A S : \A s \in Seq(S) : s # <<>> =>
       /\ Head(s) \in S /\ Tail(s) \in Seq(S) /\ ToSet(s) = {Head(s)} \union ToSet(Tail(s))
<1>1. ToSet(<<>>) = {}
  BY DEF ToSet
<1>2. ASSUME NEW S, NEW s \in Seq(S), NEW x
      PROVE  x \in ToSet(s) <=> \E i \in 1..Len(s) : s[i] = x
  BY DEF ToSet
<1>3. ASSUME NEW S, NEW s \in Seq(S), NEW e \in S
      PROVE  ToSet(Append(s, e)) = ToSet(s) \union {e}
  <2>1. /\ Append(s, e) \in Seq(S) /\ Len(Append(s, e)) = Len(s) + 1
        /\ \A i \in 1..Len(s) : Append(s, e)[i] = s[i]
        /\ Append(s, e)[Len(s) + 1] = e
    BY AppendProperties
  <2>2. \A x : x \in ToSet(Append(s, e)) <=> \E i \in 1 .. Len(s) + 1 : Append(s, e)[i] = x
    <3>1. \A x : x \in ToSet(Append(s, e)) <=>
                   \E i \in 1..Len(Append(s, e)) : Append(s, e)[i] = x
      BY <1>2, <2>1
    <3>2. QED
      BY <2>1, <3>1
  <2>3. \A x : x \in ToSet(s) <=> \E i \in 1..Len(s) : s[i] = x
    BY <1>2
  <2>4. Len(s) \in Nat
    OBVIOUS
  <2>5. QED
    BY <2>1, <2>2, <2>3, <2>4
<1>4. ASSUME NEW S, NEW s \in Seq(S), s # <<>>
      PROVE  /\ Head(s) \in S /\ Tail(s) \in Seq(S)
             /\ ToSet(s) = {Head(s)} \union ToSet(Tail(s))
  <2>1. /\ Head(s) \in S /\ Tail(s) \in Seq(S) /\ Len(Tail(s)) = Len(s) - 1
        /\ \A i \in 1..Len(Tail(s)) : Tail(s)[i] = s[i + 1]
    BY <1>4, HeadTailProperties
  <2>2. Len(s) \in Nat /\ Len(s) >= 1 /\ Head(s) = s[1]
    BY <1>4
  <2>3. ASSUME NEW x \in ToSet(s) PROVE x = Head(s) \/ x \in ToSet(Tail(s))
    <3>1. PICK i \in 1..Len(s) : s[i] = x
      BY <1>2
    <3>2. CASE i = 1
      BY <2>2, <3>1, <3>2
    <3>3. CASE i # 1
      <4>1. i - 1 \in 1..Len(Tail(s)) /\ Tail(s)[i - 1] = s[i]
        BY <2>1, <2>2, <3>3
      <4>2. QED
        BY <1>2, <2>1, <3>1, <4>1
    <3>4. QED
      BY <3>2, <3>3
  <2>4. Head(s) \in ToSet(s)
    BY <1>2, <2>2
  <2>5. ASSUME NEW x \in ToSet(Tail(s)) PROVE x \in ToSet(s)
    <3>1. PICK i \in 1..Len(Tail(s)) : Tail(s)[i] = x
      BY <1>2, <2>1
    <3>2. i + 1 \in 1..Len(s) /\ s[i + 1] = x
      BY <2>1, <2>2, <3>1
    <3>3. QED
      BY <1>2, <3>2
  <2>6. QED
    BY <2>1, <2>3, <2>4, <2>5
<1>5. ASSUME NEW S, NEW s \in Seq(S) PROVE ToSet(s) \subseteq S
  <2>1. \A i \in 1..Len(s) : s[i] \in S
    OBVIOUS
  <2>2. QED
    BY <1>2, <2>1
<1>6. QED
  BY <1>1, <1>2, <1>3, <1>4, <1>5

\* SelectInSeq finds the number it looks for.
LEMMA FirstEntry ==
  ASSUME NEW S, NEW s \in Seq(S), NEW f \in ToSet(s)
  PROVE  SelectInSeq(s, LAMBDA x : x = f) \in {i \in 1..Len(s) : s[i] = f}
<1> DEFINE I == {i \in 1..Len(s) : s[i] = f}
<1>1. I # {} /\ I \subseteq Nat
  BY DEF ToSet
<1>2. \E n \in I : \A m \in I : n <= m
  <2> DEFINE R == OpToRel(<, Nat)
  <2>1. IsWellFoundedOn(R, Nat)
    BY NatLessThanWellFounded
  <2>2. \A m, n \in Nat : m < n => <<m, n>> \in R
    BY DEF OpToRel
  <2> HIDE DEF R
  <2>3. PICK n \in I : \A m \in I : <<m, n>> \notin R
    BY <1>1, <2>1, WFMin
  <2> HIDE DEF I
  <2>4. \A m \in I : n <= m
    <3>1. SUFFICES ASSUME NEW m \in I PROVE n <= m
      OBVIOUS
    <3>2. m \in Nat /\ n \in Nat /\ ~(m < n)
      BY <1>1, <2>2, <2>3
    <3>3. QED
      BY <3>2
  <2>5. QED
    BY <2>4
<1>3. Min(I) \in I
  BY <1>2 DEF Min
<1>4. QED
  BY <1>1, <1>3 DEF SelectInSeq

\* The last entry takes the place of the one taken out.
LEMMA EntryTakenOut ==
  ASSUME NEW S, NEW s \in Seq(S), NEW i \in 1..Len(s)
  PROVE  LET r == Front([s EXCEPT ![i] = Last(s)])
         IN  /\ r \in Seq(S) /\ Len(r) = Len(s) - 1
             /\ \A k \in 1..Len(r) : r[k] = IF k = i THEN s[Len(s)] ELSE s[k]
<1> DEFINE e == [s EXCEPT ![i] = Last(s)]
<1>1. Len(s) \in Nat /\ Len(s) >= 1
  OBVIOUS
<1>2. Last(s) \in S
  BY <1>1 DEF Last
<1>3. e \in Seq(S) /\ Len(e) = Len(s) /\ \A k \in 1..Len(s) : e[k] = IF k = i THEN Last(s) ELSE s[k]
  BY <1>2, ExceptSeq
<1> HIDE DEF e
<1>4. \A k \in 1 .. Len(s) - 1 : e[k] \in S
  BY <1>1, <1>3
<1>5. /\ SubSeq(e, 1, Len(e) - 1) \in Seq(S) /\ Len(SubSeq(e, 1, Len(e) - 1)) = Len(s) - 1
      /\ \A k \in 1 .. Len(s) - 1 : SubSeq(e, 1, Len(e) - 1)[k] = e[k]
  BY <1>1, <1>3, <1>4, SubSeqProperties
<1>6. QED
  BY <1>1, <1>3, <1>5 DEF Front, Last, e

(***************************************************************************)
(* What a conjunct of the invariant depends on.                            *)
(***************************************************************************)

\* A step that changes none of the variables a part reads keeps that part.
LEMMA Unmoved ==
  /\ /\ StopLeavesNothing
     /\ UNCHANGED <<main, impl, accepter, thread, fdt, clients, backlog, node>>
     => StopLeavesNothing'
  /\ PhaseInv /\ UNCHANGED <<main, impl, accepter, todo>> => PhaseInv'
  /\ ListenInv /\ UNCHANGED <<fdt, impl, main, backlog, accepter>> => ListenInv'
  /\ WaitInv /\ UNCHANGED <<backlog, thread, fdt>> => WaitInv'
  /\ AcceptInv /\ UNCHANGED <<thread, accepter>> => AcceptInv'
  /\ OwnerInv /\ UNCHANGED <<thread, fdOf, fdt, main>> => OwnerInv'
  /\ ListInv /\ UNCHANGED <<main, clients, thread, fdOf, fdt>> => ListInv'
  /\ ClosingInv /\ UNCHANGED <<main, fdt, todo, clients>> => ClosingInv'
  /\ DueInv /\ UNCHANGED <<main, due, peer, backlog, thread, fdOf, todo, sending>> => DueInv'
<1>1. /\ StopLeavesNothing
      /\ UNCHANGED <<main, impl, accepter, thread, fdt, clients, backlog, node>>
      => StopLeavesNothing'
  BY DEF StopLeavesNothing
<1>2. PhaseInv /\ UNCHANGED <<main, impl, accepter, todo>> => PhaseInv'
  BY DEF PhaseInv, Stopping
<1>3. ListenInv /\ UNCHANGED <<fdt, impl, main, backlog, accepter>> => ListenInv'
  BY DEF ListenInv, Listening
<1>4. WaitInv /\ UNCHANGED <<backlog, thread, fdt>> => WaitInv'
  BY DEF WaitInv
<1>5. AcceptInv /\ UNCHANGED <<thread, accepter>> => AcceptInv'
  BY DEF AcceptInv
<1>6. OwnerInv /\ UNCHANGED <<thread, fdOf, fdt, main>> => OwnerInv'
  BY DEF OwnerInv
<1>7. ListInv /\ UNCHANGED <<main, clients, thread, fdOf, fdt>> => ListInv'
  BY DEF ListInv, Placing, InList, Entry
<1>8. ClosingInv /\ UNCHANGED <<main, fdt, todo, clients>> => ClosingInv'
  BY DEF ClosingInv
<1>9. DueInv /\ UNCHANGED <<main, due, peer, backlog, thread, fdOf, todo, sending>> => DueInv'
  BY DEF DueInv
<1>10. QED
  BY <1>1, <1>2, <1>3, <1>4, <1>5, <1>6, <1>7, <1>8, <1>9

\* The main thread goes on without touching a connection or the list.
LEMMA MainMoves ==
  ASSUME OwnerInv, ListInv, UNCHANGED <<thread, fdOf, fdt, clients>>,
         main \notin {"clients", "joinClients", "joinAccept"},
         main' \notin {"clients", "joinClients"},
         main = "listener" => main' = "joinAccept"
  PROVE  OwnerInv' /\ ListInv'
<1>1. OwnerInv'
  BY DEF OwnerInv
<1>2. ListInv'
  BY DEF ListInv, Placing, InList, Entry
<1>3. QED
  BY <1>1, <1>2

(***************************************************************************)
(* Types.                                                                  *)
(***************************************************************************)

\* A thread that has a number has one of the process's.
LEMMA NumberTyped == IInv => \A c \in Conns : thread[c] # "none" => fdOf[c] \in Fds
BY DEF IInv, OwnerInv

\* The process's end keeps the types.
LEMMA ProcessEndsTyped == TypeOK /\ ProcessEnds /\ crashed' \in BOOLEAN => TypeOK'
<1> SUFFICES ASSUME TypeOK, ProcessEnds, crashed' \in BOOLEAN PROVE TypeOK'
  OBVIOUS
<1>1. impl' \in BOOLEAN
  BY Zenon DEF ProcessEnds
<1>2. todo' \in Seq(Fds) /\ clients' \in Seq(Fds) /\ backlog' \in Seq(Conns)
  BY DEF ProcessEnds
<1>3. QED
  BY <1>1, <1>2 DEF ProcessEnds, TypeOK, MainSteps

\* So do the steps of Start, Stop and Broadcast,
LEMMA MainTyped ==
  ASSUME TypeOK, PhaseInv, Start \/ StartFails \/ StopSteps \/ Broadcast
  PROVE  TypeOK'
<1> USE DEF server, threads, kernel, history, MainSteps
<1>1. CASE Start
  <2>1. impl' \in BOOLEAN /\ crashed' \in BOOLEAN
    BY <1>1, Zenon DEF Start
  <2>2. QED
    BY <1>1, <2>1 DEF Start, TypeOK
<1>2. CASE StartFails
  BY <1>2 DEF StartFails, TypeOK
<1>3. CASE StopBegin
  <2>1. impl' \in BOOLEAN
    BY <1>3, Zenon DEF StopBegin
  <2>2. QED
    BY <1>3, <2>1 DEF StopBegin, TypeOK
<1>4. CASE CloseListener
  BY <1>4 DEF CloseListener, TypeOK
<1>5. CASE JoinAccept
  BY <1>5 DEF JoinAccept, TypeOK
<1>6. CASE CloseClient
  BY <1>6, SetOfSeq DEF CloseClient, TypeOK
<1>7. CASE ClientsClosed
  BY <1>7 DEF ClientsClosed, TypeOK
<1>8. CASE StopEnd
  BY <1>8 DEF StopEnd, TypeOK
<1>9. CASE BroadcastBegin
  BY <1>9 DEF BroadcastBegin, TypeOK
<1>10. CASE SendNext
  BY <1>10, SetOfSeq DEF SendNext, TypeOK
<1>11. CASE SendWaits
  BY <1>11 DEF SendWaits, TypeOK
<1>12. CASE SendResumes
  <2>1. todo # <<>> /\ Tail(todo) \in Seq(Fds)
    BY <1>12, SetOfSeq DEF SendResumes, PhaseInv, TypeOK
  <2>2. QED
    BY <1>12, <2>1 DEF SendResumes, TypeOK
<1>13. CASE BroadcastEnd
  BY <1>13 DEF BroadcastEnd, TypeOK
<1>14. QED
  BY <1>1, <1>2, <1>3, <1>4, <1>5, <1>6, <1>7, <1>8, <1>9, <1>10, <1>11, <1>12, <1>13
     DEF StopSteps, Broadcast

\* those of the accept thread,
LEMMA AcceptorTyped == ASSUME IInv, Acceptor PROVE TypeOK'
<1> USE DEF server, threads, kernel, history, MainSteps
<1>1. TypeOK
  BY DEF IInv
<1>2. CASE AcceptBegin
  BY <1>1, <1>2 DEF AcceptBegin, TypeOK
<1>3. CASE AcceptCrashes
  <2>1. crashed' \in BOOLEAN
    BY <1>3, Zenon DEF AcceptCrashes
  <2>2. QED
    BY <1>1, <1>3, <2>1, ProcessEndsTyped DEF AcceptCrashes
<1>4. CASE AcceptLoop
  BY <1>1, <1>4 DEF AcceptLoop, TypeOK
<1>5. CASE Accept
  <2>1. Head(backlog) \in Conns /\ Tail(backlog) \in Seq(Conns)
    BY <1>1, <1>5, SetOfSeq DEF Accept, TypeOK
  <2>2. backlog' \in Seq(Conns)
    BY <1>5, <2>1 DEF Accept
  <2>3. QED
    BY <1>1, <1>5, <2>1, <2>2 DEF Accept, TypeOK, FreeFds
<1>6. CASE AcceptFails
  BY <1>1, <1>6 DEF AcceptFails, TypeOK
<1>7. CASE Push
  <2>1. PICK c \in Conns : /\ thread[c] = "accepted" /\ clients' = Append(clients, fdOf[c])
                           /\ thread' = [thread EXCEPT ![c] = "call"]
    BY <1>7 DEF Push
  <2>2. fdOf[c] \in Fds
    BY <2>1, NumberTyped
  <2>3. clients' \in Seq(Fds)
    BY <1>1, <2>1, <2>2, AppendProperties DEF TypeOK
  <2>4. QED
    BY <1>1, <1>7, <2>1, <2>3 DEF Push, TypeOK
<1>8. QED
  BY <1>2, <1>3, <1>4, <1>5, <1>6, <1>7 DEF Acceptor

\* the removal of a list entry,
LEMMA RemoveOwnTyped ==
  ASSUME TypeOK, NEW c \in Conns, RemoveOwn(c)
  PROVE  clients' \in Seq(Fds)
<1>1. CASE fdOf[c] \in ToSet(clients)
  <2> DEFINE i == SelectInSeq(clients, LAMBDA f : f = fdOf[c])
  <2>1. i \in 1..Len(clients)
    BY <1>1, FirstEntry DEF TypeOK
  <2>2. clients' = Front([clients EXCEPT ![i] = Last(clients)])
    BY <1>1 DEF RemoveOwn
  <2> HIDE DEF i
  <2>3. QED
    BY <2>1, <2>2, EntryTakenOut DEF TypeOK
<1>2. CASE fdOf[c] \notin ToSet(clients)
  BY <1>2 DEF RemoveOwn, TypeOK
<1>3. QED
  BY <1>1, <1>2

\* recv waits on the connection, on another's, or fails.
LEMMA CallRecvGoes ==
  ASSUME NEW c \in Conns, CallRecv(c)
  PROVE  \/ fdt[fdOf[c]] = c /\ thread' = [thread EXCEPT ![c] = "recv"]
         \/ fdt[fdOf[c]] # c /\ thread' = [thread EXCEPT ![c] = "drop"]
         \/ fdt[fdOf[c]] # c /\ thread' = [thread EXCEPT ![c] = "foreign"]
<1>1. c # "free"
  BY ConnsAssumption
<1>2. CASE fdt[fdOf[c]] = c
  BY <1>1, <1>2 DEF CallRecv, GoTo
<1>3. CASE fdt[fdOf[c]] = "free"
  BY <1>1, <1>3 DEF CallRecv, GoTo
<1>4. CASE fdt[fdOf[c]] # c /\ fdt[fdOf[c]] # "free"
  BY <1>4 DEF CallRecv, GoTo
<1>5. QED
  BY <1>1, <1>2, <1>3, <1>4

\* and those of the client threads.
LEMMA ClientTyped ==
  ASSUME IInv, NEW c \in Conns, ClientRuns(c) \/ ClientHears(c) \/ Guest(c)
  PROVE  TypeOK'
<1> USE DEF server, threads, kernel, history, MainSteps, GoTo, Ends
<1>1. TypeOK
  BY DEF IInv
<1>2. CASE CallRecv(c)
  <2>1. PICK to \in {"recv", "drop", "foreign"} : thread' = [thread EXCEPT ![c] = to]
    BY <1>2, CallRecvGoes
  <2>2. QED
    BY <1>1, <1>2, <2>1 DEF CallRecv, TypeOK
<1>3. CASE EndOfFile(c) \/ ForeignData(c) \/ BadFrame(c)
  BY <1>1, <1>3 DEF EndOfFile, ForeignData, BadFrame, TypeOK
<1>4. CASE Receive(c)
  BY <1>1, <1>4 DEF Receive, TypeOK
<1>5. CASE Drop(c)
  BY <1>1, <1>5 DEF Drop, TypeOK
<1>6. CASE CloseOwn(c)
  BY <1>1, <1>6 DEF CloseOwn, TypeOK
<1>7. CASE RemoveOwn(c)
  BY <1>1, <1>7, RemoveOwnTyped DEF RemoveOwn, TypeOK
<1>8. CASE Connect(c)
  BY <1>1, <1>8, AppendProperties DEF Connect, TypeOK
<1>9. CASE GuestCloses(c)
  BY <1>1, <1>9 DEF GuestCloses, TypeOK
<1>10. QED
  BY <1>2, <1>3, <1>4, <1>5, <1>6, <1>7, <1>8, <1>9 DEF ClientRuns, ClientHears, Guest

\* Every step keeps the types.
LEMMA TypeStep == IInv /\ [Next]_vars => TypeOK'
<1> SUFFICES ASSUME IInv, [Next]_vars PROVE TypeOK'
  OBVIOUS
<1>1. TypeOK /\ PhaseInv
  BY DEF IInv
<1>2. CASE StrangerOpens \/ StrangerCloses
  BY <1>1, <1>2 DEF StrangerOpens, StrangerCloses, TypeOK, server, threads, history
<1>3. CASE HostDies
  <2>1. ProcessEnds /\ crashed' \in BOOLEAN
    BY <1>1, <1>3 DEF HostDies, TypeOK
  <2>2. QED
    BY <1>1, <2>1, ProcessEndsTyped
<1>4. CASE UNCHANGED vars
  BY <1>1, <1>4 DEF vars, server, threads, kernel, history, TypeOK
<1>5. QED
  BY <1>1, <1>2, <1>3, <1>4, MainTyped, AcceptorTyped, ClientTyped DEF Next

(***************************************************************************)
(* The steps of the main thread.                                           *)
(***************************************************************************)

\* With no server and no call in progress there is nothing to go wrong.
LEMMA QuietFacts ==
  ASSUME IInv, main = "idle", ~impl
  PROVE  /\ accepter = "none" /\ clients = <<>> /\ backlog = <<>>
         /\ \A c \in Conns : thread[c] = "none"
         /\ \A f \in Fds : fdt[f] \in {"free", "stranger"}
         /\ \A f \in Fds : fdt[f] \notin Conns
<1>1. StopLeavesNothing
  BY DEF IInv
<1>2. QED
  BY <1>1, ConnsAssumption DEF StopLeavesNothing, IInv, TypeOK

\* Start begins with nothing left of an earlier server.
LEMMA StartStep == ASSUME IInv, Start PROVE IInv'
<1>1. TypeOK'
  BY TypeStep DEF Next
<1>2. /\ main' = "idle" /\ impl' /\ accepter' = "begin" /\ clients' = <<>> /\ backlog' = <<>>
      /\ \A c \in Conns : thread'[c] = "none"
  BY QuietFacts DEF Start, threads
<1>3. \A f \in Fds : fdt'[f] \notin Conns
  <2>1. PICK f \in FreeFds : fdt' = [fdt EXCEPT ![f] = "listen"]
    BY DEF Start
  <2>2. \A g \in Fds : fdt[g] \notin Conns
    BY QuietFacts DEF Start
  <2>3. QED
    BY <2>1, <2>2, ConnsAssumption DEF IInv, TypeOK
<1>4. StopLeavesNothing' /\ PhaseInv' /\ ListenInv'
  BY <1>2 DEF StopLeavesNothing, PhaseInv, Stopping, ListenInv
<1>5. WaitInv' /\ AcceptInv'
  BY <1>2, SetOfSeq DEF WaitInv, AcceptInv
<1>6. OwnerInv'
  BY <1>2, <1>3 DEF OwnerInv, Owning
<1>7. ListInv'
  <2>1. \A c \in Conns : ~InList(c)'
    BY <1>2, <1>3 DEF InList
  <2>2. [c \in Conns |-> 0] \in [Conns -> 0..Len(clients')]
    BY <1>2
  <2>3. Placing([c \in Conns |-> 0])'
    BY <2>1 DEF Placing
  <2>4. QED
    BY <2>2, <2>3 DEF ListInv
<1>8. ClosingInv' /\ DueInv'
  BY <1>2 DEF ClosingInv, DueInv
<1>9. QED
  BY <1>1, <1>4, <1>5, <1>6, <1>7, <1>8 DEF IInv

\* A Start that fails leaves nothing behind.
LEMMA StartFailsStep == ASSUME IInv, StartFails PROVE IInv'
<1>1. TypeOK'
  BY TypeStep DEF Next
<1>2. StopLeavesNothing'
  BY DEF IInv, StopLeavesNothing, StartFails, server, threads
<1>3. QED
  BY <1>1, <1>2, Unmoved DEF IInv, StartFails, server, threads, history

\* Stop clears impl_ first.
LEMMA StopBeginStep == ASSUME IInv, StopBegin PROVE IInv'
<1>1. TypeOK'
  BY TypeStep DEF Next, StopSteps
<1>2. StopLeavesNothing' /\ PhaseInv' /\ ClosingInv' /\ DueInv'
  BY DEF StopBegin, StopLeavesNothing, PhaseInv, Stopping, ClosingInv, DueInv
<1>3. ListenInv'
  BY DEF IInv, ListenInv, Listening, StopBegin, kernel
<1>4. OwnerInv' /\ ListInv'
  BY MainMoves DEF IInv, StopBegin, threads, kernel
<1>5. QED
  BY <1>1, <1>2, <1>3, <1>4, Unmoved DEF IInv, StopBegin, threads, kernel

\* The listener goes, and with it who waits behind it.
LEMMA CloseListenerStep == ASSUME IInv, CloseListener PROVE IInv'
<1>1. TypeOK'
  BY TypeStep DEF Next, StopSteps
<1>2. /\ main = "listener" /\ main' = "joinAccept" /\ UNCHANGED <<impl, threads, clients, accepter>>
      /\ fdt' = [f \in Fds |-> IF fdt[f] = "listen" THEN "free" ELSE fdt[f]]
      /\ backlog' = IF accepter = "accept" THEN backlog ELSE <<>>
  BY DEF CloseListener
<1>3. \A c \in Conns, f \in Fds : fdt'[f] = c <=> fdt[f] = c
  BY <1>2, ConnsAssumption
<1>4. StopLeavesNothing' /\ PhaseInv' /\ ClosingInv' /\ DueInv'
  BY <1>2 DEF IInv, StopLeavesNothing, PhaseInv, Stopping, ClosingInv, DueInv
<1>5. ListenInv'
  BY <1>2 DEF ListenInv, Listening
<1>6. WaitInv'
  <2>1. ToSet(backlog) \subseteq Conns /\ ToSet(backlog') \subseteq ToSet(backlog)
    <3>1. ToSet(backlog) \subseteq Conns /\ ToSet(<<>>) = {}
      BY SetOfSeq DEF IInv, TypeOK
    <3>2. QED
      BY <1>2, <3>1
  <2>2. QED
    BY <1>2, <1>3, <2>1 DEF IInv, WaitInv, threads
<1>7. AcceptInv'
  BY <1>2, Unmoved DEF IInv, threads
<1>8. OwnerInv'
  <2>1. OwnerInv
    BY DEF IInv
  <2>2. \A f, g \in Fds : fdt'[f] = fdt'[g] /\ fdt'[f] \in Conns => f = g
    BY <1>3, <2>1 DEF OwnerInv
  <2>3. \A c \in Conns : thread'[c] \in Owning => fdt'[fdOf'[c]] = c
    BY <1>2, <1>3, <2>1 DEF OwnerInv, threads, Owning
  <2>4. QED
    BY <1>2, <1>3, <2>1, <2>2, <2>3 DEF OwnerInv, threads
<1>9. ListInv'
  <2>1. PICK pos \in [Conns -> 0..Len(clients)] : Placing(pos)
    BY <1>2 DEF IInv, ListInv
  <2>2. \A c \in Conns : InList(c)' <=> InList(c)
    BY <1>2, <1>3 DEF InList, threads
  <2>3. \A c \in Conns, f \in Fds : Entry(c, f) => Entry(c, f)'
    BY <1>2, <1>3 DEF Entry, threads
  <2>4. \A k \in 1..Len(clients) : clients[k] \in Fds
    BY DEF IInv, TypeOK
  <2>5. Placing(pos)'
    BY <1>2, <2>1, <2>2, <2>3, <2>4 DEF Placing
  <2>6. QED
    BY <1>2, <2>1, <2>5 DEF ListInv
<1>10. QED
  BY <1>1, <1>4, <1>5, <1>6, <1>7, <1>8, <1>9 DEF IInv

\* Who has a descriptor when the accept thread has ended has an entry in the list.
LEMMA OwnersAreListed ==
  ASSUME IInv, main \notin {"clients", "joinClients"}, accepter # "push",
         NEW f \in Fds, fdt[f] \in Conns
  PROVE  f \in ToSet(clients)
<1> DEFINE c == fdt[f]
<1>1. PICK pos \in [Conns -> 0..Len(clients)] : Placing(pos)
  BY DEF IInv, ListInv
<1>2. thread[c] = "none" \/ (thread[c] \in Owning /\ fdOf[c] = f)
  BY DEF IInv, OwnerInv
<1>3. thread[c] # "accepted"
  BY DEF IInv, AcceptInv
<1>4. InList(c)
  BY <1>2, <1>3 DEF InList, Owning
<1>5. pos[c] \in 1..Len(clients) /\ Entry(c, clients[pos[c]])
  BY <1>1, <1>4 DEF Placing
<1>6. clients[pos[c]] \in Fds
  BY <1>5 DEF IInv, TypeOK
<1>7. clients[pos[c]] = f
  BY <1>2, <1>5, <1>6 DEF Entry, IInv, OwnerInv
<1>8. QED
  BY <1>5, <1>7, SetOfSeq DEF IInv, TypeOK

\* From the end of the accept thread on, nobody is added to the list.
LEMMA JoinAcceptStep == ASSUME IInv, JoinAccept PROVE IInv'
<1>1. TypeOK'
  BY TypeStep DEF Next, StopSteps
<1>2. /\ main = "joinAccept" /\ main' = "clients" /\ accepter = "none" /\ todo' = clients
      /\ UNCHANGED <<impl, clients, accepter, thread, fdOf, kernel>>
  BY DEF JoinAccept, threads
<1>3. StopLeavesNothing' /\ PhaseInv' /\ DueInv' /\ ListInv'
  BY <1>2 DEF IInv, StopLeavesNothing, PhaseInv, Stopping, DueInv, ListInv
<1>4. ListenInv'
  BY <1>2 DEF IInv, ListenInv, Listening, kernel
<1>5. OwnerInv'
  BY <1>2 DEF IInv, OwnerInv, kernel
<1>6. ClosingInv'
  BY <1>2, OwnersAreListed DEF ClosingInv, kernel
<1>7. QED
  BY <1>1, <1>2, <1>3, <1>4, <1>5, <1>6, Unmoved DEF IInv, kernel

\* One entry after the other is closed, until none has a descriptor.
LEMMA CloseClientStep == ASSUME IInv, CloseClient PROVE IInv'
<1>1. TypeOK'
  BY TypeStep DEF Next, StopSteps
<1>2. /\ main = "clients" /\ ~impl /\ todo' = Tail(todo)
      /\ Head(todo) \in Fds /\ ToSet(todo) = {Head(todo)} \union ToSet(Tail(todo))
      /\ fdt' = [fdt EXCEPT ![Head(todo)] = "free"]
      /\ UNCHANGED <<impl, main, clients, accepter, sending, thread, fdOf, backlog, peer>>
  BY SetOfSeq DEF CloseClient, threads, IInv, TypeOK, PhaseInv, Stopping
<1>3. \A f \in Fds : fdt'[f] = IF f = Head(todo) THEN "free" ELSE fdt[f]
  BY <1>2 DEF IInv, TypeOK
<1>4. \A c \in Conns, f \in Fds : fdt'[f] = c <=> fdt[f] = c /\ f # Head(todo)
  BY <1>3, ConnsAssumption
<1>5. StopLeavesNothing' /\ PhaseInv' /\ ListInv' /\ DueInv'
  BY <1>2 DEF IInv, StopLeavesNothing, PhaseInv, Stopping, ListInv, DueInv
<1>6. ListenInv'
  BY <1>2, <1>3 DEF IInv, ListenInv, Listening
<1>7. WaitInv'
  <2>1. ToSet(backlog) \subseteq Conns
    BY SetOfSeq DEF IInv, TypeOK
  <2>2. QED
    BY <1>2, <1>4, <2>1 DEF IInv, WaitInv
<1>8. OwnerInv'
  BY <1>2, <1>4 DEF IInv, OwnerInv
<1>9. ClosingInv'
  BY <1>2, <1>4 DEF IInv, ClosingInv
<1>10. QED
  BY <1>1, <1>2, <1>5, <1>6, <1>7, <1>8, <1>9, Unmoved DEF IInv

\* The list is emptied when everything in it is closed.
LEMMA ClientsClosedStep == ASSUME IInv, ClientsClosed PROVE IInv'
<1>1. TypeOK'
  BY TypeStep DEF Next, StopSteps
<1>2. /\ main = "clients" /\ main' = "joinClients" /\ todo = <<>> /\ clients' = <<>> /\ ~impl
      /\ UNCHANGED <<impl, accepter, sending, thread, fdOf, fdt, backlog, peer, node>>
  BY DEF ClientsClosed, threads, kernel, IInv, PhaseInv, Stopping
<1>3. \A f \in Fds : fdt[f] \notin Conns
  BY <1>2, SetOfSeq DEF IInv, ClosingInv
<1>4. StopLeavesNothing' /\ PhaseInv' /\ ListInv' /\ DueInv'
  BY <1>2 DEF IInv, StopLeavesNothing, PhaseInv, Stopping, ListInv, DueInv
<1>5. ListenInv'
  BY <1>2 DEF IInv, ListenInv, Listening
<1>6. OwnerInv'
  BY <1>2, <1>3 DEF IInv, OwnerInv
<1>7. ClosingInv'
  BY <1>2, <1>3 DEF ClosingInv
<1>8. QED
  BY <1>1, <1>2, <1>4, <1>5, <1>6, <1>7, Unmoved DEF IInv

\* Stop returns when the last client thread has ended.
LEMMA StopEndStep == ASSUME IInv, StopEnd PROVE IInv'
<1>1. TypeOK'
  BY TypeStep DEF Next, StopSteps
<1>2. /\ main = "joinClients" /\ main' = "idle" /\ ~impl /\ node' = "none"
      /\ accepter = "none" /\ clients = <<>>
      /\ \A c \in Conns : thread[c] = "none"
      /\ \A f \in Fds : fdt[f] \notin Conns
      /\ UNCHANGED <<impl, accepter, clients, thread, fdOf, fdt, backlog>>
  BY DEF StopEnd, threads, IInv, PhaseInv, Stopping, ClosingInv
<1>3. ~Listening /\ backlog = <<>>
  BY <1>2 DEF IInv, ListenInv
<1>4. \A f \in Fds : fdt[f] \in {"free", "stranger"}
  BY <1>2, <1>3 DEF IInv, TypeOK, Listening
<1>5. StopLeavesNothing'
  BY <1>2, <1>3, <1>4 DEF StopLeavesNothing
<1>6. PhaseInv' /\ ClosingInv' /\ DueInv'
  BY <1>2 DEF PhaseInv, Stopping, ClosingInv, DueInv
<1>7. ListenInv'
  BY <1>2, <1>3, <1>4 DEF ListenInv, Listening
<1>8. OwnerInv'
  BY <1>2 DEF IInv, OwnerInv, Owning
<1>9. ListInv'
  <2>1. \A c \in Conns : ~InList(c)'
    BY <1>2 DEF InList
  <2>2. [c \in Conns |-> 0] \in [Conns -> 0..Len(clients')]
    BY <1>2
  <2>3. Placing([c \in Conns |-> 0])'
    BY <2>1 DEF Placing
  <2>4. QED
    BY <2>2, <2>3 DEF ListInv
<1>10. QED
  BY <1>1, <1>2, <1>5, <1>6, <1>7, <1>8, <1>9, Unmoved DEF IInv

\* Broadcast takes the number of every guest it owes its message.
LEMMA BroadcastBeginStep == ASSUME IInv, BroadcastBegin PROVE IInv'
<1>1. TypeOK'
  BY TypeStep DEF Next, Broadcast
<1>2. /\ main = "idle" /\ main' = "send" /\ impl /\ todo' = clients
      /\ due' = {c \in Conns : thread[c] \in {"call", "recv"} /\ peer[c] = "open"}
      /\ UNCHANGED <<impl, clients, accepter, sending, thread, fdOf, kernel>>
  BY DEF BroadcastBegin, threads
<1>3. StopLeavesNothing' /\ PhaseInv' /\ ClosingInv'
  BY <1>2 DEF StopLeavesNothing, PhaseInv, Stopping, ClosingInv
<1>4. ListenInv'
  BY <1>2 DEF IInv, ListenInv, Listening, kernel
<1>5. OwnerInv' /\ ListInv'
  BY <1>2, MainMoves DEF IInv, kernel
<1>6. DueInv'
  <2>1. PICK pos \in [Conns -> 0..Len(clients)] : Placing(pos)
    BY <1>2 DEF IInv, ListInv
  <2>2. ASSUME NEW c \in Conns, thread[c] \in {"call", "recv"}
        PROVE  fdOf[c] \in ToSet(clients)
    <3>1. pos[c] \in 1..Len(clients) /\ clients[pos[c]] = fdOf[c]
      BY <2>1, <2>2 DEF Placing, InList, Entry
    <3>2. QED
      BY <3>1, SetOfSeq DEF IInv, TypeOK
  <2>3. \A c \in ToSet(backlog) : thread[c] = "none"
    BY DEF IInv, WaitInv
  <2>4. QED
    BY <1>2, <2>2, <2>3 DEF DueInv, kernel
<1>7. QED
  BY <1>1, <1>2, <1>3, <1>4, <1>5, <1>6, Unmoved DEF IInv, kernel

\* A send takes the first number of the copied list.
LEMMA SendNextStep == ASSUME IInv, SendNext PROVE IInv'
<1>1. TypeOK'
  BY TypeStep DEF Next, Broadcast
<1>2. /\ main = "send" /\ todo' = Tail(todo) /\ due' = due \ {fdt[Head(todo)]}
      /\ ToSet(todo) = {Head(todo)} \union ToSet(Tail(todo))
      /\ UNCHANGED <<main, impl, clients, accepter, sending, thread, fdOf, kernel>>
  BY SetOfSeq DEF SendNext, threads, IInv, TypeOK
<1>3. PhaseInv' /\ ClosingInv'
  BY <1>2 DEF IInv, PhaseInv, Stopping, ClosingInv
<1>4. DueInv'
  <2>1. \A c \in Conns : thread[c] \in {"call", "recv"} => fdt[fdOf[c]] = c
    BY <1>2 DEF IInv, OwnerInv, Owning
  <2>2. due \subseteq Conns
    BY DEF IInv, TypeOK
  <2>3. QED
    BY <1>2, <2>1, <2>2 DEF IInv, DueInv, kernel
<1>5. QED
  BY <1>1, <1>2, <1>3, <1>4, Unmoved DEF IInv, kernel

\* A send that waits on a connection holds it; one on a stranger's socket is to nobody due.
LEMMA SendWaitsStep == ASSUME IInv, SendWaits PROVE IInv'
<1>1. TypeOK'
  BY TypeStep DEF Next, Broadcast
<1>2. /\ main = "send" /\ main' = "wait" /\ impl /\ todo # <<>> /\ sending' = fdt[Head(todo)]
      /\ ToSet(todo) = {Head(todo)} \union ToSet(Tail(todo))
      /\ UNCHANGED <<impl, todo, clients, accepter, thread, fdOf, kernel, due>>
  BY SetOfSeq DEF SendWaits, threads, history, IInv, TypeOK, PhaseInv
<1>3. StopLeavesNothing' /\ PhaseInv' /\ ClosingInv'
  BY <1>2 DEF StopLeavesNothing, PhaseInv, Stopping, ClosingInv
<1>4. ListenInv'
  BY <1>2 DEF IInv, ListenInv, Listening, kernel
<1>5. OwnerInv' /\ ListInv'
  BY <1>2, MainMoves DEF IInv, kernel
<1>6. DueInv'
  <2>1. \A c \in Conns : thread[c] \in {"call", "recv"} => fdt[fdOf[c]] = c
    BY <1>2 DEF IInv, OwnerInv, Owning
  <2>2. due \subseteq Conns
    BY DEF IInv, TypeOK
  <2>3. QED
    BY <1>2, <2>1, <2>2 DEF IInv, DueInv, kernel
<1>7. QED
  BY <1>1, <1>2, <1>3, <1>4, <1>5, <1>6, Unmoved DEF IInv, kernel

\* A send that has waited is over, and its number is behind it.
LEMMA SendResumesStep == ASSUME IInv, SendResumes PROVE IInv'
<1>1. TypeOK'
  BY TypeStep DEF Next, Broadcast
<1>2. /\ main = "wait" /\ main' = "send" /\ impl /\ todo' = Tail(todo)
      /\ due' = due \ {sending}
      /\ UNCHANGED <<impl, clients, accepter, thread, fdOf, kernel>>
  BY DEF SendResumes, threads, IInv, PhaseInv
<1>3. StopLeavesNothing' /\ PhaseInv' /\ ClosingInv'
  BY <1>2 DEF StopLeavesNothing, PhaseInv, Stopping, ClosingInv
<1>4. ListenInv'
  BY <1>2 DEF IInv, ListenInv, Listening, kernel
<1>5. OwnerInv' /\ ListInv'
  BY <1>2, MainMoves DEF IInv, kernel
<1>6. DueInv'
  BY <1>2 DEF IInv, DueInv, kernel
<1>7. QED
  BY <1>1, <1>2, <1>3, <1>4, <1>5, <1>6, Unmoved DEF IInv, kernel

\* A Broadcast ends with the copied list.
LEMMA BroadcastEndStep == ASSUME IInv, BroadcastEnd PROVE IInv'
<1>1. TypeOK'
  BY TypeStep DEF Next, Broadcast
<1>2. /\ main = "send" /\ main' = "idle" /\ impl
      /\ UNCHANGED <<impl, todo, clients, accepter, thread, fdOf, kernel>>
  BY DEF BroadcastEnd, threads, IInv, PhaseInv
<1>3. StopLeavesNothing' /\ PhaseInv' /\ ClosingInv' /\ DueInv'
  BY <1>2 DEF StopLeavesNothing, PhaseInv, Stopping, ClosingInv, DueInv
<1>4. ListenInv'
  BY <1>2 DEF IInv, ListenInv, Listening, kernel
<1>5. OwnerInv' /\ ListInv'
  BY <1>2, MainMoves DEF IInv, kernel
<1>6. QED
  BY <1>1, <1>2, <1>3, <1>4, <1>5, Unmoved DEF IInv, kernel

\* The end of the process leaves nothing of the server.
LEMMA ProcessEndsStep == ASSUME IInv, TypeOK', ProcessEnds PROVE IInv'
<1>1. /\ main' = "idle" /\ ~impl' /\ accepter' = "none" /\ clients' = <<>> /\ backlog' = <<>>
      /\ node' # "bound" /\ thread' = [c \in Conns |-> "none"] /\ fdt' = [f \in Fds |-> "free"]
  BY DEF ProcessEnds
<1>2. /\ \A c \in Conns : thread'[c] = "none"
      /\ \A c \in Conns, f \in Fds : fdt'[f] = "free" /\ fdt'[f] # c
  BY <1>1, ConnsAssumption
<1>3. StopLeavesNothing'
  BY <1>1 DEF StopLeavesNothing
<1>4. PhaseInv' /\ ClosingInv' /\ DueInv'
  BY <1>1 DEF PhaseInv, Stopping, ClosingInv, DueInv
<1>5. ListenInv'
  BY <1>1 DEF ListenInv, Listening
<1>6. WaitInv' /\ AcceptInv'
  BY <1>1, <1>2, SetOfSeq DEF WaitInv, AcceptInv
<1>7. OwnerInv'
  BY <1>1, <1>2 DEF OwnerInv, Owning
<1>8. ListInv'
  <2>1. \A c \in Conns : ~InList(c)'
    BY <1>2 DEF InList
  <2>2. [c \in Conns |-> 0] \in [Conns -> 0..Len(clients')]
    BY <1>1
  <2>3. Placing([c \in Conns |-> 0])'
    BY <2>1 DEF Placing
  <2>4. QED
    BY <2>2, <2>3 DEF ListInv
<1>9. QED
  BY <1>3, <1>4, <1>5, <1>6, <1>7, <1>8 DEF IInv

\* Every step of the main thread keeps the invariant.
LEMMA MainStep ==
  ASSUME IInv, Start \/ StartFails \/ StopSteps \/ Broadcast
  PROVE  IInv'
BY StartStep, StartFailsStep, StopBeginStep, CloseListenerStep, JoinAcceptStep, CloseClientStep,
   ClientsClosedStep, StopEndStep, BroadcastBeginStep, SendNextStep, SendWaitsStep,
   SendResumesStep, BroadcastEndStep
DEF StopSteps, Broadcast

(***************************************************************************)
(* The steps of the accept thread.                                         *)
(***************************************************************************)

\* While it runs Stop has not come to the list, and an accept in progress is the only one.
LEMMA AcceptorFacts ==
  ASSUME IInv, accepter # "none"
  PROVE  /\ main \notin {"clients", "joinClients"} /\ ~(main = "idle" /\ ~impl)
         /\ accepter # "push" => \A c \in Conns : thread[c] # "accepted"
BY DEF IInv, PhaseInv, StopLeavesNothing, AcceptInv

\* The accept thread finds impl_ still there, or ends.
LEMMA AcceptBeginStep == ASSUME IInv, AcceptBegin \/ AcceptLoop PROVE IInv'
<1>1. TypeOK'
  BY TypeStep DEF Next, Acceptor
<1>2. /\ accepter \in {"begin", "loop"} /\ accepter' \in {"loop", "accept", "none"}
      /\ accepter' = "none" => accepter = "loop" /\ ~impl
      /\ UNCHANGED <<impl, main, todo, clients, sending, thread, fdOf, kernel, history>>
  BY DEF AcceptBegin, AcceptLoop, threads
<1>3. /\ main \notin {"clients", "joinClients"} /\ ~(main = "idle" /\ ~impl)
      /\ \A c \in Conns : thread[c] # "accepted"
  BY <1>2, AcceptorFacts
<1>4. StopLeavesNothing' /\ PhaseInv' /\ AcceptInv'
  BY <1>2, <1>3 DEF IInv, StopLeavesNothing, PhaseInv, Stopping, AcceptInv
<1>5. ListenInv'
  BY <1>2 DEF IInv, ListenInv, Listening, kernel
<1>6. QED
  BY <1>1, <1>2, <1>4, <1>5, Unmoved DEF IInv, kernel, history

\* An accept4 that fails takes no connection.
LEMMA AcceptFailsStep == ASSUME IInv, AcceptFails PROVE IInv'
<1>1. TypeOK'
  BY TypeStep DEF Next, Acceptor
<1>2. /\ accepter = "accept" /\ accepter' \in {"loop", "none"}
      /\ backlog' = IF Listening THEN backlog ELSE <<>>
      /\ UNCHANGED <<impl, main, todo, clients, sending, thread, fdOf, fdt, peer, history>>
  BY DEF AcceptFails, threads
<1>3. /\ main \notin {"clients", "joinClients"} /\ ~(main = "idle" /\ ~impl)
      /\ \A c \in Conns : thread[c] # "accepted"
  BY <1>2, AcceptorFacts
<1>4. StopLeavesNothing' /\ PhaseInv' /\ AcceptInv'
  BY <1>2, <1>3 DEF IInv, StopLeavesNothing, PhaseInv, Stopping, AcceptInv
<1>5. ListenInv'
  BY <1>2 DEF IInv, ListenInv, Listening
<1>6. WaitInv' /\ DueInv'
  <2>1. backlog' = backlog \/ (backlog' = <<>> /\ ToSet(backlog') = {})
    BY <1>2, SetOfSeq
  <2>2. WaitInv'
    BY <1>2, <2>1 DEF IInv, WaitInv
  <2>3. DueInv'
    BY <1>2, <2>1 DEF IInv, DueInv, history
  <2>4. QED
    BY <2>2, <2>3
<1>7. QED
  BY <1>1, <1>2, <1>4, <1>5, <1>6, Unmoved DEF IInv, history

\* A new connection gets a number that was free, and no other connection is touched.
LEMMA AcceptStep == ASSUME IInv, Accept PROVE IInv'
<1> DEFINE c == Head(backlog)
<1>1. TypeOK'
  BY TypeStep DEF Next, Acceptor
<1>2. PICK f \in FreeFds : /\ fdt' = [fdt EXCEPT ![f] = c]
                           /\ fdOf' = [fdOf EXCEPT ![c] = f]
                           /\ thread' = [thread EXCEPT ![c] = "accepted"]
  BY DEF Accept
<1>3. /\ accepter = "accept" /\ accepter' = "push" /\ backlog # <<>>
      /\ backlog' = IF Listening THEN Tail(backlog) ELSE <<>>
      /\ UNCHANGED <<impl, main, todo, clients, sending, peer, due>>
  BY DEF Accept, history
<1>4. /\ c \in Conns /\ c \in ToSet(backlog) /\ Tail(backlog) \in Seq(Conns)
      /\ ToSet(backlog) = {c} \union ToSet(Tail(backlog)) /\ c = backlog[1]
      /\ Len(Tail(backlog)) = Len(backlog) - 1
      /\ \A i \in 1..Len(Tail(backlog)) : Tail(backlog)[i] = backlog[i + 1]
  BY <1>3, SetOfSeq, HeadTailProperties DEF IInv, TypeOK
<1> HIDE DEF c
<1>5. thread[c] = "none" /\ \A g \in Fds : fdt[g] # c
  BY <1>4 DEF IInv, WaitInv
<1>6. f \in Fds /\ fdt[f] = "free" /\ \A d \in Conns : d \notin {"free", "listen"}
  BY ConnsAssumption DEF FreeFds, IInv, TypeOK
<1>7. /\ \A g \in Fds : fdt'[g] = IF g = f THEN c ELSE fdt[g]
      /\ \A d \in Conns : thread'[d] = IF d = c THEN "accepted" ELSE thread[d]
      /\ \A d \in Conns : fdOf'[d] = IF d = c THEN f ELSE fdOf[d]
  BY <1>2, <1>4, <1>6 DEF IInv, TypeOK
<1>8. /\ main \notin {"clients", "joinClients"} /\ ~(main = "idle" /\ ~impl)
      /\ \A d \in Conns : thread[d] # "accepted"
  BY <1>3, AcceptorFacts
<1>9. StopLeavesNothing' /\ PhaseInv' /\ ClosingInv'
  BY <1>3, <1>8 DEF IInv, StopLeavesNothing, PhaseInv, Stopping, ClosingInv
<1>10. AcceptInv'
  BY <1>3, <1>7, <1>8 DEF AcceptInv
<1>11. Listening' <=> Listening
  BY <1>4, <1>6, <1>7 DEF Listening
<1>12. ListenInv'
  BY <1>3, <1>11 DEF IInv, ListenInv
<1>13. WaitInv'
  <2>1. \A i, j \in 1..Len(backlog) : backlog[i] = backlog[j] => i = j
    BY DEF IInv, WaitInv
  <2>2. CASE Listening
    <3>1. backlog' = Tail(backlog) /\ Len(backlog) \in Nat
      BY <1>3, <2>2 DEF IInv, TypeOK
    <3>2. \A i, j \in 1..Len(backlog') : backlog'[i] = backlog'[j] => i = j
      BY <1>4, <2>1, <3>1
    <3>3. c \notin ToSet(backlog')
      <4>1. SUFFICES ASSUME NEW i \in 1..Len(backlog'), backlog'[i] = c PROVE FALSE
        <5>1. backlog' \in Seq(Conns)
          BY <1>4, <3>1
        <5>2. c \in ToSet(backlog') <=> \E i \in 1..Len(backlog') : backlog'[i] = c
          BY <5>1, SetOfSeq
        <5>3. QED
          BY <5>2
      <4>2. backlog[i + 1] = backlog[1] /\ i + 1 \in 1..Len(backlog) /\ 1 \in 1..Len(backlog)
        BY <1>4, <3>1, <4>1
      <4>3. i + 1 = 1
        BY <2>1, <4>2
      <4>4. QED
        BY <4>3
    <3>4. ToSet(backlog') \subseteq ToSet(backlog) /\ ToSet(backlog) \subseteq Conns
      BY <1>4, <3>1, SetOfSeq DEF IInv, TypeOK
    <3>5. \A d \in ToSet(backlog') : thread'[d] = "none" /\ \A g \in Fds : fdt'[g] # d
      BY <1>7, <3>3, <3>4 DEF IInv, WaitInv
    <3>6. QED
      BY <3>2, <3>5 DEF WaitInv
  <2>3. CASE ~Listening
    <3>1. backlog' = <<>> /\ ToSet(backlog') = {}
      BY <1>3, <2>3, SetOfSeq
    <3>2. QED
      BY <3>1 DEF WaitInv
  <2>4. QED
    BY <2>2, <2>3
<1>14. OwnerInv'
  <2>1. OwnerInv
    BY DEF IInv
  <2>2. \A d \in Conns : thread'[d] # "none" => fdOf'[d] \in Fds
    BY <1>6, <1>7, <2>1 DEF OwnerInv
  <2>3. \A d \in Conns, g \in Fds : fdt'[g] = d =>
          \/ thread'[d] \in Owning /\ fdOf'[d] = g
          \/ thread'[d] = "none" /\ main' \in {"listener", "joinAccept", "clients"}
    BY <1>3, <1>5, <1>7, <2>1 DEF OwnerInv, Owning
  <2>4. \A g, h \in Fds : fdt'[g] = fdt'[h] /\ fdt'[g] \in Conns => g = h
    BY <1>5, <1>7, <2>1 DEF OwnerInv
  <2>5. \A d \in Conns : thread'[d] # "foreign" /\ (thread'[d] \in Owning => fdt'[fdOf'[d]] = d)
    <3>1. \A d \in Conns : thread[d] \in Owning => fdOf[d] # f
      BY <1>6, <1>8, <2>1 DEF OwnerInv
    <3>2. QED
      BY <1>6, <1>7, <1>8, <2>1, <3>1 DEF OwnerInv, Owning
  <2>6. QED
    BY <2>2, <2>3, <2>4, <2>5 DEF OwnerInv
<1>15. ListInv'
  <2>1. PICK pos \in [Conns -> 0..Len(clients)] : Placing(pos)
    BY <1>8 DEF IInv, ListInv
  <2>2. \A d \in Conns : InList(d)' => InList(d) /\ d # c
    BY <1>5, <1>6, <1>7 DEF InList
  <2>3. \A d \in Conns, g \in Fds : d # c /\ Entry(d, g) => Entry(d, g)'
    BY <1>6, <1>7 DEF Entry
  <2>4. \A k \in 1..Len(clients) : clients[k] \in Fds
    BY DEF IInv, TypeOK
  <2>5. Placing(pos)'
    BY <1>3, <2>1, <2>2, <2>3, <2>4 DEF Placing
  <2>6. QED
    BY <1>3, <2>1, <2>5 DEF ListInv
<1>16. DueInv'
  <2>1. ToSet(backlog') \subseteq ToSet(backlog)
    BY <1>3, <1>4, SetOfSeq
  <2>2. due \subseteq Conns
    BY DEF IInv, TypeOK
  <2>3. QED
    BY <1>3, <1>4, <1>7, <2>1, <2>2 DEF IInv, DueInv
<1>17. QED
  BY <1>1, <1>9, <1>10, <1>12, <1>13, <1>14, <1>15, <1>16 DEF IInv

\* The accepted connection's thread starts, and its number is the last in the list.
LEMMA PushStep == ASSUME IInv, Push PROVE IInv'
<1>1. TypeOK'
  BY TypeStep DEF Next, Acceptor
<1>2. PICK c \in Conns : /\ thread[c] = "accepted" /\ clients' = Append(clients, fdOf[c])
                         /\ thread' = [thread EXCEPT ![c] = "call"]
  BY DEF Push
<1>3. /\ accepter = "push" /\ accepter' = "loop"
      /\ UNCHANGED <<impl, main, todo, sending, fdOf, fdt, backlog, peer, due>>
  BY DEF Push, kernel, history
<1>4. \A d \in Conns : thread'[d] = IF d = c THEN "call" ELSE thread[d]
  BY <1>2 DEF IInv, TypeOK
<1>5. main \notin {"clients", "joinClients"} /\ ~(main = "idle" /\ ~impl)
  BY <1>3, AcceptorFacts
<1>6. /\ fdOf[c] \in Fds /\ clients \in Seq(Fds) /\ Len(clients) \in Nat
      /\ Len(clients') = Len(clients) + 1 /\ clients'[Len(clients) + 1] = fdOf[c]
      /\ \A k \in 1..Len(clients) : clients'[k] = clients[k] /\ clients[k] \in Fds
  BY <1>2, NumberTyped, AppendProperties DEF IInv, TypeOK
<1>7. StopLeavesNothing' /\ PhaseInv' /\ ClosingInv'
  BY <1>3, <1>5 DEF IInv, StopLeavesNothing, PhaseInv, Stopping, ClosingInv
<1>8. ListenInv'
  BY <1>3 DEF IInv, ListenInv, Listening
<1>9. WaitInv'
  <2>1. ToSet(backlog) \subseteq Conns
    BY SetOfSeq DEF IInv, TypeOK
  <2>2. QED
    BY <1>2, <1>3, <1>4, <2>1 DEF IInv, WaitInv
<1>10. AcceptInv'
  BY <1>2, <1>4 DEF IInv, AcceptInv
<1>11. OwnerInv'
  BY <1>2, <1>3, <1>4 DEF IInv, OwnerInv, Owning
<1>12. ListInv'
  <2>1. PICK pos \in [Conns -> 0..Len(clients)] : Placing(pos)
    BY <1>5 DEF IInv, ListInv
  <2>2. PICK new \in [Conns -> 0..Len(clients')] :
          \A d \in Conns : new[d] = IF d = c THEN Len(clients) + 1 ELSE pos[d]
    <3> DEFINE n == [pos EXCEPT ![c] = Len(clients) + 1]
    <3>1. /\ n \in [Conns -> 0..Len(clients')]
          /\ \A d \in Conns : n[d] = IF d = c THEN Len(clients) + 1 ELSE pos[d]
      BY <1>6
    <3>2. QED
      BY <3>1
  <2>3. \A d \in Conns : d # c /\ InList(d)' => InList(d)
    BY <1>3, <1>4 DEF InList
  <2>4. \A d \in Conns, g \in Fds : d # c => (Entry(d, g)' <=> Entry(d, g))
    BY <1>3, <1>4 DEF Entry
  <2>5. ASSUME NEW d \in Conns, InList(d)'
        PROVE  new[d] \in 1..Len(clients') /\ Entry(d, clients[new[d]])'
    <3>1. CASE d = c
      <4>1. new[d] \in 1..Len(clients') /\ clients'[new[d]] = fdOf'[d] /\ thread'[d] = "call"
        BY <1>3, <1>4, <1>6, <2>2, <3>1
      <4>2. QED
        BY <4>1 DEF Entry
    <3>2. CASE d # c
      <4>1. pos[d] \in 1..Len(clients) /\ Entry(d, clients[pos[d]])
        BY <2>1, <2>3, <2>5, <3>2 DEF Placing
      <4>2. new[d] = pos[d] /\ clients'[new[d]] = clients[pos[d]] /\ clients[pos[d]] \in Fds
        BY <1>6, <2>2, <3>2, <4>1
      <4>3. Entry(d, clients[pos[d]])'
        BY <1>3, <1>4, <3>2, <4>1, <4>2 DEF Entry
      <4>4. QED
        BY <1>6, <4>1, <4>2, <4>3
    <3>3. QED
      BY <3>1, <3>2
  <2>6. ASSUME NEW d \in Conns, NEW e \in Conns, InList(d)', InList(e)', new[d] = new[e]
        PROVE  d = e
    <3>1. \A x \in Conns : x # c /\ InList(x)' => pos[x] \in 1..Len(clients)
      BY <2>1, <2>3 DEF Placing
    <3>2. CASE d # c /\ e # c
      BY <2>1, <2>2, <2>3, <2>6, <3>2 DEF Placing
    <3>3. CASE d = c \/ e = c
      BY <1>6, <2>2, <2>6, <3>1, <3>3
    <3>4. QED
      BY <3>2, <3>3
  <2>7. Placing(new)'
    BY <2>5, <2>6 DEF Placing
  <2>8. QED
    BY <2>2, <2>7 DEF ListInv
<1>13. DueInv'
  <2>1. due \subseteq Conns
    BY DEF IInv, TypeOK
  <2>2. QED
    BY <1>2, <1>3, <1>4, <2>1 DEF IInv, DueInv
<1>14. QED
  BY <1>1, <1>7, <1>8, <1>9, <1>10, <1>11, <1>12, <1>13 DEF IInv

\* Every step of the accept thread keeps the invariant.
LEMMA AcceptorStep == ASSUME IInv, Acceptor PROVE IInv'
<1>1. TypeOK'
  BY TypeStep DEF Next
<1>2. CASE AcceptCrashes
  BY <1>1, <1>2, ProcessEndsStep DEF AcceptCrashes
<1>3. QED
  BY <1>2, AcceptBeginStep, AcceptStep, AcceptFailsStep, PushStep DEF Acceptor

(***************************************************************************)
(* The steps of the client threads.                                        *)
(***************************************************************************)

\* A client thread that goes on without touching the list or a descriptor.
LEMMA ThreadMoves ==
  ASSUME IInv, TypeOK', NEW c \in Conns, NEW to \in {"call", "recv", "foreign", "drop", "close"},
         thread[c] \in {"call", "recv", "foreign", "drop"},
         thread' = [thread EXCEPT ![c] = to], UNCHANGED <<fdOf, server, kernel, history>>,
         to = "foreign" => main \in {"clients", "joinClients"} /\ \A f \in Fds : fdt[f] # c,
         to \in {"call", "recv"} => thread[c] \in {"call", "recv"}
  PROVE  IInv'
<1>1. \A d \in Conns : thread'[d] = IF d = c THEN to ELSE thread[d]
  BY DEF IInv, TypeOK
<1>2. UNCHANGED <<impl, main, todo, clients, accepter, sending, fdt, node, backlog, peer, due>>
  BY DEF server, kernel, history
<1>3. ~(main = "idle" /\ ~impl)
  BY DEF IInv, StopLeavesNothing
<1>4. StopLeavesNothing' /\ AcceptInv'
  BY <1>1, <1>2, <1>3 DEF IInv, StopLeavesNothing, AcceptInv
<1>5. WaitInv'
  <2>1. ToSet(backlog) \subseteq Conns
    BY SetOfSeq DEF IInv, TypeOK
  <2>2. QED
    BY <1>1, <1>2, <2>1 DEF IInv, WaitInv
<1>6. OwnerInv'
  <2>1. OwnerInv
    BY DEF IInv
  <2>2. \A d \in Conns : thread'[d] # "none" => fdOf'[d] \in Fds
    BY <1>1, <2>1 DEF OwnerInv
  <2>3. \A d \in Conns, f \in Fds : fdt'[f] = d =>
          \/ thread'[d] \in Owning /\ fdOf'[d] = f
          \/ thread'[d] = "none" /\ main' \in {"listener", "joinAccept", "clients"}
    BY <1>1, <1>2, <2>1 DEF OwnerInv, Owning
  <2>4. main \notin {"clients", "joinClients"} =>
          \A d \in Conns : /\ thread'[d] # "foreign"
                           /\ thread'[d] \in Owning => fdt'[fdOf'[d]] = d
    BY <1>1, <1>2, <2>1 DEF OwnerInv, Owning
  <2>5. QED
    BY <1>2, <2>1, <2>2, <2>3, <2>4 DEF OwnerInv
<1>7. ListInv'
  <2>1. SUFFICES ASSUME main \notin {"clients", "joinClients"}
                 PROVE  \E pos \in [Conns -> 0..Len(clients)] : Placing(pos)'
    BY <1>2 DEF ListInv
  <2>2. PICK pos \in [Conns -> 0..Len(clients)] : Placing(pos)
    BY <2>1 DEF IInv, ListInv
  <2>3. thread[c] # "foreign"
    BY <2>1 DEF IInv, OwnerInv
  <2>4. \A d \in Conns : InList(d)' => InList(d)
    BY <1>1, <1>2, <2>3 DEF InList
  <2>5. \A d \in Conns : \A f : Entry(d, f) => Entry(d, f)'
    BY <1>1, <1>2 DEF Entry
  <2>6. Placing(pos)'
    BY <1>2, <2>2, <2>4, <2>5 DEF Placing
  <2>7. QED
    BY <2>6
<1>8. DueInv'
  <2>1. due \subseteq Conns
    BY DEF IInv, TypeOK
  <2>2. QED
    BY <1>1, <1>2, <2>1 DEF IInv, DueInv
<1>9. QED
  BY <1>2, <1>4, <1>5, <1>6, <1>7, <1>8, Unmoved DEF IInv

\* A thread that reads, gets a frame, or finds that it is to end.
LEMMA ReadStep ==
  ASSUME IInv, NEW c \in Conns,
         \/ CallRecv(c) \/ Receive(c) \/ BadFrame(c) \/ EndOfFile(c) \/ ForeignData(c)
         \/ Drop(c) /\ impl
  PROVE  IInv'
<1>1. TypeOK'
  BY TypeStep DEF Next, ClientRuns, ClientHears
<1>2. CASE CallRecv(c)
  <2>1. UNCHANGED <<fdOf, server, kernel, history>> /\ thread[c] = "call"
    BY <1>2 DEF CallRecv, GoTo, At
  <2>2. fdt[fdOf[c]] # c =>
          main \in {"clients", "joinClients"} /\ \A f \in Fds : fdt[f] # c
    BY <2>1 DEF IInv, OwnerInv, Owning
  <2>3. PICK to \in {"recv", "drop", "foreign"} :
          /\ thread' = [thread EXCEPT ![c] = to]
          /\ to = "foreign" => fdt[fdOf[c]] # c
    BY <1>2, CallRecvGoes
  <2>4. QED
    BY <1>1, <2>1, <2>2, <2>3, ThreadMoves
<1>3. CASE Receive(c)
  <2>1. /\ UNCHANGED <<fdOf, server, kernel, history>> /\ thread[c] = "recv"
        /\ thread' = [thread EXCEPT ![c] = "call"]
    BY <1>3 DEF Receive, GoTo, At
  <2>2. QED
    BY <1>1, <2>1, ThreadMoves
<1>4. CASE BadFrame(c) \/ EndOfFile(c) \/ ForeignData(c)
  <2>1. /\ UNCHANGED <<fdOf, server, kernel, history>> /\ thread[c] \in {"recv", "foreign"}
        /\ thread' = [thread EXCEPT ![c] = "drop"]
    BY <1>4 DEF BadFrame, EndOfFile, ForeignData, GoTo, At
  <2>2. QED
    BY <1>1, <2>1, ThreadMoves
<1>5. CASE Drop(c) /\ impl
  <2>1. /\ UNCHANGED <<fdOf, server, kernel, history>> /\ thread[c] = "drop"
        /\ thread' = [thread EXCEPT ![c] = "close"]
    BY <1>5 DEF Drop, GoTo, At
  <2>2. QED
    BY <1>1, <2>1, ThreadMoves
<1>6. QED
  BY <1>2, <1>3, <1>4, <1>5

\* DropClient after Stop has begun: the thread ends, its descriptor and its entry stay.
LEMMA DropStep == ASSUME IInv, NEW c \in Conns, Drop(c), ~impl PROVE IInv'
<1>1. TypeOK'
  BY TypeStep DEF Next, ClientRuns
<1>2. /\ thread[c] = "drop" /\ fdOf' = [fdOf EXCEPT ![c] = "none"]
      /\ thread' = [thread EXCEPT ![c] = "none"]
      /\ UNCHANGED <<impl, main, todo, clients, accepter, sending, fdt, node, backlog, peer, due>>
  BY DEF Drop, Ends, At, server, kernel, history
<1>3. /\ \A d \in Conns : thread'[d] = IF d = c THEN "none" ELSE thread[d]
      /\ \A d \in Conns : d # c => fdOf'[d] = fdOf[d]
  BY <1>2 DEF IInv, TypeOK
<1>4. main \in {"listener", "joinAccept", "clients", "joinClients"}
  BY <1>2 DEF IInv, StopLeavesNothing, PhaseInv, TypeOK, MainSteps
<1>5. StopLeavesNothing' /\ AcceptInv' /\ DueInv'
  BY <1>2, <1>3, <1>4 DEF IInv, StopLeavesNothing, AcceptInv, DueInv
<1>6. WaitInv'
  <2>1. ToSet(backlog) \subseteq Conns
    BY SetOfSeq DEF IInv, TypeOK
  <2>2. QED
    BY <1>2, <1>3, <2>1 DEF IInv, WaitInv
<1>7. OwnerInv'
  <2>1. OwnerInv
    BY DEF IInv
  <2>2. \A d \in Conns : thread'[d] # "none" => fdOf'[d] \in Fds
    BY <1>3, <2>1 DEF OwnerInv
  <2>3. \A d \in Conns, f \in Fds : fdt'[f] = d =>
          \/ thread'[d] \in Owning /\ fdOf'[d] = f
          \/ thread'[d] = "none" /\ main' \in {"listener", "joinAccept", "clients"}
    BY <1>2, <1>3, <1>4, <2>1 DEF OwnerInv, IInv, ClosingInv
  <2>4. main \notin {"clients", "joinClients"} =>
          \A d \in Conns : /\ thread'[d] # "foreign"
                           /\ thread'[d] \in Owning => fdt'[fdOf'[d]] = d
    BY <1>2, <1>3, <2>1 DEF OwnerInv, Owning
  <2>5. QED
    BY <1>2, <2>1, <2>2, <2>3, <2>4 DEF OwnerInv
<1>8. ListInv'
  <2>1. SUFFICES ASSUME main \notin {"clients", "joinClients"}
                 PROVE  \E pos \in [Conns -> 0..Len(clients)] : Placing(pos)'
    BY <1>2 DEF ListInv
  <2>2. PICK pos \in [Conns -> 0..Len(clients)] : Placing(pos)
    BY <2>1 DEF IInv, ListInv
  <2>3. fdt[fdOf[c]] = c
    BY <1>2, <2>1 DEF IInv, OwnerInv, Owning
  <2>4. \A d \in Conns : InList(d)' => InList(d)
    BY <1>2, <1>3 DEF InList
  <2>5. \A d \in Conns : \A f : Entry(d, f) => Entry(d, f)'
    BY <1>2, <1>3, <2>3 DEF Entry
  <2>6. Placing(pos)'
    BY <1>2, <2>2, <2>4, <2>5 DEF Placing
  <2>7. QED
    BY <2>6
<1>9. QED
  BY <1>1, <1>2, <1>5, <1>6, <1>7, <1>8, Unmoved DEF IInv

\* DropClient closes its own number, or during Stop whatever has taken it.
LEMMA CloseOwnStep == ASSUME IInv, NEW c \in Conns, CloseOwn(c) PROVE IInv'
<1>1. TypeOK'
  BY TypeStep DEF Next, ClientRuns
<1>2. /\ thread[c] = "close" /\ thread' = [thread EXCEPT ![c] = "remove"]
      /\ fdt' = [fdt EXCEPT ![fdOf[c]] = "free"]
      /\ UNCHANGED <<impl, main, todo, clients, accepter, sending, fdOf, backlog, peer, due>>
  BY DEF CloseOwn, GoTo, At, server, history
<1>3. fdOf[c] \in Fds
  BY <1>2, NumberTyped
<1>4. /\ \A d \in Conns : thread'[d] = IF d = c THEN "remove" ELSE thread[d]
      /\ \A f \in Fds : fdt'[f] = IF f = fdOf[c] THEN "free" ELSE fdt[f]
      /\ \A d \in Conns, f \in Fds : fdt'[f] = d <=> fdt[f] = d /\ f # fdOf[c]
  BY <1>2, <1>3, ConnsAssumption DEF IInv, TypeOK
<1>5. ~(main = "idle" /\ ~impl)
  BY <1>2 DEF IInv, StopLeavesNothing
<1>6. StopLeavesNothing' /\ AcceptInv' /\ DueInv'
  BY <1>2, <1>4, <1>5 DEF IInv, StopLeavesNothing, AcceptInv, DueInv
<1>7. ListenInv'
  <2>1. CASE main \in {"clients", "joinClients"}
    <3>1. ~Listening /\ accepter = "none" /\ backlog = <<>>
      BY <2>1 DEF IInv, ListenInv, PhaseInv, Stopping
    <3>2. ~Listening'
      BY <1>4, <3>1 DEF Listening
    <3>3. QED
      BY <1>2, <3>1, <3>2 DEF ListenInv
  <2>2. CASE main \notin {"clients", "joinClients"}
    <3>1. fdt[fdOf[c]] = c /\ c # "listen"
      BY <1>2, <2>2, ConnsAssumption DEF IInv, OwnerInv, Owning
    <3>2. Listening' <=> Listening
      BY <1>4, <3>1 DEF Listening
    <3>3. QED
      BY <1>2, <3>2 DEF IInv, ListenInv
  <2>3. QED
    BY <2>1, <2>2
<1>8. WaitInv'
  <2>1. ToSet(backlog) \subseteq Conns
    BY SetOfSeq DEF IInv, TypeOK
  <2>2. QED
    BY <1>2, <1>4, <2>1 DEF IInv, WaitInv
<1>9. OwnerInv'
  <2>1. OwnerInv
    BY DEF IInv
  <2>2. \A d \in Conns : thread'[d] # "none" => fdOf'[d] \in Fds
    BY <1>2, <1>4, <2>1 DEF OwnerInv
  <2>3. \A d \in Conns, f \in Fds : fdt'[f] = d =>
          \/ thread'[d] \in Owning /\ fdOf'[d] = f
          \/ thread'[d] = "none" /\ main' \in {"listener", "joinAccept", "clients"}
    BY <1>2, <1>4, <2>1 DEF OwnerInv
  <2>4. \A f, g \in Fds : fdt'[f] = fdt'[g] /\ fdt'[f] \in Conns => f = g
    BY <1>4, <2>1, ConnsAssumption DEF OwnerInv
  <2>5. main \notin {"clients", "joinClients"} =>
          \A d \in Conns : /\ thread'[d] # "foreign"
                           /\ thread'[d] \in Owning => fdt'[fdOf'[d]] = d
    <3>1. main \notin {"clients", "joinClients"} =>
            \A d \in Conns : thread[d] \in Owning /\ d # c => fdOf[d] # fdOf[c]
      BY <1>2, <2>1 DEF OwnerInv, Owning
    <3>2. QED
      BY <1>2, <1>4, <2>1, <3>1 DEF OwnerInv, Owning
  <2>6. QED
    BY <1>2, <2>2, <2>3, <2>4, <2>5 DEF OwnerInv
<1>10. ListInv'
  <2>1. SUFFICES ASSUME main \notin {"clients", "joinClients"}
                 PROVE  \E pos \in [Conns -> 0..Len(clients)] : Placing(pos)'
    BY <1>2 DEF ListInv
  <2>2. PICK pos \in [Conns -> 0..Len(clients)] : Placing(pos)
    BY <2>1 DEF IInv, ListInv
  <2>3. fdt[fdOf[c]] = c
    BY <1>2, <2>1 DEF IInv, OwnerInv, Owning
  <2>4. \A d \in Conns : InList(d)' => InList(d)
    BY <1>2, <1>4 DEF InList
  <2>5. \A d \in Conns, f \in Fds : Entry(d, f) => Entry(d, f)'
    BY <1>2, <1>4, <2>3 DEF Entry
  <2>6. \A k \in 1..Len(clients) : clients[k] \in Fds
    BY DEF IInv, TypeOK
  <2>7. Placing(pos)'
    BY <1>2, <2>2, <2>4, <2>5, <2>6 DEF Placing
  <2>8. QED
    BY <2>7
<1>11. ClosingInv'
  BY <1>2, <1>4 DEF IInv, ClosingInv, TypeOK
<1>12. QED
  BY <1>1, <1>2, <1>6, <1>7, <1>8, <1>9, <1>10, <1>11, Unmoved DEF IInv

\* DropClient removes one entry, which another thread with the same number does not miss.
LEMMA EntryRemoved ==
  ASSUME IInv, NEW c \in Conns, RemoveOwn(c), main # "joinClients"
  PROVE  ListInv'
<1>1. /\ thread[c] = "remove" /\ main # "clients"
      /\ thread' = [thread EXCEPT ![c] = "none"] /\ fdOf' = [fdOf EXCEPT ![c] = "none"]
      /\ UNCHANGED <<main, fdt>>
  BY DEF RemoveOwn, Ends, At, LocksFree, kernel
<1>2. /\ \A d \in Conns : thread'[d] = IF d = c THEN "none" ELSE thread[d]
      /\ \A d \in Conns : d # c => fdOf'[d] = fdOf[d]
      /\ \A f \in Fds : fdt[f] # c
  BY <1>1 DEF IInv, TypeOK, OwnerInv, Owning
<1>3. PICK pos \in [Conns -> 0..Len(clients)] : Placing(pos)
  BY <1>1 DEF IInv, ListInv
<1>4. pos[c] \in 1..Len(clients) /\ clients[pos[c]] = fdOf[c]
  BY <1>1, <1>3 DEF Placing, InList, Entry
<1>5. clients \in Seq(Fds) /\ fdOf[c] \in ToSet(clients)
  BY <1>4, SetOfSeq DEF IInv, TypeOK
<1>6. PICK i \in 1..Len(clients) :
        /\ clients[i] = fdOf[c] /\ Len(clients') = Len(clients) - 1
        /\ \A k \in 1..Len(clients') :
             clients'[k] = IF k = i THEN clients[Len(clients)] ELSE clients[k]
  <2> DEFINE j == SelectInSeq(clients, LAMBDA f : f = fdOf[c])
  <2>1. j \in 1..Len(clients) /\ clients[j] = fdOf[c]
    BY <1>5, FirstEntry
  <2>2. clients' = Front([clients EXCEPT ![j] = Last(clients)])
    BY <1>5 DEF RemoveOwn
  <2> HIDE DEF j
  <2>3. /\ Len(clients') = Len(clients) - 1
        /\ \A k \in 1..Len(clients') :
             clients'[k] = IF k = j THEN clients[Len(clients)] ELSE clients[k]
    BY <1>5, <2>1, <2>2, EntryTakenOut
  <2>4. QED
    BY <2>1, <2>3
<1>7. Len(clients) \in Nat /\ \A k \in 1..Len(clients) : clients[k] \in Fds
  BY <1>5
<1>8. \A d \in Conns : InList(d)' =>
        /\ d # c /\ pos[d] \in 1..Len(clients) /\ pos[d] # pos[c]
        /\ thread'[d] = thread[d] /\ fdOf'[d] = fdOf[d] /\ Entry(d, clients[pos[d]])
  <2>1. \A d \in Conns : InList(d)' => d # c /\ InList(d)
    BY <1>1, <1>2 DEF InList
  <2>2. InList(c)
    BY <1>1 DEF InList
  <2>3. QED
    BY <1>2, <1>3, <2>1, <2>2 DEF Placing
\* The entry that c removes and its own change owners, and the last entry moves.
<1> DEFINE Swapped(d) == IF pos[d] = i THEN pos[c] ELSE pos[d]
<1>9. \A d \in Conns : InList(d)' =>
        /\ Swapped(d) \in 1..Len(clients) /\ Swapped(d) # i
        /\ clients[Swapped(d)] = clients[pos[d]]
        /\ \A e \in Conns : InList(e)' /\ Swapped(d) = Swapped(e) => d = e
  <2>1. \A d, e \in Conns : InList(d)' /\ InList(e)' /\ pos[d] = pos[e] => d = e
    <3>1. \A d \in Conns : InList(d)' => InList(d)
      BY <1>1, <1>2 DEF InList
    <3>2. QED
      BY <1>3, <3>1 DEF Placing
  <2>2. QED
    BY <1>4, <1>6, <1>8, <2>1
<1> HIDE DEF Swapped
<1> DEFINE Moved(d) == IF Swapped(d) = Len(clients) THEN i ELSE Swapped(d)
<1>10. \A d \in Conns : InList(d)' =>
         /\ Moved(d) \in 1..Len(clients') /\ clients'[Moved(d)] = clients[pos[d]]
         /\ \A e \in Conns : InList(e)' /\ Moved(d) = Moved(e) => d = e
  BY <1>6, <1>7, <1>9
<1> HIDE DEF Moved
<1>11. PICK new \in [Conns -> 0..Len(clients')] :
         \A d \in Conns : InList(d)' => new[d] = Moved(d)
  <2> DEFINE n == [d \in Conns |-> IF InList(d)' THEN Moved(d) ELSE 0]
  <2>1. n \in [Conns -> 0..Len(clients')]
    BY <1>6, <1>7, <1>10
  <2>2. \A d \in Conns : InList(d)' => n[d] = Moved(d)
    OBVIOUS
  <2>3. QED
    BY <2>1, <2>2
<1>12. ASSUME NEW d \in Conns, InList(d)'
       PROVE  new[d] \in 1..Len(clients') /\ Entry(d, clients[new[d]])'
  <2>1. new[d] \in 1..Len(clients') /\ clients'[new[d]] = clients[pos[d]]
    BY <1>10, <1>11, <1>12
  <2>2. clients[pos[d]] \in Fds /\ Entry(d, clients[pos[d]])
    BY <1>7, <1>8, <1>12
  <2>3. QED
    BY <1>1, <1>8, <1>12, <2>1, <2>2 DEF Entry
<1>13. \A d, e \in Conns : InList(d)' /\ InList(e)' /\ new[d] = new[e] => d = e
  BY <1>10, <1>11
<1>14. Placing(new)'
  BY <1>12, <1>13 DEF Placing
<1>15. QED
  BY <1>11, <1>14 DEF ListInv

\* A thread that has removed an entry needs none any more.
LEMMA RemoveOwnStep == ASSUME IInv, NEW c \in Conns, RemoveOwn(c) PROVE IInv'
<1>1. TypeOK'
  BY TypeStep DEF Next, ClientRuns
<1>2. /\ thread[c] = "remove" /\ main # "clients"
      /\ thread' = [thread EXCEPT ![c] = "none"] /\ fdOf' = [fdOf EXCEPT ![c] = "none"]
      /\ UNCHANGED <<impl, main, todo, accepter, sending, fdt, node, backlog, peer, due>>
  BY DEF RemoveOwn, Ends, At, LocksFree, kernel, history
<1>3. /\ \A d \in Conns : thread'[d] = IF d = c THEN "none" ELSE thread[d]
      /\ \A d \in Conns : d # c => fdOf'[d] = fdOf[d]
      /\ \A f \in Fds : fdt[f] # c
  BY <1>2 DEF IInv, TypeOK, OwnerInv, Owning
<1>4. ~(main = "idle" /\ ~impl)
  BY <1>2 DEF IInv, StopLeavesNothing
<1>5. StopLeavesNothing' /\ AcceptInv' /\ DueInv'
  BY <1>2, <1>3, <1>4 DEF IInv, StopLeavesNothing, AcceptInv, DueInv, TypeOK
<1>6. WaitInv'
  <2>1. ToSet(backlog) \subseteq Conns
    BY SetOfSeq DEF IInv, TypeOK
  <2>2. QED
    BY <1>2, <1>3, <2>1 DEF IInv, WaitInv
<1>7. OwnerInv'
  <2>1. OwnerInv
    BY DEF IInv
  <2>2. \A d \in Conns : thread'[d] # "none" => fdOf'[d] \in Fds
    BY <1>3, <2>1 DEF OwnerInv
  <2>3. \A d \in Conns, f \in Fds : fdt'[f] = d =>
          \/ thread'[d] \in Owning /\ fdOf'[d] = f
          \/ thread'[d] = "none" /\ main' \in {"listener", "joinAccept", "clients"}
    BY <1>2, <1>3, <2>1 DEF OwnerInv
  <2>4. main \notin {"clients", "joinClients"} =>
          \A d \in Conns : /\ thread'[d] # "foreign"
                           /\ thread'[d] \in Owning => fdt'[fdOf'[d]] = d
    BY <1>2, <1>3, <2>1 DEF OwnerInv, Owning
  <2>5. QED
    BY <1>2, <2>1, <2>2, <2>3, <2>4 DEF OwnerInv
<1>8. CASE main = "joinClients"
  <2>1. clients = <<>> /\ fdOf[c] \notin ToSet(clients)
    BY <1>8, SetOfSeq DEF IInv, ClosingInv
  <2>2. clients' = clients
    BY <2>1 DEF RemoveOwn
  <2>3. ListInv'
    BY <1>2, <1>8 DEF ListInv
  <2>4. QED
    BY <1>1, <1>2, <1>5, <1>6, <1>7, <2>2, <2>3, Unmoved DEF IInv
<1>9. CASE main # "joinClients"
  <2>1. ListInv' /\ ClosingInv'
    BY <1>2, <1>9, EntryRemoved DEF ClosingInv
  <2>2. QED
    BY <1>1, <1>2, <1>5, <1>6, <1>7, <2>1, Unmoved DEF IInv
<1>10. QED
  BY <1>8, <1>9

(***************************************************************************)
(* The steps of the guests and of the rest of the application.             *)
(***************************************************************************)

\* A guest that connects waits behind the listener.
LEMMA ConnectStep == ASSUME IInv, NEW c \in Conns, Connect(c) PROVE IInv'
<1>1. TypeOK'
  BY TypeStep DEF Next, Guest
<1>2. /\ node = "bound" /\ Listening /\ peer[c] = "closed" /\ thread[c] = "none"
      /\ c \notin ToSet(backlog) /\ \A f \in Fds : fdt[f] # c
      /\ peer' = [peer EXCEPT ![c] = "open"] /\ backlog' = Append(backlog, c)
      /\ UNCHANGED <<impl, main, todo, clients, accepter, sending, thread, fdOf, fdt, node, due>>
  BY DEF Connect, Held, server, threads, history
<1>3. /\ ToSet(backlog') = ToSet(backlog) \union {c}
      /\ Len(backlog) \in Nat /\ Len(backlog') = Len(backlog) + 1
      /\ backlog'[Len(backlog) + 1] = c
      /\ \A k \in 1..Len(backlog) : backlog'[k] = backlog[k] /\ backlog[k] # c
  <2>1. backlog \in Seq(Conns)
    BY DEF IInv, TypeOK
  <2>2. ToSet(backlog') = ToSet(backlog) \union {c}
    BY <1>2, <2>1, SetOfSeq
  <2>3. \A k \in 1..Len(backlog) : backlog[k] # c
    BY <1>2, <2>1, SetOfSeq
  <2>4. QED
    BY <1>2, <2>1, <2>2, <2>3, AppendProperties
<1>4. StopLeavesNothing' /\ ListenInv'
  BY <1>2 DEF IInv, StopLeavesNothing, ListenInv, Listening
<1>5. WaitInv'
  <2>1. \A i, j \in 1..Len(backlog') : backlog'[i] = backlog'[j] => i = j
    BY <1>3 DEF IInv, WaitInv
  <2>2. QED
    BY <1>2, <1>3, <2>1 DEF IInv, WaitInv
<1>6. DueInv'
  <2>1. due \subseteq Conns /\ \A d \in Conns : d # c => peer'[d] = peer[d]
    BY <1>2 DEF IInv, TypeOK
  <2>2. QED
    BY <1>2, <1>3, <2>1 DEF IInv, DueInv
<1>7. QED
  BY <1>1, <1>2, <1>4, <1>5, <1>6, Unmoved DEF IInv

\* A guest that closes leaves its thread and its descriptor as they are.
LEMMA GuestClosesStep == ASSUME IInv, NEW c \in Conns, GuestCloses(c) PROVE IInv'
<1>1. TypeOK'
  BY TypeStep DEF Next, Guest
<1>2. /\ peer' = [peer EXCEPT ![c] = "closed"] /\ due' = due \ {c}
      /\ UNCHANGED <<impl, main, todo, clients, accepter, sending, thread, fdOf, fdt, node, backlog>>
  BY DEF GuestCloses, server, threads
<1>3. DueInv'
  <2>1. due \subseteq Conns /\ \A d \in Conns : d # c => peer'[d] = peer[d]
    BY <1>2 DEF IInv, TypeOK
  <2>2. QED
    BY <1>2, <2>1 DEF IInv, DueInv
<1>4. QED
  BY <1>1, <1>2, <1>3, Unmoved DEF IInv

\* The rest of the application takes a free number or gives its own back.
LEMMA StrangerStep == ASSUME IInv, StrangerOpens \/ StrangerCloses PROVE IInv'
<1>1. TypeOK'
  BY TypeStep DEF Next
<1>2. UNCHANGED <<impl, main, todo, clients, accepter, sending, thread, fdOf, node, backlog, peer, due>>
  BY DEF StrangerOpens, StrangerCloses, server, threads, history
<1>3. PICK f \in Fds, new \in {"free", "stranger"} :
        fdt[f] \in {"free", "stranger"} /\ fdt' = [fdt EXCEPT ![f] = new]
  BY DEF StrangerOpens, StrangerCloses, FreeFds
<1>4. /\ \A g \in Fds : fdt'[g] = IF g = f THEN new ELSE fdt[g]
      /\ \A c \in Conns, g \in Fds : fdt'[g] = c <=> fdt[g] = c
      /\ \A c \in Conns : c \notin {"free", "stranger"}
  <2>1. \A c \in Conns : c \notin {"free", "stranger"}
    BY ConnsAssumption
  <2>2. \A g \in Fds : fdt'[g] = IF g = f THEN new ELSE fdt[g]
    BY <1>3 DEF IInv, TypeOK
  <2>3. QED
    BY <1>3, <2>1, <2>2
<1>5. StopLeavesNothing'
  BY <1>2, <1>4 DEF IInv, StopLeavesNothing
<1>6. ListenInv'
  <2>1. Listening' <=> Listening
    BY <1>3, <1>4 DEF Listening
  <2>2. QED
    BY <1>2, <2>1 DEF IInv, ListenInv
<1>7. WaitInv'
  <2>1. ToSet(backlog) \subseteq Conns
    BY SetOfSeq DEF IInv, TypeOK
  <2>2. QED
    BY <1>2, <1>4, <2>1 DEF IInv, WaitInv
<1>8. OwnerInv'
  <2>1. OwnerInv
    BY DEF IInv
  <2>2. \A g, h \in Fds : fdt'[g] = fdt'[h] /\ fdt'[g] \in Conns => g = h
    BY <1>4, <2>1 DEF OwnerInv
  <2>3. main \notin {"clients", "joinClients"} =>
          \A c \in Conns : /\ thread[c] # "foreign"
                           /\ thread[c] \in Owning => fdt'[fdOf[c]] = c
    BY <1>4, <2>1 DEF OwnerInv, Owning
  <2>4. QED
    BY <1>2, <1>4, <2>1, <2>2, <2>3 DEF OwnerInv
<1>9. ListInv'
  <2>1. SUFFICES ASSUME main \notin {"clients", "joinClients"}
                 PROVE  \E pos \in [Conns -> 0..Len(clients)] : Placing(pos)'
    BY <1>2 DEF ListInv
  <2>2. PICK pos \in [Conns -> 0..Len(clients)] : Placing(pos)
    BY <2>1 DEF IInv, ListInv
  <2>3. \A c \in Conns : InList(c)' => InList(c)
    BY <1>2, <1>4 DEF InList
  <2>4. \A c \in Conns, g \in Fds : Entry(c, g) => Entry(c, g)'
    BY <1>2, <1>4 DEF Entry
  <2>5. \A k \in 1..Len(clients) : clients[k] \in Fds
    BY DEF IInv, TypeOK
  <2>6. Placing(pos)'
    BY <1>2, <2>2, <2>3, <2>4, <2>5 DEF Placing
  <2>7. QED
    BY <2>6
<1>10. ClosingInv'
  BY <1>2, <1>4 DEF IInv, ClosingInv
<1>11. QED
  BY <1>1, <1>2, <1>5, <1>6, <1>7, <1>8, <1>9, <1>10, Unmoved DEF IInv

(***************************************************************************)
(* The results.                                                            *)
(***************************************************************************)

\* The first state has no server.
LEMMA IInvInit == Init => IInv
<1> SUFFICES ASSUME Init PROVE IInv
  OBVIOUS
<1>1. /\ impl = FALSE /\ main = "idle" /\ accepter = "none" /\ clients = <<>> /\ backlog = <<>>
      /\ todo = <<>> /\ node = "none" /\ shut = {} /\ sending = "none" /\ due = {}
      /\ thread = [c \in Conns |-> "none"] /\ fdt = [f \in Fds |-> "free"]
  BY DEF Init
<1>2. TypeOK
  <2>1. impl \in BOOLEAN /\ crashed \in BOOLEAN
    BY Zenon DEF Init
  <2>2. todo \in Seq(Fds) /\ clients \in Seq(Fds) /\ backlog \in Seq(Conns)
    BY <1>1
  <2>3. fdOf \in [Conns -> Fds \union {"none"}] /\ peer \in [Conns -> {"closed", "open"}]
    BY DEF Init
  <2>4. QED
    BY <1>1, <2>1, <2>2, <2>3 DEF TypeOK, MainSteps
<1>3. /\ \A c \in Conns : thread[c] = "none"
      /\ \A c \in Conns, f \in Fds : fdt[f] # c
  BY <1>1, ConnsAssumption
<1>4. StopLeavesNothing /\ PhaseInv /\ ClosingInv /\ DueInv
  BY <1>1 DEF StopLeavesNothing, PhaseInv, Stopping, ClosingInv, DueInv
<1>5. ListenInv /\ WaitInv /\ AcceptInv
  BY <1>1, <1>3, SetOfSeq DEF ListenInv, Listening, WaitInv, AcceptInv
<1>6. OwnerInv
  BY <1>1, <1>3 DEF OwnerInv, Owning
<1>7. ListInv
  <2>1. \A c \in Conns : ~InList(c)
    BY <1>3 DEF InList
  <2>2. [c \in Conns |-> 0] \in [Conns -> 0..Len(clients)]
    BY <1>1
  <2>3. Placing([c \in Conns |-> 0])
    BY <2>1 DEF Placing
  <2>4. QED
    BY <2>2, <2>3 DEF ListInv
<1>8. QED
  BY <1>2, <1>4, <1>5, <1>6, <1>7 DEF IInv

\* Every step keeps the invariant: one case per action.
LEMMA IInvStep == IInv /\ [Next]_vars => IInv'
<1> SUFFICES ASSUME IInv, [Next]_vars PROVE IInv'
  OBVIOUS
<1>1. TypeOK'
  BY TypeStep
<1>2. CASE HostDies
  BY <1>1, <1>2, ProcessEndsStep DEF HostDies
<1>3. ASSUME NEW c \in Conns, ClientRuns(c) \/ ClientHears(c) \/ Guest(c) PROVE IInv'
  <2>1. CASE Drop(c)
    BY <2>1, ReadStep, DropStep
  <2>2. CASE ~Drop(c)
    BY <1>3, <2>2, ReadStep, CloseOwnStep, RemoveOwnStep, ConnectStep, GuestClosesStep
    DEF ClientRuns, ClientHears, Guest
  <2>3. QED
    BY <2>1, <2>2
<1>4. CASE UNCHANGED vars
  BY <1>1, <1>4, Unmoved DEF IInv, vars, server, threads, kernel, history
<1>5. QED
  BY <1>2, <1>3, <1>4, MainStep, AcceptorStep, StrangerStep DEF Next

\* The parts together are inductive.
LEMMA IInvCorrect == Spec => []IInv
BY IInvInit, IInvStep, PTL DEF Spec

\* Every variable has its type: the list, the copy a call works through and the client threads
\* hold descriptor numbers, never the error of an accept4 that failed, and a send that waits is
\* for a guest's socket or a stranger's.
THEOREM IpcTypeCorrect == Spec => []TypeOK
<1>1. IInv => TypeOK
  BY DEF IInv
<1>2. QED
  BY <1>1, IInvCorrect, PTL

\* When no server is set and no call is in progress nothing of a server is left, whatever was
\* accepted while Stop was at work and whatever DropClient left to it.
THEOREM NothingAfterStop == Spec => []StopLeavesNothing
<1>1. IInv => StopLeavesNothing
  BY DEF IInv
<1>2. QED
  BY <1>1, IInvCorrect, PTL

\* A client thread that runs has its own descriptor and an entry in the list, although a
\* number may be in the list twice and DropClient removes the first entry with its number.
THEOREM ServedAreListed == Spec => []ListedWhileServed
<1>1. IInv => ListedWhileServed
  <2>1. SUFFICES ASSUME IInv, ~Stopping, NEW c \in Conns,
                        thread[c] \in {"call", "recv", "drop", "close"}
                 PROVE  fdt[fdOf[c]] = c /\ fdOf[c] \in ToSet(clients)
    BY DEF ListedWhileServed
  <2>2. main \notin {"clients", "joinClients"}
    BY <2>1 DEF Stopping
  <2>3. fdt[fdOf[c]] = c
    BY <2>1, <2>2 DEF IInv, OwnerInv, Owning
  <2>4. PICK pos \in [Conns -> 0..Len(clients)] : Placing(pos)
    BY <2>1, <2>2 DEF IInv, ListInv
  <2>5. pos[c] \in 1..Len(clients) /\ clients[pos[c]] = fdOf[c]
    BY <2>1, <2>4 DEF Placing, InList, Entry
  <2>6. QED
    BY <2>1, <2>3, <2>5, SetOfSeq DEF IInv, TypeOK
<1>2. QED
  BY <1>1, IInvCorrect, PTL

\* A Broadcast that is over owes nothing to a guest that is still served.
THEOREM BroadcastMissesNobody == Spec => []BroadcastReachesAll
<1>1. IInv => BroadcastReachesAll
  <2>1. SUFFICES ASSUME IInv, main = "send", todo = <<>>, NEW c \in due
                 PROVE  thread[c] \notin {"call", "recv"}
    BY DEF BroadcastReachesAll
  <2>2. QED
    BY <2>1, SetOfSeq DEF IInv, DueInv
<1>2. QED
  BY <1>1, IInvCorrect, PTL
=============================================================================
