----------------------------- MODULE IpcServer -----------------------------
(***************************************************************************)
(* accore::IpcServer (core/ipc.cpp) with the guests' clients               *)
(* (fake/ipc_client.cpp) and the descriptors of the host process.          *)
(*                                                                         *)
(* Start, Stop and Broadcast are called on the application's main thread.  *)
(* Beside it run the accept thread and one thread per accepted connection; *)
(* they share impl_, the client list under clients_mu, and the process's   *)
(* descriptor numbers, which the kernel gives out again after a close, to  *)
(* this server or to any other part of the application.                    *)
(***************************************************************************)
EXTENDS Integers, Sequences, SequencesExt

CONSTANTS
  Conns,         \* connections; one is used again when nothing of it is left
  Fds            \* bound: the descriptor numbers left to the server and the rest

ASSUME ConnsAssumption == {"free", "listen", "stranger"} \cap Conns = {}
ASSUME FdsAssumption   == "none" \notin Fds

VARIABLES
  impl,          \* is impl_ set? impl->running is true exactly as long
  main,          \* what the main thread is doing
  todo,          \* the descriptors its loop over the client list has yet to visit
  clients,       \* impl->clients
  accepter,      \* the accept thread
  thread,        \* connection -> its client thread
  fdOf,          \* the client thread's argument: the number accept4 returned for it
  fdt,           \* descriptor number -> what it refers to
  node,          \* the socket's node in the file system
  backlog,       \* connections that wait to be accepted
  peer,          \* connection -> is the guest's end open?
  shut,          \* the connections that Stop has shut down
  sending,       \* what a send of Broadcast waits on: a connection, or a stranger's socket
  due,           \* history: the guests that the Broadcast in progress has yet to reach
  crashed        \* history: did the accept thread end the last process that had a server?

server  == <<impl, main, todo, clients, accepter, sending>>
threads == <<thread, fdOf>>
kernel  == <<fdt, node, backlog, peer, shut>>
history == <<due, crashed>>
vars    == <<server, threads, kernel, history>>

MainSteps == {"idle", "listener", "joinAccept", "clients", "joinClients",
              "send", "wait"}
Stopping  == main \in {"listener", "joinAccept", "clients", "joinClients"}

\* The types. The list holds numbers that accept4 has given, never its error.
TypeOK ==
  /\ impl \in BOOLEAN
  /\ main \in MainSteps
  /\ todo \in Seq(Fds)
  /\ clients \in Seq(Fds)
  /\ accepter \in {"none", "begin", "loop", "accept", "push"}
  /\ thread \in [Conns -> {"none", "accepted", "call", "recv", "foreign",
                           "drop", "close", "remove"}]
  /\ fdOf \in [Conns -> Fds \union {"none"}]
  /\ fdt \in [Fds -> Conns \union {"free", "listen", "stranger"}]
  /\ node \in {"none", "bound", "stale"}
  /\ backlog \in Seq(Conns)
  /\ peer \in [Conns -> {"closed", "open"}]
  /\ shut \in SUBSET Conns
  /\ sending \in Conns \union {"none", "stranger"}
  /\ due \in SUBSET Conns
  /\ crashed \in BOOLEAN

Init ==
  /\ impl = FALSE /\ main = "idle" /\ todo = <<>> /\ clients = <<>> /\ accepter = "none"
  /\ thread = [c \in Conns |-> "none"]
  /\ fdOf = [c \in Conns |-> "none"]
  /\ fdt = [f \in Fds |-> "free"]
  /\ node = "none"
  /\ backlog = <<>>
  /\ peer = [c \in Conns |-> "closed"]
  /\ shut = {} /\ sending = "none" /\ due = {} /\ crashed = FALSE

FreeFds   == {f \in Fds : fdt[f] = "free"}
Listening == \E f \in Fds : fdt[f] = "listen"

\* Does the host still hold its end of connection c? A recv or send in progress holds it too.
Held(c) ==
  \/ \E f \in Fds : fdt[f] = c
  \/ c \in ToSet(backlog)
  \/ thread[c] = "recv"
  \/ sending = c

\* The guest of c would read an end of file, and so would the host's recv.
HungUp(c) == c \in shut \/ ~Held(c)
LocksFree == main # "clients"

\* The end of the application's process, for any reason. Only the node stays.
ProcessEnds ==
  /\ impl' = FALSE /\ main' = "idle" /\ todo' = <<>> /\ clients' = <<>>
  /\ accepter' = "none"
  /\ thread' = [c \in Conns |-> "none"]
  /\ fdOf' = [c \in Conns |-> "none"]
  /\ fdt' = [f \in Fds |-> "free"]
  /\ node' = IF node = "bound" THEN "stale" ELSE node
  /\ backlog' = <<>>
  /\ shut' = {} /\ sending' = "none" /\ due' = {}
  /\ UNCHANGED peer

----------------------------------------------------------------------------
(* The main thread                                                          *)

\* unlink, bind, listen, a new Impl, and the accept thread.
Start ==
  /\ main = "idle" /\ ~impl
  /\ \E f \in FreeFds : fdt' = [fdt EXCEPT ![f] = "listen"]
  /\ node' = "bound"
  /\ impl' = TRUE
  /\ accepter' = "begin"
  /\ crashed' = FALSE
  /\ UNCHANGED <<main, todo, clients, sending, threads, backlog, peer, shut, due>>

\* bind or listen fails, after the unlink.
StartFails ==
  /\ main = "idle" /\ ~impl
  /\ FreeFds # {}
  /\ node' = "none"
  /\ UNCHANGED <<server, threads, fdt, backlog, peer, shut, history>>

\* impl_ = nullptr, running = false.
StopBegin ==
  /\ main = "idle" /\ impl
  /\ impl' = FALSE
  /\ main' = "listener"
  /\ UNCHANGED <<todo, clients, accepter, sending, threads, kernel, history>>

\* shutdown and close of the listening socket. An accept4 in progress keeps the socket,
\* and what is queued on it, until it returns.
CloseListener ==
  /\ main = "listener"
  /\ fdt' = [f \in Fds |-> IF fdt[f] = "listen" THEN "free" ELSE fdt[f]]
  /\ backlog' = IF accepter = "accept" THEN backlog ELSE <<>>
  /\ main' = "joinAccept"
  /\ UNCHANGED <<impl, todo, clients, accepter, sending, threads, node, peer, shut, history>>

\* Mutant: the accept thread is not waited for.
JoinAccept_NoJoin ==
  /\ main = "joinAccept"
  /\ todo' = clients
  /\ main' = "clients"
  /\ UNCHANGED <<impl, clients, accepter, sending, threads, kernel, history>>

\* accept_thread.join(), and clients_mu is taken.
JoinAccept ==
  /\ main = "joinAccept"
  /\ accepter = "none"
  /\ todo' = clients
  /\ main' = "clients"
  /\ UNCHANGED <<impl, clients, accepter, sending, threads, kernel, history>>

\* Mutant: the descriptor is closed and the connection not shut down.
CloseClient_NoShutdown ==
  /\ main = "clients" /\ todo # <<>>
  /\ todo' = Tail(todo)
  /\ fdt' = [fdt EXCEPT ![Head(todo)] = "free"]
  /\ UNCHANGED <<impl, main, clients, accepter, sending, threads,
                 node, backlog, peer, shut, history>>

\* shutdown and close of a number in the list, whatever it refers to by now.
CloseClient ==
  /\ main = "clients" /\ todo # <<>>
  /\ todo' = Tail(todo)
  /\ fdt' = [fdt EXCEPT ![Head(todo)] = "free"]
  /\ shut' = shut \union ({fdt[Head(todo)]} \cap Conns)
  /\ UNCHANGED <<impl, main, clients, accepter, sending, threads,
                 node, backlog, peer, history>>

\* The list is cleared and clients_mu given back.
ClientsClosed ==
  /\ main = "clients" /\ todo = <<>>
  /\ clients' = <<>>
  /\ main' = "joinClients"
  /\ UNCHANGED <<impl, todo, accepter, sending, threads, kernel, history>>

\* The client threads are joined, the node unlinked and the Impl deleted.
StopEnd ==
  /\ main = "joinClients"
  /\ \A c \in Conns : thread[c] = "none"
  /\ node' = "none"
  /\ main' = "idle"
  /\ shut' = {}
  /\ UNCHANGED <<impl, todo, clients, accepter, sending, threads,
                 fdt, backlog, peer, history>>

\* Broadcast copies the list under the lock.
BroadcastBegin ==
  /\ main = "idle" /\ impl
  /\ clients # <<>>
  /\ main' = "send"
  /\ todo' = clients
  /\ due' = {c \in Conns : thread[c] \in {"call", "recv"} /\ peer[c] = "open"}
  /\ UNCHANGED <<impl, clients, accepter, sending, threads, kernel, crashed>>

\* Mutant: the first send that fails ends the Broadcast.
SendNext_StopsAtFailure ==
  /\ main = "send" /\ todo # <<>>
  /\ LET c == fdt[Head(todo)] IN
       /\ todo' = IF c \in Conns /\ peer[c] = "open" THEN Tail(todo) ELSE <<>>
       /\ due' = due \ {c}
  /\ UNCHANGED <<impl, main, clients, accepter, sending, threads, kernel, crashed>>

\* Send to the next number of the copy, whatever it refers to by now. It fails if the
\* guest has closed its end.
SendNext ==
  /\ main = "send" /\ todo # <<>>
  /\ todo' = Tail(todo)
  /\ due' = due \ {fdt[Head(todo)]}
  /\ UNCHANGED <<impl, main, clients, accepter, sending, threads, kernel, crashed>>

\* The send waits: for a guest that has not read for longer than its buffer lasts, or on
\* the stranger's socket that has taken the number of a guest dropped since the copy.
SendWaits ==
  /\ main = "send" /\ todo # <<>>
  /\ LET to == fdt[Head(todo)] IN
       /\ to = "stranger" \/ (to \in Conns /\ peer[to] = "open")
       /\ sending' = to
  /\ main' = "wait"
  /\ UNCHANGED <<impl, todo, clients, accepter, threads, kernel, history>>

\* The other end reads again, or has been closed and the send fails.
SendResumes ==
  /\ main = "wait"
  /\ main' = "send"
  /\ todo' = Tail(todo)
  /\ due' = due \ {sending}
  /\ sending' = "none"
  /\ UNCHANGED <<impl, clients, accepter, threads, kernel, crashed>>

BroadcastEnd ==
  /\ main = "send" /\ todo = <<>>
  /\ main' = "idle"
  /\ due' = {}
  /\ UNCHANGED <<impl, todo, clients, accepter, sending, threads, kernel, crashed>>

----------------------------------------------------------------------------
(* The accept thread                                                        *)

\* Impl* impl = impl_.
AcceptBegin ==
  /\ accepter = "begin" /\ impl
  /\ accepter' = "loop"
  /\ UNCHANGED <<impl, main, todo, clients, sending, threads, kernel, history>>

\* A Stop that came before has left a null pointer, and the first look at impl->running
\* ends the process.
AcceptCrashes ==
  /\ accepter = "begin" /\ ~impl
  /\ ProcessEnds
  /\ crashed' = TRUE

\* Look at running, and go into accept4. A listener closed in between makes accept4
\* fail, and the loop end, as if running had been false at once.
AcceptLoop ==
  /\ accepter = "loop"
  /\ accepter' = IF impl THEN "accept" ELSE "none"
  /\ UNCHANGED <<impl, main, todo, clients, sending, threads, kernel, history>>

\* accept4 returns a connection with any number that is free. What was queued behind it
\* goes if the listener has been closed meanwhile.
Accept ==
  /\ accepter = "accept" /\ backlog # <<>>
  /\ LET c == Head(backlog) IN
       \E f \in FreeFds :
         /\ fdt' = [fdt EXCEPT ![f] = c]
         /\ fdOf' = [fdOf EXCEPT ![c] = f]
         /\ thread' = [thread EXCEPT ![c] = "accepted"]
  /\ backlog' = IF Listening THEN Tail(backlog) ELSE <<>>
  /\ accepter' = "push"
  /\ UNCHANGED <<impl, main, todo, clients, sending, node, peer, shut, history>>

\* Mutant: the loop ends when there is no number.
AcceptFails_GivesUp ==
  /\ accepter = "accept"
  /\ FreeFds = {} \/ (~Listening /\ backlog = <<>>)
  /\ accepter' = "none"
  /\ backlog' = IF Listening THEN backlog ELSE <<>>
  /\ UNCHANGED <<impl, main, todo, clients, sending, threads,
                 fdt, node, peer, shut, history>>

\* Mutant: the result is not looked at, and accept4's error enters the list.
AcceptFails_Unchecked ==
  /\ accepter = "accept"
  /\ FreeFds = {} \/ (~Listening /\ backlog = <<>>)
  /\ clients' = Append(clients, "none")
  /\ accepter' = IF impl THEN "loop" ELSE "none"
  /\ backlog' = IF Listening THEN backlog ELSE <<>>
  /\ UNCHANGED <<impl, main, todo, sending, threads, fdt, node, peer, shut, history>>

\* accept4 has no number to give (EMFILE) or the listener has been shut down (EINVAL).
AcceptFails ==
  /\ accepter = "accept"
  /\ FreeFds = {} \/ (~Listening /\ backlog = <<>>)
  /\ accepter' = IF impl THEN "loop" ELSE "none"
  /\ backlog' = IF Listening THEN backlog ELSE <<>>
  /\ UNCHANGED <<impl, main, todo, clients, sending, threads,
                 fdt, node, peer, shut, history>>

\* The number enters the list, under the lock, and the client thread is spawned.
Push ==
  /\ accepter = "push" /\ LocksFree
  /\ \E c \in Conns :
       /\ thread[c] = "accepted"
       /\ clients' = Append(clients, fdOf[c])
       /\ thread' = [thread EXCEPT ![c] = "call"]
  /\ accepter' = "loop"
  /\ UNCHANGED <<impl, main, todo, sending, fdOf, kernel, history>>

----------------------------------------------------------------------------
(* The client threads                                                       *)

At(c, from) == thread[c] = from
GoTo(c, to) == thread' = [thread EXCEPT ![c] = to] /\ UNCHANGED fdOf
Ends(c)     == thread' = [thread EXCEPT ![c] = "none"] /\ fdOf' = [fdOf EXCEPT ![c] = "none"]

\* recv looks its number up and waits on what it finds.
CallRecv(c) ==
  /\ At(c, "call")
  /\ GoTo(c, CASE fdt[fdOf[c]] = c      -> "recv"
               [] fdt[fdOf[c]] = "free" -> "drop"
               [] OTHER                 -> "foreign")
  /\ UNCHANGED <<server, kernel, history>>

\* Part of a frame, or a frame that is answered or given to the handler.
Receive(c) ==
  /\ At(c, "recv")
  /\ peer[c] = "open" /\ c \notin shut
  /\ GoTo(c, "call")
  /\ UNCHANGED <<server, kernel, history>>

\* The frame has a wrong magic or version, or is too long.
BadFrame(c) ==
  /\ At(c, "recv")
  /\ peer[c] = "open" /\ c \notin shut
  /\ GoTo(c, "drop")
  /\ UNCHANGED <<server, kernel, history>>

\* recv returns 0.
EndOfFile(c) ==
  /\ At(c, "recv")
  /\ peer[c] = "closed" \/ c \in shut
  /\ GoTo(c, "drop")
  /\ UNCHANGED <<server, kernel, history>>

\* What a recv gets from somebody else's descriptor is no frame of this protocol.
ForeignData(c) ==
  /\ At(c, "foreign")
  /\ GoTo(c, "drop")
  /\ UNCHANGED <<server, kernel, history>>

\* DropClient leaves the descriptor to Stop if impl_ is gone.
Drop(c) ==
  /\ At(c, "drop")
  /\ IF impl THEN GoTo(c, "close") ELSE Ends(c)
  /\ UNCHANGED <<server, kernel, history>>

\* Mutant: the descriptor is not closed.
CloseOwn_Leaks(c) ==
  /\ At(c, "close")
  /\ GoTo(c, "remove")
  /\ UNCHANGED <<server, kernel, history>>

\* close(fd), whatever it refers to by now, and before the lock.
CloseOwn(c) ==
  /\ At(c, "close")
  /\ fdt' = [fdt EXCEPT ![fdOf[c]] = "free"]
  /\ GoTo(c, "remove")
  /\ UNCHANGED <<server, node, backlog, peer, shut, history>>

\* Mutant: every entry with this number goes, the new client's that got it too.
RemoveOwn_All(c) ==
  /\ At(c, "remove") /\ LocksFree
  /\ clients' = SelectSeq(clients, LAMBDA f : f # fdOf[c])
  /\ Ends(c)
  /\ UNCHANGED <<impl, main, todo, accepter, sending, kernel, history>>

\* The first entry with this number is overwritten with the last one; the thread ends.
RemoveOwn(c) ==
  /\ At(c, "remove") /\ LocksFree
  /\ clients' =
       IF fdOf[c] \in ToSet(clients)
       THEN LET i == SelectInSeq(clients, LAMBDA f : f = fdOf[c])
            IN Front([clients EXCEPT ![i] = Last(clients)])
       ELSE clients
  /\ Ends(c)
  /\ UNCHANGED <<impl, main, todo, accepter, sending, kernel, history>>

----------------------------------------------------------------------------
(* The guests, the rest of the application, and its end                     *)

\* ConnectHost finds the listener behind the node. Otherwise it fails, and the guest
\* sleeps and tries again.
Connect(c) ==
  /\ node = "bound" /\ Listening
  /\ peer[c] = "closed" /\ ~Held(c) /\ thread[c] = "none"
  /\ peer' = [peer EXCEPT ![c] = "open"]
  /\ backlog' = Append(backlog, c)
  /\ UNCHANGED <<server, threads, fdt, node, shut, history>>

\* The guest's end is closed: by its ReadFull that failed, or because the guest died.
GuestCloses(c) ==
  /\ peer[c] = "open"
  /\ peer' = [peer EXCEPT ![c] = "closed"]
  /\ shut' = shut \ {c}
  /\ due' = due \ {c}
  /\ UNCHANGED <<server, threads, fdt, node, backlog, crashed>>

\* ReadFull fails because the host has hung up.
SeesHangUp(c) == HungUp(c) /\ GuestCloses(c)

\* Another part of the application opens a descriptor; one at a time.
StrangerOpens ==
  /\ \A f \in Fds : fdt[f] # "stranger"
  /\ \E f \in FreeFds : fdt' = [fdt EXCEPT ![f] = "stranger"]
  /\ UNCHANGED <<server, threads, node, backlog, peer, shut, history>>

StrangerCloses ==
  /\ \E f \in Fds : fdt[f] = "stranger" /\ fdt' = [fdt EXCEPT ![f] = "free"]
  /\ UNCHANGED <<server, threads, node, backlog, peer, shut, history>>

\* The application is killed.
HostDies == ProcessEnds /\ UNCHANGED crashed

----------------------------------------------------------------------------
StopSteps == \/ StopBegin \/ CloseListener \/ JoinAccept \/ CloseClient
             \/ ClientsClosed \/ StopEnd
Broadcast == BroadcastBegin \/ SendNext \/ SendWaits \/ SendResumes \/ BroadcastEnd
Acceptor  == AcceptBegin \/ AcceptCrashes \/ AcceptLoop \/ Accept \/ AcceptFails \/ Push
\* What a client thread does without waiting for its guest.
ClientRuns(c)  == CallRecv(c) \/ EndOfFile(c) \/ Drop(c) \/ CloseOwn(c) \/ RemoveOwn(c)
ClientHears(c) == Receive(c) \/ BadFrame(c) \/ ForeignData(c)
Guest(c)       == Connect(c) \/ GuestCloses(c)

Next ==
  \/ Start \/ StartFails \/ StopSteps
  \/ Broadcast
  \/ Acceptor
  \/ \E c \in Conns : ClientRuns(c) \/ ClientHears(c) \/ Guest(c)
  \/ StrangerOpens \/ StrangerCloses
  \/ HostDies

\* The main thread runs on inside a call, the accept thread and the client threads run
\* on where they do not wait, and a guest that reads an end of file closes its end. A send
\* ends when its guest has; nobody answers for the other end of a stranger's socket.
Fairness ==
  /\ WF_vars(main # "idle" /\ (StopSteps \/ SendNext \/ BroadcastEnd))
  /\ WF_vars(main = "wait" /\ sending \in Conns /\ peer[sending] = "closed" /\ SendResumes)
  /\ WF_vars(Acceptor)
  /\ \A c \in Conns : WF_vars(ClientRuns(c)) /\ WF_vars(SeesHangUp(c))

Spec == Init /\ [][Next]_vars /\ Fairness

----------------------------------------------------------------------------
(* Properties                                                               *)

\* When no server is set and no call is in progress, nothing of one is left: no thread,
\* no descriptor, no list, no node of a live server. A connection that the accept thread
\* still takes while Stop is at work is not forgotten.
StopLeavesNothing ==
  main = "idle" /\ ~impl =>
    /\ accepter = "none"
    /\ \A c \in Conns : thread[c] = "none"
    /\ \A f \in Fds : fdt[f] \in {"free", "stranger"}
    /\ clients = <<>> /\ backlog = <<>>
    /\ node # "bound"

\* A client thread that runs has its own descriptor, and the list names it, so that Stop
\* will reach it: although DropClient closes before it removes, and the list may hold a
\* number twice meanwhile.
ListedWhileServed ==
  ~Stopping =>
    \A c \in Conns :
      thread[c] \in {"call", "recv", "drop", "close"} =>
        fdt[fdOf[c]] = c /\ (thread[c] # "close" => fdOf[c] \in ToSet(clients))

\* A Broadcast that is over has reached every guest that was served when it began and
\* still is, whoever came, went or got a number again in between.
BroadcastReachesAll ==
  main = "send" /\ todo = <<>> =>
    \A c \in due : thread[c] \notin {"call", "recv"}

\* Stop and Broadcast return, unless one of three waits that have no bound holds them: a
\* send to a guest that does not read what it is sent; a send on a stranger's socket that
\* has taken the number of a dropped guest (both main = "wait"); or the join of a client
\* thread that waits on somebody else's descriptor, where Stop's shutdown does not reach it.
CallsReturn ==
  main # "idle" ~>
    \/ main = "idle"
    \/ main = "wait"
    \/ \E c \in Conns : thread[c] = "foreign"

\* A guest that has connected is served, or sees that it will not be and can try again,
\* unless the application has no number left for it.
GuestsServed ==
  \A c \in Conns :
    c \in ToSet(backlog) ~> \/ thread[c] = "call"
                            \/ peer[c] = "closed"
                            \/ FreeFds = {}

\* When a server has been stopped, no guest is left with a connection that nobody serves:
\* its thread goes round and connects to the next server.
GuestsReleased ==
  \A c \in Conns :
    main = "idle" /\ ~impl /\ peer[c] = "open" ~> peer[c] = "closed"

\* ipc.h of Stop: "Joins all threads and removes the socket node". The accept thread is
\* there to be joined, and does not end the process instead.
StopJoinsThreads == ~crashed

============================================================================
