------------------------------ MODULE UdpServer ------------------------------
(***************************************************************************)
(* The UDP server of the DHCP service, dhcp/src/UdpListener.{hpp,cpp}.     *)
(*                                                                         *)
(* A receiver thread moves datagrams from the socket to a std::queue; the  *)
(* owner of the object polls the queue, may answer what it got with        *)
(* send_to (the loop of dhcp/src/main.cpp) and may destroy the object      *)
(* between two polls.  Both threads are split at the statements the other  *)
(* one can observe, and send_to at every call that changes the process's   *)
(* table of descriptors, in which other threads open their own.            *)
(*                                                                         *)
(* Datagrams are numbered in the order in which they arrive; MaxDatagrams  *)
(* bounds how many do.  The history variables `accepted` and `delivered`   *)
(* are what the receiver took and what get_next_datagram returned.         *)
(***************************************************************************)
EXTENDS Naturals, Sequences

CONSTANTS
    MaxFds,             \* descriptors the process may have
    MaxDatagrams,       \* bound on the datagrams that arrive
    SocketCapacity,     \* datagrams the kernel keeps for the socket
    EmptyDatagrams      \* the datagrams without payload: recvfrom returns 0

ASSUME CapacityAssumption ==
    MaxDatagrams \in Nat /\ SocketCapacity \in Nat /\ MaxFds \in Nat \ {0}
ASSUME EmptyAssumption == EmptyDatagrams \subseteq 1 .. MaxDatagrams

VARIABLES
    arrived,        \* number of datagrams that reached the host
    socket,         \* datagrams in the kernel's buffer
    stopFlag,       \* _stop_flag
    mutex,          \* the thread that holds _mutex
    queue,          \* _queue
    receiver, hand, \* the receiver thread: where it is, what it is about to push
    owner, blank, got,  \* the owner: where it is, what its last calls returned
    fds,            \* who each descriptor of the process belongs to
    raw, sending,   \* raw_socket and socket_for_sending of the last send_to
    window,         \* descriptors others opened since raw_socket was first closed
    accepted, delivered

wire == <<arrived, socket>>
sendVars == <<fds, raw, sending, window>>
receiverVars == <<receiver, hand>>
ownerVars == <<owner, blank, got>>
vars == <<wire, stopFlag, mutex, queue, receiverVars, ownerVars, sendVars, accepted, delivered>>

Datagrams == 1 .. MaxDatagrams
Holders == {"nobody", "receiver", "owner"}
ReceiverSteps == {"check", "recv", "lock", "push", "unlock", "done"}
PollSteps == {"idle", "size", "polled", "get", "front", "pop", "return"}
SendSteps == {"serve", "raw", "between", "sending", "sent", "threw"}
OwnerSteps == PollSteps \cup SendSteps \cup {"join", "close", "closed"}

Fds == 1 .. MaxFds
Socket == 1             \* _socket, the first descriptor that is opened
Users == {"free", "server", "raw", "sending", "other"}

TypeOK ==
    /\ arrived \in 0 .. MaxDatagrams
    /\ socket \in Seq(Datagrams)
    /\ stopFlag \in BOOLEAN /\ blank \in BOOLEAN
    /\ mutex \in Holders
    /\ queue \in Seq(Datagrams)
    /\ receiver \in ReceiverSteps /\ hand \in Seq(Datagrams)
    /\ owner \in OwnerSteps /\ got \in Seq(Datagrams)
    /\ fds \in [Fds -> Users] /\ raw \in Fds /\ sending \in Fds /\ window \subseteq Fds
    /\ accepted \in Seq(Datagrams) /\ delivered \in Seq(Datagrams)

\* The constructor has bound the socket and started the thread.
Init ==
    /\ arrived = 0 /\ socket = << >>
    /\ stopFlag = FALSE
    /\ fds = [fd \in Fds |-> IF fd = Socket THEN "server" ELSE "free"]
    /\ raw = Socket /\ sending = Socket /\ window = {}
    /\ mutex = "nobody" /\ queue = << >>
    /\ receiver = "check" /\ hand = << >>
    /\ owner = "idle" /\ blank = TRUE /\ got = << >>
    /\ accepted = << >> /\ delivered = << >>

-----------------------------------------------------------------------------
(* The network: a datagram that finds the kernel's buffer full is dropped. *)

Arrive ==
    /\ arrived < MaxDatagrams
    /\ arrived' = arrived + 1
    /\ socket' = IF fds[Socket] = "server" /\ Len(socket) < SocketCapacity
                 THEN Append(socket, arrived') ELSE socket
    /\ UNCHANGED <<stopFlag, sendVars, mutex, queue, receiverVars, ownerVars, accepted, delivered>>

-----------------------------------------------------------------------------
(* thread_func *)

ReceiverCheckIgnoringStop ==
    /\ receiver = "check" /\ receiver' = "recv"
    /\ UNCHANGED <<wire, stopFlag, sendVars, mutex, queue, hand, ownerVars, accepted, delivered>>

ReceiverCheck ==
    /\ receiver = "check"
    /\ receiver' = IF stopFlag THEN "done" ELSE "recv"
    /\ UNCHANGED <<wire, stopFlag, sendVars, mutex, queue, hand, ownerVars, accepted, delivered>>

\* recvfrom returns a datagram, which is copied out of the buffer unless it is empty.
ReceiverRecv ==
    /\ receiver = "recv" /\ socket # << >>
    /\ socket' = Tail(socket)
    /\ IF Head(socket) \in EmptyDatagrams
       THEN receiver' = "check" /\ UNCHANGED <<hand, accepted>>
       ELSE /\ receiver' = "lock"
            /\ hand' = <<Head(socket)>>
            /\ accepted' = Append(accepted, Head(socket))
    /\ UNCHANGED <<arrived, stopFlag, sendVars, mutex, queue, ownerVars, delivered>>

\* recvfrom fails, for instance because a signal interrupted it.
ReceiverRecvError ==
    /\ receiver = "recv" /\ receiver' = "check"
    /\ UNCHANGED <<wire, stopFlag, sendVars, mutex, queue, hand, ownerVars, accepted, delivered>>

ReceiverLockWithoutMutex ==
    /\ receiver = "lock" /\ receiver' = "push"
    /\ UNCHANGED <<wire, stopFlag, sendVars, mutex, queue, hand, ownerVars, accepted, delivered>>

ReceiverLock ==
    /\ receiver = "lock" /\ mutex = "nobody"
    /\ receiver' = "push" /\ mutex' = "receiver"
    /\ UNCHANGED <<wire, stopFlag, sendVars, queue, hand, ownerVars, accepted, delivered>>

ReceiverPushInFront ==
    /\ receiver = "push" /\ receiver' = "unlock"
    /\ queue' = hand \o queue /\ hand' = << >>
    /\ UNCHANGED <<wire, stopFlag, sendVars, mutex, ownerVars, accepted, delivered>>

ReceiverPush ==
    /\ receiver = "push" /\ receiver' = "unlock"
    /\ queue' = queue \o hand /\ hand' = << >>
    /\ UNCHANGED <<wire, stopFlag, sendVars, mutex, ownerVars, accepted, delivered>>

ReceiverUnlock ==
    /\ receiver = "unlock" /\ receiver' = "check" /\ mutex' = "nobody"
    /\ UNCHANGED <<wire, stopFlag, sendVars, queue, hand, ownerVars, accepted, delivered>>

Receiver ==
    \/ ReceiverCheck \/ ReceiverRecv \/ ReceiverRecvError
    \/ ReceiverLock \/ ReceiverPush \/ ReceiverUnlock

-----------------------------------------------------------------------------
(* The owner: is_input_queue_blank, get_next_datagram, the destructor *)

OwnerLock(from, to) ==
    /\ owner = from /\ mutex = "nobody"
    /\ owner' = to /\ mutex' = "owner"
    /\ UNCHANGED <<wire, stopFlag, sendVars, queue, receiverVars, blank, got, accepted, delivered>>

BlankLock == OwnerLock("idle", "size")

BlankSizeInverted ==
    /\ owner = "size" /\ owner' = "polled" /\ mutex' = "nobody"
    /\ blank' = (queue # << >>)
    /\ UNCHANGED <<wire, stopFlag, sendVars, queue, receiverVars, got, accepted, delivered>>

\* The lock guard releases the mutex when the call returns.
BlankSize ==
    /\ owner = "size" /\ owner' = "polled" /\ mutex' = "nobody"
    /\ blank' = (queue = << >>)
    /\ UNCHANGED <<wire, stopFlag, sendVars, queue, receiverVars, got, accepted, delivered>>

OwnerBranchAlwaysGets ==
    /\ owner = "polled" /\ owner' = "get"
    /\ UNCHANGED <<wire, stopFlag, sendVars, mutex, queue, receiverVars, blank, got, accepted, delivered>>

\* The loop goes round if the queue was blank.
OwnerBranch ==
    /\ owner = "polled" /\ owner' = IF blank THEN "idle" ELSE "get"
    /\ UNCHANGED <<wire, stopFlag, sendVars, mutex, queue, receiverVars, blank, got, accepted, delivered>>

GetLock == OwnerLock("get", "front")

\* front() of an empty std::queue is undefined: no value is read here then.
GetFront ==
    /\ owner = "front" /\ owner' = "pop"
    /\ got' = IF queue = << >> THEN << >> ELSE <<Head(queue)>>
    /\ UNCHANGED <<wire, stopFlag, sendVars, mutex, queue, receiverVars, blank, accepted, delivered>>

GetPop ==
    /\ owner = "pop" /\ owner' = "return"
    /\ queue' = IF queue = << >> THEN << >> ELSE Tail(queue)
    /\ UNCHANGED <<wire, stopFlag, sendVars, mutex, receiverVars, blank, got, accepted, delivered>>

GetReturn ==
    /\ owner = "return" /\ owner' = "serve" /\ mutex' = "nobody"
    /\ delivered' = delivered \o got /\ got' = << >>
    /\ UNCHANGED <<wire, stopFlag, sendVars, queue, receiverVars, blank, accepted>>

-----------------------------------------------------------------------------
(* send_to: the owner answers what it got.  A descriptor that is opened is the *)
(* lowest free one, and close() frees a number, whoever it belongs to.         *)

FreeFds == {fd \in Fds : fds[fd] = "free"}
LowestFree == {fd \in FreeFds : \A other \in FreeFds : fd <= other}
Opened(fd, user) == [fds EXCEPT ![fd] = user]
Closed(fd) == [fds EXCEPT ![fd] = "free"]

\* The main loop goes round without an answer.
NoAnswer ==
    /\ owner = "serve" /\ owner' = "idle"
    /\ UNCHANGED <<wire, stopFlag, sendVars, mutex, queue, receiverVars, blank, got, accepted, delivered>>

SendOpenRawShadowed ==
    /\ owner = "serve" /\ owner' = "raw"
    /\ \E fd \in LowestFree : fds' = Opened(fd, "raw")
    /\ UNCHANGED <<wire, stopFlag, raw, sending, window, mutex, queue, receiverVars, blank, got, accepted, delivered>>

SendOpenRaw ==
    /\ owner = "serve" /\ owner' = "raw"
    /\ \E fd \in LowestFree : raw' = fd /\ fds' = Opened(fd, "raw")
    /\ UNCHANGED <<wire, stopFlag, sending, window, mutex, queue, receiverVars, blank, got, accepted, delivered>>

\* The interface's addresses have been read: close(raw_socket).
SendCloseRaw ==
    /\ owner = "raw"
    /\ owner' = "between" /\ fds' = Closed(raw) /\ window' = {}
    /\ UNCHANGED <<wire, stopFlag, raw, sending, mutex, queue, receiverVars, blank, got, accepted, delivered>>

SendOpenSending ==
    /\ owner = "between" /\ owner' = "sending"
    /\ \E fd \in LowestFree : sending' = fd /\ fds' = Opened(fd, "sending")
    /\ UNCHANGED <<wire, stopFlag, raw, window, mutex, queue, receiverVars, blank, got, accepted, delivered>>

SendWithoutDefer ==
    /\ owner = "sending" /\ owner' = "sent"
    /\ UNCHANGED <<wire, stopFlag, sendVars, mutex, queue, receiverVars, blank, got, accepted, delivered>>

\* sendto; the last Defer to be declared is the first to run.
SendAndClose ==
    /\ owner = "sending" /\ owner' = "sent" /\ fds' = Closed(sending)
    /\ UNCHANGED <<wire, stopFlag, raw, sending, window, mutex, queue, receiverVars, blank, got, accepted, delivered>>

\* close_raw_socket closes the number a second time.
SendCloseRawAgain ==
    /\ owner = "sent" /\ owner' = "idle" /\ fds' = Closed(raw) /\ window' = {}
    /\ UNCHANGED <<wire, stopFlag, raw, sending, mutex, queue, receiverVars, blank, got, accepted, delivered>>

\* A socket cannot be had, or an ioctl, setsockopt or sendto fails: nothing catches it.
SendThrows ==
    /\ owner \in {"serve", "raw", "between", "sending"} /\ owner' = "threw"
    /\ UNCHANGED <<wire, stopFlag, sendVars, mutex, queue, receiverVars, blank, got, accepted, delivered>>

SendStarves == owner \in {"serve", "between"} /\ FreeFds = {} /\ SendThrows

Send ==
    \/ NoAnswer \/ SendOpenRaw \/ SendCloseRaw \/ SendOpenSending
    \/ SendAndClose \/ SendCloseRawAgain

\* Another thread opens a descriptor and keeps it: the acceptor of api_server.cpp
\* never closes a connection.
OtherOpens ==
    /\ \E fd \in LowestFree :
          /\ fds' = Opened(fd, "other")
          /\ window' = IF owner \in {"between", "sending", "sent"}
                       THEN window \cup {fd} ELSE window
    /\ UNCHANGED <<wire, stopFlag, raw, sending, mutex, queue, receiverVars, ownerVars, accepted, delivered>>

-----------------------------------------------------------------------------
(* The destructor *)

\* The destructor calls stop() first.
Stop ==
    /\ owner = "idle" /\ owner' = "join" /\ stopFlag' = TRUE
    /\ UNCHANGED <<wire, sendVars, mutex, queue, receiverVars, blank, got, accepted, delivered>>

JoinWithoutWaiting ==
    /\ owner = "join" /\ owner' = "close"
    /\ UNCHANGED <<wire, stopFlag, sendVars, mutex, queue, receiverVars, blank, got, accepted, delivered>>

Join ==
    /\ owner = "join" /\ receiver = "done" /\ owner' = "close"
    /\ UNCHANGED <<wire, stopFlag, sendVars, mutex, queue, receiverVars, blank, got, accepted, delivered>>

Close ==
    /\ owner = "close" /\ owner' = "closed" /\ fds' = Closed(Socket)
    /\ UNCHANGED <<wire, stopFlag, raw, sending, window, mutex, queue, receiverVars, blank, got, accepted, delivered>>

Poll == BlankLock \/ BlankSize \/ OwnerBranch \/ GetLock \/ GetFront \/ GetPop \/ GetReturn

Destroy == Join \/ Close

\* An exception nobody catches ends the process.
Running == owner # "threw"

Next ==
    /\ Running
    /\ Arrive \/ Receiver \/ Poll \/ Send \/ SendThrows \/ OtherOpens \/ Stop \/ Destroy

Spec == Init /\ [][Next]_vars

(* Both threads keep running.  Acquiring the mutex is strongly fair: the    *)
(* owner releases it between any two of its calls, and a waiting thread is *)
(* assumed to win eventually.  Nothing makes datagrams arrive, recvfrom     *)
(* fail, another thread open a descriptor or the owner destroy the object;  *)
(* send_to must fail only when no descriptor is left.                       *)
Fairness ==
    /\ WF_vars(Running /\ (ReceiverCheck \/ ReceiverRecv \/ ReceiverPush \/ ReceiverUnlock))
    /\ WF_vars(BlankSize \/ OwnerBranch \/ GetFront \/ GetPop \/ GetReturn)
    /\ WF_vars(Send) /\ WF_vars(SendStarves)
    /\ WF_vars(Destroy)
    /\ SF_vars(Running /\ ReceiverLock)
    /\ SF_vars(BlankLock) /\ SF_vars(GetLock)

FairSpec == Spec /\ Fairness

-----------------------------------------------------------------------------
(* Properties *)

ReceiverInQueue == receiver \in {"push", "unlock"}
OwnerInQueue == owner \in {"size", "front", "pop", "return"}

\* std::queue is not safe for concurrent use: the two threads are never inside it
\* at the same time.
QueueExclusive == ~(ReceiverInQueue /\ OwnerInQueue)

\* The owner asks whether the queue is blank and takes its front under two separate
\* locks: what it learned still holds when it takes the front.
FrontExists == owner \in {"get", "front", "pop"} => queue # << >>

\* With its two locks, its mutex and its copies on the way, the server is still a
\* queue: get_next_datagram returns what recvfrom received, in order, once each.
Queue == INSTANCE Fifo WITH Items <- Datagrams, put <- accepted, taken <- delivered
ImplementsFifo == Queue!Spec

\* recvfrom is called on a number, not on a socket: as long as the thread may call it,
\* the number is the server's own socket, whatever send_to and the destructor close.
ReceiverUsesItsSocket == receiver # "done" => fds[Socket] = "server"

\* send_to closes raw_socket twice.  The second close hits a descriptor of another
\* thread only if that thread opened it after the first close, and nothing else in the
\* server ever closes what another thread opened.
StrayCloseOnlyInWindow == [][\A fd \in Fds :
    (fds[fd] = "other" /\ fds'[fd] # "other") => (owner = "sent" /\ fd = raw /\ fd \in window)]_vars

-----------------------------------------------------------------------------
(* The inductive invariant behind the safety properties above *)

\* The mutex is held by the thread that is inside the queue, and by no other.
LockHeld ==
    /\ mutex = "receiver" <=> ReceiverInQueue
    /\ mutex = "owner" <=> OwnerInQueue

\* From the poll that found the queue not blank until it takes the front, the owner
\* is the only one to take anything; then it holds what was in front.
FrontStays ==
    /\ owner = "polled" /\ ~blank => queue # << >>
    /\ FrontExists
    /\ owner = "pop" => got = <<Head(queue)>>
    /\ owner \notin {"pop", "return"} => got = << >>

\* Every datagram taken from the socket is delivered, waits in the queue, or is in the
\* hands of one of the threads, in this order.
Outstanding == IF owner = "return" THEN got \o queue ELSE queue
NothingLost ==
    /\ accepted = delivered \o (Outstanding \o hand)
    /\ receiver \in {"lock", "push"} <=> hand # << >>
    /\ owner = "return" => Len(got) = 1

\* The destructor waits for the thread before it closes the socket.
SocketKept ==
    /\ owner # "closed" => fds[Socket] = "server"
    /\ owner \in {"close", "closed"} => receiver = "done"

\* Each socket of send_to has its number until it is closed, and none is left open by
\* an answer, whatever other threads open in the meantime: answering cannot use up the
\* descriptors.
NoLeak ==
    /\ owner = "raw" => fds[raw] = "raw"
    /\ owner = "sending" => fds[sending] = "sending"
    /\ owner \in {"between", "sending", "sent"} =>
          raw # Socket /\ (fds[raw] = "other" => raw \in window)
    /\ \A fd \in Fds :
          /\ fds[fd] = "raw" => owner \in {"raw", "threw"} /\ fd = raw
          /\ fds[fd] = "sending" => owner \in {"sending", "threw"} /\ fd = sending

IInv == TypeOK /\ LockHeld /\ FrontStays /\ NothingLost /\ SocketKept /\ NoLeak

-----------------------------------------------------------------------------
(* Liveness *)

\* The destructor finishes unless the thread is blocked in recvfrom with nothing to
\* receive: neither the mutex nor a datagram on its way can hold it up.
StopCompletes ==
    (owner = "join" /\ (receiver = "recv" => socket # << >>)) ~> (owner = "closed")

\* A datagram the receiver took is returned by get_next_datagram, unless the owner
\* destroys the object first or an answer could not be sent.
TakenIsDelivered == \A d \in Datagrams :
    (\E i \in 1 .. Len(accepted) : accepted[i] = d)
        ~> ((\E i \in 1 .. Len(delivered) : delivered[i] = d) \/ stopFlag \/ ~Running)
=============================================================================
