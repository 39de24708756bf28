----------------------------- MODULE TcpListener -----------------------------
(***************************************************************************)
(* common/src/TcpListener.hpp and TcoListener.cpp, with the head of the    *)
(* loop that uses it, core/src/main.cpp:86-90.                             *)
(*                                                                         *)
(* An acceptor thread starts one handler thread per connection; handlers   *)
(* read their stream into packets and push them to one queue under         *)
(* _queue_mutex; the owner polls the queue, and may stop and start the     *)
(* listener between two polls, as its public interface allows.  Threads    *)
(* are split at the statements the others can observe.                     *)
(*                                                                         *)
(* A stream is a sequence of numbered pieces; read() returns any non-empty *)
(* prefix of what has arrived, since TCP keeps no message boundaries.      *)
(* MaxPieces bounds what a client sends, Connections who connects, MaxFree *)
(* the descriptors the process can still open when it starts.              *)
(***************************************************************************)
EXTENDS Naturals, Sequences, SequencesExt

CONSTANTS
    Connections,        \* each connects at most once
    MaxPieces,          \* bound on the pieces sent over a connection
    MaxConnections,     \* _max_connections: the backlog given to listen()
    MaxFree             \* descriptors the process may open

NoOne == "nobody"
OwnerId == "owner"

ASSUME BoundsAssumption ==
    MaxPieces \in Nat /\ MaxConnections \in Nat /\ MaxFree \in Nat
ASSUME ThreadsAssumption == NoOne \notin Connections /\ OwnerId \notin Connections

VARIABLES
    backlog,            \* connections established and not yet accepted
    sent, stream, eof,  \* per connection: pieces sent, pieces unread, closed by the client
    stopFlag, mutex, queue,
    free,               \* descriptors the process can still open
    acceptor,           \* where the acceptor thread is, "none" when there is none
    handler, hand,      \* per connection: where its handler is, the packet it holds
    owner, empty        \* the owner: where it is, what is_empty returned

clientVars == <<backlog, sent, stream, eof>>
handlerVars == <<handler, hand>>
ownerVars == <<owner, empty>>
vars == <<clientVars, stopFlag, mutex, queue, free, acceptor, handlerVars, ownerVars>>

Pieces == 1 .. MaxPieces
Packets == [from : Connections, data : Seq(Pieces)]
AcceptorSteps == {"none", "listen", "check", "accept", "join", "done", "threw"}
HandlerSteps == {"none", "check", "read", "lock", "push", "unlock", "done"}
OwnerSteps == {"idle", "size", "polled", "get", "take", "threw", "join", "stopped"}

TypeOK ==
    /\ backlog \in Seq(Connections)
    /\ sent \in [Connections -> 0 .. MaxPieces]
    /\ stream \in [Connections -> Seq(Pieces)]
    /\ eof \in [Connections -> BOOLEAN]
    /\ stopFlag \in BOOLEAN /\ empty \in BOOLEAN
    /\ mutex \in Connections \cup {NoOne, OwnerId}
    /\ queue \in Seq(Packets)
    /\ acceptor \in AcceptorSteps /\ free \in 0 .. MaxFree
    /\ handler \in [Connections -> HandlerSteps]
    /\ hand \in [Connections -> Seq(Pieces)]
    /\ owner \in OwnerSteps

\* The constructor calls start().
Init ==
    /\ backlog = << >>
    /\ sent = [c \in Connections |-> 0]
    /\ stream = [c \in Connections |-> << >>]
    /\ eof = [c \in Connections |-> FALSE]
    /\ stopFlag = FALSE /\ mutex = NoOne /\ queue = << >>
    /\ acceptor = "listen" /\ free \in 0 .. MaxFree
    /\ handler = [c \in Connections |-> "none"]
    /\ hand = [c \in Connections |-> << >>]
    /\ owner = "idle" /\ empty = TRUE

-----------------------------------------------------------------------------
(* The clients *)

Listening == acceptor \in {"check", "accept", "join"}

\* A connection is known to the listener from the backlog until its handler ends.
Connected(c) == handler[c] # "none" \/ Contains(backlog, c)

Connect(c) ==
    /\ Listening /\ ~Connected(c) /\ Len(backlog) < MaxConnections
    /\ ~eof[c] /\ sent[c] = 0
    /\ backlog' = Append(backlog, c)
    /\ UNCHANGED <<sent, stream, eof, stopFlag, mutex, queue, acceptor, handlerVars, ownerVars, free>>

Send(c) ==
    /\ Connected(c) /\ ~eof[c] /\ sent[c] < MaxPieces
    /\ sent' = [sent EXCEPT ![c] = @ + 1]
    /\ stream' = [stream EXCEPT ![c] = Append(@, sent'[c])]
    /\ UNCHANGED <<backlog, eof, stopFlag, mutex, queue, acceptor, handlerVars, ownerVars, free>>

Shutdown(c) ==
    /\ Connected(c) /\ ~eof[c]
    /\ eof' = [eof EXCEPT ![c] = TRUE]
    /\ UNCHANGED <<backlog, sent, stream, stopFlag, mutex, queue, acceptor, handlerVars, ownerVars, free>>

-----------------------------------------------------------------------------
(* _thread_func *)

\* The socket, one more descriptor, is bound and listens.
AcceptorListen ==
    /\ acceptor = "listen" /\ free > 0
    /\ acceptor' = "check" /\ free' = free - 1
    /\ UNCHANGED <<clientVars, stopFlag, mutex, queue, handlerVars, ownerVars>>

\* socket(), bind() or listen() fails: an exception no thread function catches ends
\* the process.
AcceptorThrows ==
    /\ acceptor = "listen" /\ acceptor' = "threw"
    /\ UNCHANGED <<clientVars, stopFlag, mutex, queue, handlerVars, ownerVars, free>>

AcceptorCheckIgnoringStop ==
    /\ acceptor = "check" /\ acceptor' = "accept"
    /\ UNCHANGED <<clientVars, stopFlag, mutex, queue, handlerVars, ownerVars, free>>

AcceptorCheck ==
    /\ acceptor = "check" /\ acceptor' = IF stopFlag THEN "join" ELSE "accept"
    /\ UNCHANGED <<clientVars, stopFlag, mutex, queue, handlerVars, ownerVars, free>>

\* The connection's descriptor stays open for ever: its handler never closes it.
AcceptorAccept ==
    /\ acceptor = "accept" /\ backlog # << >> /\ free > 0
    /\ acceptor' = "check" /\ free' = free - 1
    /\ backlog' = Tail(backlog)
    /\ handler' = [handler EXCEPT ![Head(backlog)] = "check"]
    /\ UNCHANGED <<sent, stream, eof, stopFlag, mutex, queue, hand, ownerVars>>

AcceptorErrorBreaks ==
    /\ acceptor = "accept" /\ acceptor' = "join"
    /\ UNCHANGED <<clientVars, stopFlag, mutex, queue, handlerVars, ownerVars, free>>

\* accept() fails: the loop goes round.
AcceptorError ==
    /\ acceptor = "accept" /\ acceptor' = "check"
    /\ UNCHANGED <<clientVars, stopFlag, mutex, queue, handlerVars, ownerVars, free>>

AcceptorJoinNobody ==
    /\ acceptor = "join" /\ acceptor' = "done" /\ backlog' = << >> /\ free' = free + 1
    /\ UNCHANGED <<sent, stream, eof, stopFlag, mutex, queue, handlerVars, ownerVars>>

\* Every handler is joined, then the socket is closed with what is in its backlog.
AcceptorJoin ==
    /\ acceptor = "join" /\ \A c \in Connections : handler[c] \in {"none", "done"}
    /\ acceptor' = "done" /\ backlog' = << >> /\ free' = free + 1
    /\ UNCHANGED <<sent, stream, eof, stopFlag, mutex, queue, handlerVars, ownerVars>>

Acceptor ==
    \/ AcceptorListen \/ AcceptorThrows \/ AcceptorCheck
    \/ AcceptorAccept \/ AcceptorError \/ AcceptorJoin

-----------------------------------------------------------------------------
(* _client_handler_thread *)

HandlerCheck(c) ==
    /\ handler[c] = "check"
    /\ handler' = [handler EXCEPT ![c] = IF stopFlag THEN "done" ELSE "read"]
    /\ UNCHANGED <<clientVars, stopFlag, mutex, queue, acceptor, hand, ownerVars, free>>

\* read() returns some of the bytes that have arrived.
HandlerRead(c) ==
    /\ handler[c] = "read"
    /\ \E n \in 1 .. Len(stream[c]) :
          /\ hand' = [hand EXCEPT ![c] = SubSeq(stream[c], 1, n)]
          /\ stream' = [stream EXCEPT ![c] = SubSeq(@, n + 1, Len(@))]
    /\ handler' = [handler EXCEPT ![c] = "lock"]
    /\ UNCHANGED <<backlog, sent, eof, stopFlag, mutex, queue, acceptor, ownerVars, free>>

\* read() returns 0 at the end of the stream, again and again.
HandlerReadNothing(c) ==
    /\ handler[c] = "read" /\ stream[c] = << >> /\ eof[c]
    /\ handler' = [handler EXCEPT ![c] = "check"]
    /\ UNCHANGED <<clientVars, stopFlag, mutex, queue, acceptor, hand, ownerVars, free>>

\* read() fails, for instance because a signal interrupted it: what has arrived stays.
HandlerReadError(c) ==
    /\ handler[c] = "read"
    /\ handler' = [handler EXCEPT ![c] = "check"]
    /\ UNCHANGED <<clientVars, stopFlag, mutex, queue, acceptor, hand, ownerVars, free>>

HandlerLockWithoutMutex(c) ==
    /\ handler[c] = "lock" /\ mutex' = c
    /\ handler' = [handler EXCEPT ![c] = "push"]
    /\ UNCHANGED <<clientVars, stopFlag, queue, acceptor, hand, ownerVars, free>>

HandlerLock(c) ==
    /\ handler[c] = "lock" /\ mutex = NoOne /\ mutex' = c
    /\ handler' = [handler EXCEPT ![c] = "push"]
    /\ UNCHANGED <<clientVars, stopFlag, queue, acceptor, hand, ownerVars, free>>

HandlerPushInFront(c) ==
    /\ handler[c] = "push"
    /\ queue' = <<[from |-> c, data |-> hand[c]]>> \o queue
    /\ hand' = [hand EXCEPT ![c] = << >>]
    /\ handler' = [handler EXCEPT ![c] = "unlock"]
    /\ UNCHANGED <<clientVars, stopFlag, mutex, acceptor, ownerVars, free>>

HandlerPush(c) ==
    /\ handler[c] = "push"
    /\ queue' = Append(queue, [from |-> c, data |-> hand[c]])
    /\ hand' = [hand EXCEPT ![c] = << >>]
    /\ handler' = [handler EXCEPT ![c] = "unlock"]
    /\ UNCHANGED <<clientVars, stopFlag, mutex, acceptor, ownerVars, free>>

HandlerUnlock(c) ==
    /\ handler[c] = "unlock" /\ mutex' = NoOne
    /\ handler' = [handler EXCEPT ![c] = "check"]
    /\ UNCHANGED <<clientVars, stopFlag, queue, acceptor, hand, ownerVars, free>>

Handler(c) ==
    \/ HandlerCheck(c) \/ HandlerRead(c) \/ HandlerReadNothing(c)
    \/ HandlerLock(c) \/ HandlerPush(c) \/ HandlerUnlock(c)

-----------------------------------------------------------------------------
(* The owner *)

EmptyLock ==
    /\ owner = "idle" /\ mutex = NoOne
    /\ owner' = "size" /\ mutex' = OwnerId
    /\ UNCHANGED <<clientVars, stopFlag, queue, acceptor, handlerVars, empty, free>>

EmptySize ==
    /\ owner = "size" /\ owner' = "polled" /\ mutex' = NoOne
    /\ empty' = (queue = << >>)
    /\ UNCHANGED <<clientVars, stopFlag, queue, acceptor, handlerVars, free>>

OwnerBranchAlwaysGets ==
    /\ owner = "polled" /\ owner' = "get"
    /\ UNCHANGED <<clientVars, stopFlag, mutex, queue, acceptor, handlerVars, empty, free>>

OwnerBranch ==
    /\ owner = "polled" /\ owner' = IF empty THEN "idle" ELSE "get"
    /\ UNCHANGED <<clientVars, stopFlag, mutex, queue, acceptor, handlerVars, empty, free>>

GetLock ==
    /\ owner = "get" /\ mutex = NoOne
    /\ owner' = "take" /\ mutex' = OwnerId
    /\ UNCHANGED <<clientVars, stopFlag, queue, acceptor, handlerVars, empty, free>>

\* get_next_packet throws when the queue is not empty.  core/src/main.cpp calls it
\* outside its try block, so the exception ends the process.  When the queue is
\* empty, front() and pop() are undefined: no packet is taken here then.
GetTake ==
    /\ owner = "take" /\ mutex' = NoOne
    /\ owner' = IF queue # << >> THEN "threw" ELSE "idle"
    /\ UNCHANGED <<clientVars, stopFlag, queue, acceptor, handlerVars, empty, free>>

Stop ==
    /\ owner = "idle" /\ owner' = "join" /\ stopFlag' = TRUE
    /\ UNCHANGED <<clientVars, mutex, queue, acceptor, handlerVars, empty, free>>

\* _thread->join() and delete _thread
Join ==
    /\ owner = "join" /\ acceptor = "done"
    /\ owner' = "stopped" /\ acceptor' = "none"
    /\ UNCHANGED <<clientVars, stopFlag, mutex, queue, handlerVars, empty, free>>

Start ==
    /\ owner = "stopped" /\ owner' = "idle"
    /\ stopFlag' = FALSE /\ acceptor' = "listen"
    /\ UNCHANGED <<clientVars, mutex, queue, handlerVars, empty, free>>

Poll == EmptyLock \/ EmptySize \/ OwnerBranch \/ GetLock \/ GetTake

\* The process ends when get_next_packet or the acceptor throws: nothing runs then.
Alive == owner # "threw" /\ acceptor # "threw"

Next ==
    /\ Alive
    /\ \/ Acceptor \/ Poll \/ Stop \/ Join \/ Start
       \/ \E c \in Connections :
              Connect(c) \/ Send(c) \/ Shutdown(c) \/ Handler(c) \/ HandlerReadError(c)

Spec == Init /\ [][Next]_vars

(* Threads keep running; no client has to connect, send or close, and no    *)
(* read() has to fail.  The calls that open a descriptor fail if there is   *)
(* none left; otherwise they may fail, accept() not every time for ever.    *)
Runs(A) == Alive /\ A
Fairness ==
    /\ WF_vars(Runs(AcceptorListen \/ AcceptorCheck \/ AcceptorJoin))
    /\ SF_vars(Runs(AcceptorAccept))
    /\ WF_vars(Runs(free = 0 /\ (AcceptorThrows \/ AcceptorError)))
    /\ \A c \in Connections : WF_vars(Runs(Handler(c)))
    /\ WF_vars(Runs(Join))

FairSpec == Spec /\ Fairness

-----------------------------------------------------------------------------
(* Properties *)

InQueue == {c \in Connections : handler[c] \in {"push", "unlock"}}

\* At most one thread is inside the queue, of all the handlers and the owner.
QueueExclusive ==
    /\ \A c, d \in InQueue : c = d
    /\ owner \in {"size", "take"} => InQueue = {}

\* The pieces from `first` to `last`, as they follow one another in a stream.
Run(first, last) == [i \in 1 .. last + 1 - first |-> first + i - 1]

\* How many pieces of a connection its handler has read, and how many it has queued.
ReadOf(c) == sent[c] - Len(stream[c])
QueuedOf(c) == ReadOf(c) - Len(hand[c])
PacketsOf(c) == {i \in 1 .. Len(queue) : queue[i].from = c}

\* The packets at `indices` are the pieces 1 .. n cut at some points: each holds
\* successive pieces, all of them after those of the packets before it, and no piece is
\* missing.
CutInOrder(packets, indices, n) ==
    /\ \A i \in indices : \E first \in 1 .. n : \E last \in first .. n :
          packets[i].data = Run(first, last)
    /\ \A i, j \in indices : i < j =>
          \A k \in 1 .. Len(packets[i].data), l \in 1 .. Len(packets[j].data) :
              packets[i].data[k] < packets[j].data[l]
    /\ \A piece \in 1 .. n : \E i \in indices :
          \E k \in 1 .. Len(packets[i].data) : packets[i].data[k] = piece

\* Whatever the order in which handlers get the mutex, each stream is kept whole and
\* in order: queued, in its handler's hand, then unread.
StreamKept == \A c \in Connections :
    /\ QueuedOf(c) \in Nat
    /\ CutInOrder(queue, PacketsOf(c), QueuedOf(c))
    /\ hand[c] = Run(QueuedOf(c) + 1, ReadOf(c))
    /\ stream[c] = Run(ReadOf(c) + 1, sent[c])

\* When stop() returns, and while nothing has been started since, no thread of the
\* listener is left to touch it.
StoppedQuietly == owner = "stopped" =>
    acceptor = "none" /\ \A c \in Connections : handler[c] \in {"none", "done"}

\* The mutex is held by the thread that is inside the queue, and by no other.
LockHeld ==
    /\ \A c \in Connections : c \in InQueue <=> mutex = c
    /\ owner \in {"size", "take"} <=> mutex = OwnerId

\* A handler holds a packet exactly while it waits to push it, handlers run only
\* under an acceptor that will join them, and there is an acceptor to join but for the
\* time between stop() and start().
ThreadsKept ==
    /\ \A c \in Connections : handler[c] \in {"lock", "push"} <=> hand[c] # << >>
    /\ (\E c \in Connections : handler[c] \notin {"none", "done"}) =>
          acceptor \in {"check", "accept", "join"}
    /\ acceptor = "none" <=> owner = "stopped"
    /\ owner = "join" <=> (stopFlag /\ owner # "stopped")

\* A connection waits in the backlog once, and before it has a handler.  The listening
\* socket is one of the descriptors, so there is room to give it back.
BacklogKept ==
    /\ \A i \in 1 .. Len(backlog) : handler[backlog[i]] = "none"
    /\ \A i, j \in 1 .. Len(backlog) : backlog[i] = backlog[j] => i = j
    /\ Listening => free < MaxFree

\* The inductive invariant behind QueueExclusive and StoppedQuietly
IInv == TypeOK /\ LockHeld /\ ThreadsKept /\ BacklogKept /\ StoppedQuietly

\* When get_next_packet looks at the queue, the packet that is_empty saw is still there,
\* whatever the handlers did between the two critical sections.  The owner thus never
\* gets to the front() of an empty queue, to which the inverted test of
\* TcoListener.cpp:23 lets it pass, and always to the exception.
PacketIsThere == owner \in {"get", "take"} => queue # << >>

\* What is_empty saw stays true until the owner acts on it: nobody else takes a packet.
SizeStays == PacketIsThere /\ (owner = "polled" /\ ~empty => queue # << >>)

\* The system calls a thread waits in with nothing to return.
Blocked ==
    \/ acceptor = "accept" /\ backlog = << >> /\ free > 0
    \/ \E c \in Connections : handler[c] = "read" /\ stream[c] = << >> /\ ~eof[c]

\* stop() returns if no thread is blocked in accept() or read() when it waits, also
\* when accept() fails all the time because no descriptor is left.
StopCompletes == (owner = "join" /\ ~Blocked) ~> (owner = "stopped" \/ ~Alive)

\* Although accept() may fail again and again, a connection that waits gets a handler,
\* unless the listener is stopped, the process dies or the descriptors, which nobody
\* gives back, are used up.
ConnectionIsAccepted == \A c \in Connections :
    Contains(backlog, c) ~> (handler[c] # "none" \/ stopFlag \/ ~Alive \/ free = 0)
=============================================================================
