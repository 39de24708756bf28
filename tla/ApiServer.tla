------------------------------ MODULE ApiServer ------------------------------
(***************************************************************************)
(* The command server of the DHCP service, dhcp/src/api_server.{hpp,cpp}:  *)
(* the singleton ApiServer::instance() and the TcpServer its start() runs. *)
(*                                                                         *)
(* Each caller executes ApiServer::instance().start().  The first test of  *)
(* _api_server is made without the mutex and the pointer is not atomic, so *)
(* the test is a step of its own and may see either value while another    *)
(* caller publishes the instance.  _mutex is locked and never unlocked.    *)
(*                                                                         *)
(* The listening socket and every accepted connection take a descriptor of *)
(* the process, and nothing here ever closes one.                          *)
(***************************************************************************)
EXTENDS Naturals, Sequences

CONSTANTS
    Callers,            \* threads that call ApiServer::instance().start()
    Connections,        \* clients of the command port
    MaxApiFree,         \* descriptors the process may open
    Nobody

ASSUME NobodyAssumption == Nobody \notin Callers
ASSUME DescriptorsAssumption == MaxApiFree \in Nat

VARIABLES
    pc,             \* where each caller is
    instance,       \* _api_server is not null
    created,        \* number of ApiServer objects constructed
    apiMutex,       \* the caller that holds ApiServer::_mutex
    listener,       \* the caller whose TcpServer listens on the port
    apiStatus,      \* "running", or "threw" when a TcpServer constructor threw
    acceptor,       \* where the acceptor thread is, "none" when there is none
    apiFree,        \* descriptors the process can still open
    apiBacklog,     \* connections waiting to be accepted
    served          \* connections with a handler thread

singletonVars == <<instance, created, apiMutex>>
tcpVars == <<listener, apiStatus, acceptor, apiFree, apiBacklog, served>>
apiVars == <<pc, singletonVars, tcpVars>>

CallerSteps == {"call", "lock", "test", "create", "start", "join"}
AcceptorSteps == {"none", "accept", "failed", "spawn", "ended"}

TypeOK ==
    /\ pc \in [Callers -> CallerSteps]
    /\ instance \in BOOLEAN
    /\ created \in Nat
    /\ apiMutex \in Callers \cup {Nobody}
    /\ listener \in Callers \cup {Nobody}
    /\ apiStatus \in {"running", "threw"}
    /\ acceptor \in AcceptorSteps /\ apiFree \in 0 .. MaxApiFree
    /\ apiBacklog \in Seq(Connections)
    /\ served \subseteq Connections

Init ==
    /\ pc = [c \in Callers |-> "call"]
    /\ instance = FALSE /\ created = 0 /\ apiMutex = Nobody
    /\ listener = Nobody /\ apiStatus = "running"
    /\ acceptor = "none" /\ apiFree \in 0 .. MaxApiFree
    /\ apiBacklog = << >> /\ served = {}

Running == apiStatus = "running"

Goto(c, step) == pc' = [pc EXCEPT ![c] = step]

-----------------------------------------------------------------------------
(* ApiServer::instance *)

FirstTestAlwaysLocks(c) ==
    /\ Running /\ pc[c] = "call" /\ Goto(c, "lock")
    /\ UNCHANGED <<singletonVars, tcpVars>>

FirstTest(c) ==
    /\ Running /\ pc[c] = "call"
    /\ Goto(c, IF instance THEN "start" ELSE "lock")
    /\ UNCHANGED <<singletonVars, tcpVars>>

LockWithoutWaiting(c) ==
    /\ Running /\ pc[c] = "lock"
    /\ apiMutex' = c /\ Goto(c, "test")
    /\ UNCHANGED <<instance, created, tcpVars>>

Lock(c) ==
    /\ Running /\ pc[c] = "lock" /\ apiMutex = Nobody
    /\ apiMutex' = c /\ Goto(c, "test")
    /\ UNCHANGED <<instance, created, tcpVars>>

SecondTest(c) ==
    /\ Running /\ pc[c] = "test"
    /\ Goto(c, IF instance THEN "start" ELSE "create")
    /\ UNCHANGED <<singletonVars, tcpVars>>

Create(c) ==
    /\ Running /\ pc[c] = "create"
    /\ instance' = TRUE /\ created' = created + 1 /\ Goto(c, "start")
    /\ UNCHANGED <<apiMutex, tcpVars>>

-----------------------------------------------------------------------------
(* ApiServer::start: the TcpServer constructor, then join_threads *)

StartListens(c) ==
    /\ Running /\ pc[c] = "start" /\ listener = Nobody /\ apiFree > 0
    /\ listener' = c /\ acceptor' = "accept" /\ apiFree' = apiFree - 1
    /\ Goto(c, "join")
    /\ UNCHANGED <<singletonVars, apiStatus, apiBacklog, served>>

\* socket(), bind() or listen() fails: an exception nobody catches.  Only one socket can
\* listen on the port, so a second TcpServer always throws.
StartThrows(c) ==
    /\ Running /\ pc[c] = "start" /\ apiStatus' = "threw"
    /\ UNCHANGED <<pc, singletonVars, listener, acceptor, apiFree, apiBacklog, served>>

Start(c) == StartListens(c) \/ StartThrows(c)

\* What join_threads waits for.  The acceptor is an infinite loop: no step below
\* makes this true, so "join" is where every caller of start() stays.
AcceptorEnded == acceptor = "ended"

-----------------------------------------------------------------------------
(* The acceptor thread and the clients.  A handler thread prints what it     *)
(* reads, for ever; nothing it does can be observed by another thread.       *)

InBacklog(k) == \E i \in 1 .. Len(apiBacklog) : apiBacklog[i] = k

Connect(k) ==
    /\ Running /\ listener # Nobody /\ k \notin served /\ ~InBacklog(k)
    /\ apiBacklog' = Append(apiBacklog, k)
    /\ UNCHANGED <<pc, singletonVars, listener, apiStatus, acceptor, apiFree, served>>

\* accept() returns the oldest connection, in a descriptor that stays open for ever: the
\* connection's handler never closes it.
Accept ==
    /\ Running /\ acceptor = "accept" /\ apiBacklog # << >> /\ apiFree > 0
    /\ acceptor' = "spawn" /\ apiFree' = apiFree - 1
    /\ UNCHANGED <<pc, singletonVars, listener, apiStatus, apiBacklog, served>>

AcceptErrorEnds ==
    /\ Running /\ acceptor = "accept" /\ acceptor' = "ended"
    /\ UNCHANGED <<pc, singletonVars, listener, apiStatus, apiFree, apiBacklog, served>>

\* accept() returns -1, for instance because no descriptor is left.
AcceptError ==
    /\ Running /\ acceptor = "accept" /\ acceptor' = "failed"
    /\ UNCHANGED <<pc, singletonVars, listener, apiStatus, apiFree, apiBacklog, served>>

\* "continue"
AcceptAgain ==
    /\ Running /\ acceptor = "failed" /\ acceptor' = "accept"
    /\ UNCHANGED <<pc, singletonVars, listener, apiStatus, apiFree, apiBacklog, served>>

\* The accepted connection gets a handler thread.
Spawn ==
    /\ Running /\ acceptor = "spawn"
    /\ served' = served \cup {Head(apiBacklog)}
    /\ apiBacklog' = Tail(apiBacklog)
    /\ acceptor' = "accept"
    /\ UNCHANGED <<pc, singletonVars, listener, apiStatus, apiFree>>

Acceptor == Accept \/ AcceptError \/ AcceptAgain \/ Spawn

Call(c) == FirstTest(c) \/ Lock(c) \/ SecondTest(c) \/ Create(c) \/ Start(c)

Next ==
    \/ \E c \in Callers : Call(c)
    \/ \E k \in Connections : Connect(k)
    \/ Acceptor

Spec == Init /\ [][Next]_apiVars

(* Every thread runs; clients connect when they like.  accept() may fail again and    *)
(* again, though not every time for ever while a connection waits and a descriptor is *)
(* left; with none left it is certain to fail.                                        *)
ApiFairness ==
    /\ SF_apiVars(Accept) /\ WF_apiVars(apiFree = 0 /\ AcceptError)
    /\ WF_apiVars(AcceptAgain \/ Spawn)
    /\ \A c \in Callers : WF_apiVars(Call(c))

FairSpec == Spec /\ ApiFairness

-----------------------------------------------------------------------------
(* Properties *)

\* "A singleton" (api_server.hpp:7): however callers race past the unlocked test,
\* one ApiServer is constructed, and nobody leaves instance() without it.
OneInstance ==
    /\ created <= 1
    /\ \A c \in Callers : pc[c] \in {"start", "join"} => instance /\ created = 1

\* Whoever got past the mutex holds it, and still does when it has left instance();
\* nobody between the second test and the construction finds an instance.  Once there is
\* one, the mutex is not free again.
MutexHeld == \A c \in Callers :
    /\ pc[c] \in {"test", "create"} => apiMutex = c /\ ~instance
    /\ apiMutex = c => pc[c] \in {"test", "create", "start", "join"}
    /\ instance => apiMutex # Nobody

\* Of all the callers of start() at most one gets past the constructor of its
\* TcpServer, and the acceptor it waits for is the one that listens.
OneListener ==
    /\ \A c \in Callers : pc[c] = "join" => listener = c
    /\ listener = Nobody <=> acceptor = "none"
    /\ acceptor = "spawn" => apiBacklog # << >>

\* The inductive invariant: however callers race, what the mutex protects and what the
\* port protects stay one each.
IInv ==
    /\ TypeOK /\ OneInstance /\ MutexHeld /\ OneListener
    /\ created = IF instance THEN 1 ELSE 0

\* A caller that begins when there is an instance gets it although the mutex stays
\* locked for ever; one that lost the race for the first instance does not.
LateCallerReturns == \A c \in Callers :
    (pc[c] = "call" /\ instance) ~> (pc[c] = "join" \/ ~Running)

\* A connection that waits gets a handler thread although accept() fails in between,
\* unless the process dies or the descriptors, which nobody gives back, are used up.
ConnectionIsServed == \A k \in Connections :
    InBacklog(k) ~> (k \in served \/ ~Running \/ apiFree = 0)
=============================================================================
