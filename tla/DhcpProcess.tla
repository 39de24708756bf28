----------------------------- MODULE DhcpProcess -----------------------------
(***************************************************************************)
(* The DHCP process as main() of dhcp/src/main.cpp:126-164 puts it         *)
(* together: the main thread constructs the UdpServer (module UdpServer),  *)
(* whose receiver thread runs from then on, calls                          *)
(* ApiServer::instance().start() (module ApiServer), and then is the owner *)
(* of the UdpServer in the serve loop.  The command server's sockets come  *)
(* from the same table of descriptors: they are what UdpServer's           *)
(* OtherOpens stands for, and what is free in the table is what the        *)
(* command server can still open.                                          *)
(***************************************************************************)
EXTENDS Naturals, Sequences, FiniteSets

CONSTANTS MaxFds, MaxDatagrams, SocketCapacity, EmptyDatagrams, Connections, Main, Nobody

VARIABLES
    arrived, socket, stopFlag, mutex, queue, receiver, hand, owner, blank, got,
    fds, raw, sending, window, accepted, delivered,
    pc, instance, created, apiMutex, listener, apiStatus, acceptor, apiBacklog, served,
    main            \* what the main thread is doing: "api" or "serve"

Udp == INSTANCE UdpServer
Api == INSTANCE ApiServer WITH Callers <- {Main}, MaxApiFree <- MaxFds,
                               apiFree <- Cardinality(Udp!FreeFds)

udpVars == <<arrived, socket, stopFlag, mutex, queue, receiver, hand, owner, blank, got,
             fds, raw, sending, window, accepted, delivered>>
apiVars == <<pc, instance, created, apiMutex, listener, apiStatus, acceptor, apiBacklog, served>>
vars == <<udpVars, apiVars, main>>

Init == Udp!Init /\ Api!Init /\ main = "api"

\* The receiver thread and the network do not wait for the main thread.
ReceiveStep ==
    (Udp!Arrive \/ Udp!Receiver) /\ UNCHANGED <<apiVars, main>>

\* The main thread gets the instance; the clients and the acceptor go on.
ApiStep ==
    /\ UNCHANGED <<udpVars, main>>
    /\ \/ Api!FirstTest(Main) \/ Api!Lock(Main) \/ Api!SecondTest(Main) \/ Api!Create(Main)
       \/ \E k \in Connections : Api!Connect(k)
       \/ Api!AcceptError \/ Api!AcceptAgain \/ Api!Spawn

\* The constructor of TcpServer and accept() each take a descriptor.
ApiOpens == Udp!OtherOpens /\ (Api!StartListens(Main) \/ Api!Accept) /\ UNCHANGED main

\* The constructor fails; if no descriptor is left it must.
ApiThrows == UNCHANGED <<udpVars, main>> /\ Api!StartThrows(Main)
ApiStarves == Udp!FreeFds = {} /\ ApiThrows

\* start() returns when the acceptor thread it joins has ended.
StartReturns ==
    /\ main = "api" /\ pc[Main] = "join" /\ Api!AcceptorEnded
    /\ main' = "serve"
    /\ UNCHANGED <<udpVars, apiVars>>

ServeStep ==
    /\ main = "serve"
    /\ Udp!Poll \/ Udp!Send
    /\ UNCHANGED <<apiVars, main>>

ServeThrows == main = "serve" /\ Udp!SendThrows /\ UNCHANGED <<apiVars, main>>

\* An exception in any thread ends the process.
Alive == Udp!Running /\ Api!Running

Next ==
    /\ Alive
    /\ \/ ReceiveStep \/ ApiStep \/ ApiOpens \/ ApiThrows
       \/ StartReturns \/ ServeStep \/ ServeThrows

(* Every thread of the process keeps running; accept() does not fail for ever while *)
(* it need not.                                                                     *)
FairSpec ==
    /\ Init /\ [][Next]_vars
    /\ WF_vars(Alive /\ Udp!Receiver /\ UNCHANGED <<apiVars, main>>)
    /\ WF_vars(Alive /\ ApiStep)
    /\ SF_vars(Alive /\ ApiOpens)
    /\ WF_vars(Alive /\ ApiStarves)
    /\ WF_vars(Alive /\ StartReturns)
    /\ SF_vars(Alive /\ ServeStep)

\* "DHCP server started", says main.cpp:127: a datagram that the receiver thread took
\* from the socket is fetched by the serve loop, or the process has died.
DatagramsAreServed == \A d \in Udp!Datagrams :
    (\E i \in 1 .. Len(accepted) : accepted[i] = d)
        ~> ((\E i \in 1 .. Len(delivered) : delivered[i] = d) \/ ~Alive)
=============================================================================
