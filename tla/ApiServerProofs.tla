-------------------------- MODULE ApiServerProofs --------------------------
(***************************************************************************)
(* Proofs about the command server, for any number of callers and          *)
(* connections.                                                            *)
(*                                                                         *)
(* OneInstance is not inductive: that the caller at the construction is    *)
(* the first one follows from the mutex, which that caller holds, and      *)
(* which nobody ever unlocks (MutexHeld).  OneListener rests on the port,  *)
(* which only the first TcpServer gets.                                    *)
(***************************************************************************)
EXTENDS ApiServer, TLAPS

USE NobodyAssumption, DescriptorsAssumption

-----------------------------------------------------------------------------
(* The steps of a caller *)

LEMMA InitEstablishesIInv == Init => IInv
  <1> SUFFICES ASSUME Init PROVE IInv
    OBVIOUS
  <1> USE DEF Init
  <1>1. TypeOK
    <2>1. pc \in [Callers -> CallerSteps]
      BY DEF CallerSteps
    <2>2. apiBacklog \in Seq(Connections)
      OBVIOUS
    <2> QED
      BY <2>1, <2>2 DEF TypeOK, AcceptorSteps
  <1>2. OneInstance /\ MutexHeld /\ OneListener
    BY DEF OneInstance, MutexHeld, OneListener
  <1> QED
    BY <1>1, <1>2 DEF IInv

\* The test without the mutex leads to the mutex or, if there is an instance, past it.
LEMMA FirstTestKeeps ==
    ASSUME IInv, NEW c \in Callers, FirstTest(c)
    PROVE  IInv'
  <1> USE DEF FirstTest, Goto, singletonVars, tcpVars, IInv, TypeOK, CallerSteps, AcceptorSteps
  <1>1. TypeOK'
    OBVIOUS
  <1>2. OneInstance' /\ MutexHeld'
    BY DEF OneInstance, MutexHeld
  <1>3. OneListener'
    BY DEF OneListener
  <1> QED
    BY <1>1, <1>2, <1>3

\* Only the first caller that gets to the mutex gets past it: there is no instance yet.
LEMMA LockKeeps ==
    ASSUME IInv, NEW c \in Callers, Lock(c)
    PROVE  IInv'
  <1> USE DEF Lock, Goto, tcpVars, IInv, TypeOK, CallerSteps, AcceptorSteps
  <1>1. TypeOK'
    OBVIOUS
  <1>2. OneInstance' /\ MutexHeld'
    BY DEF OneInstance, MutexHeld
  <1>3. OneListener'
    BY DEF OneListener
  <1> QED
    BY <1>1, <1>2, <1>3

LEMMA SecondTestKeeps ==
    ASSUME IInv, NEW c \in Callers, SecondTest(c)
    PROVE  IInv'
  <1> USE DEF SecondTest, Goto, singletonVars, tcpVars, IInv, TypeOK, CallerSteps, AcceptorSteps
  <1>1. TypeOK'
    OBVIOUS
  <1>2. OneInstance' /\ MutexHeld'
    BY DEF OneInstance, MutexHeld
  <1>3. OneListener'
    BY DEF OneListener
  <1> QED
    BY <1>1, <1>2, <1>3

\* The caller that constructs holds the mutex, so no other is at the construction and
\* there is no instance: this is the first.
LEMMA CreateKeeps ==
    ASSUME IInv, NEW c \in Callers, Create(c)
    PROVE  IInv'
  <1> USE DEF Create, Goto, tcpVars, IInv, TypeOK, CallerSteps, AcceptorSteps
  <1>1. apiMutex = c /\ ~instance /\ created = 0
    BY DEF MutexHeld
  <1>2. TypeOK' /\ created' = 1
    BY <1>1
  <1>3. ASSUME NEW d \in Callers, d # c
        PROVE  pc'[d] \notin {"test", "create"}
    BY <1>1, <1>3 DEF MutexHeld
  <1>4. MutexHeld'
    BY <1>1, <1>3 DEF MutexHeld
  <1>5. OneInstance'
    BY <1>1, <1>2 DEF OneInstance
  <1>6. OneListener'
    BY DEF OneListener
  <1> QED
    BY <1>2, <1>4, <1>5, <1>6

\* The port is free for the first TcpServer only; the constructor of any other throws.
LEMMA StartKeeps ==
    ASSUME IInv, NEW c \in Callers, Start(c)
    PROVE  IInv'
  <1> USE DEF Goto, singletonVars, IInv, TypeOK, CallerSteps, AcceptorSteps
  <1>1. CASE StartListens(c)
    <2> USE <1>1 DEF StartListens
    <2>1. TypeOK'
      OBVIOUS
    <2>2. OneInstance' /\ MutexHeld'
      BY DEF OneInstance, MutexHeld
    <2>3. OneListener'
      BY DEF OneListener
    <2> QED
      BY <2>1, <2>2, <2>3
  <1>2. CASE StartThrows(c)
    BY <1>2 DEF StartThrows, OneInstance, MutexHeld, OneListener
  <1> QED
    BY <1>1, <1>2 DEF Start

-----------------------------------------------------------------------------
(* The steps of the acceptor and of its clients *)

LEMMA ConnectKeeps ==
    ASSUME IInv, NEW k \in Connections, Connect(k)
    PROVE  IInv'
  <1> USE DEF Connect, singletonVars, IInv, TypeOK, CallerSteps, AcceptorSteps
  <1>1. TypeOK' /\ apiBacklog' # << >>
    OBVIOUS
  <1>2. OneInstance' /\ MutexHeld'
    BY DEF OneInstance, MutexHeld
  <1>3. OneListener'
    BY <1>1 DEF OneListener
  <1> QED
    BY <1>1, <1>2, <1>3

LEMMA AcceptorKeeps ==
    ASSUME IInv, Acceptor
    PROVE  IInv'
  <1> USE DEF singletonVars, IInv, TypeOK, CallerSteps, AcceptorSteps
  <1>1. OneInstance' /\ MutexHeld'
    BY DEF OneInstance, MutexHeld, Acceptor, Accept, AcceptError, AcceptAgain, Spawn
  <1>2. CASE Accept
    <2>1. TypeOK'
      BY <1>2 DEF Accept
    <2>2. OneListener'
      BY <1>2 DEF Accept, OneListener
    <2> QED
      BY <1>1, <1>2, <2>1, <2>2 DEF Accept
  <1>3. CASE Spawn
    <2>1. Head(apiBacklog) \in Connections /\ Tail(apiBacklog) \in Seq(Connections)
      BY <1>3 DEF Spawn, OneListener
    <2>2. TypeOK'
      BY <1>3, <2>1 DEF Spawn
    <2>3. OneListener'
      BY <1>3 DEF Spawn, OneListener
    <2> QED
      BY <1>1, <1>3, <2>2, <2>3 DEF Spawn
  <1>4. CASE AcceptError \/ AcceptAgain
    <2>1. TypeOK'
      BY <1>4 DEF AcceptError, AcceptAgain
    <2>2. OneListener'
      BY <1>4 DEF AcceptError, AcceptAgain, OneListener
    <2> QED
      BY <1>1, <1>4, <2>1, <2>2 DEF AcceptError, AcceptAgain
  <1> QED
    BY <1>2, <1>3, <1>4 DEF Acceptor

-----------------------------------------------------------------------------
(* The theorems *)

\* However callers race past the unlocked test, the invariant holds in every state.
THEOREM InvariantHolds == Spec => []IInv
  <1>1. Init => IInv
    BY InitEstablishesIInv
  <1>2. IInv /\ [Next]_apiVars => IInv'
    <2> SUFFICES ASSUME IInv, [Next]_apiVars
                 PROVE  IInv'
      OBVIOUS
    <2>1. CASE UNCHANGED apiVars
      BY <2>1 DEF apiVars, singletonVars, tcpVars, IInv, TypeOK, OneInstance, MutexHeld,
                  OneListener
    <2>2. ASSUME NEW c \in Callers, Call(c)
          PROVE  IInv'
      BY <2>2, FirstTestKeeps, LockKeeps, SecondTestKeeps, CreateKeeps, StartKeeps DEF Call
    <2>3. ASSUME NEW k \in Connections, Connect(k)
          PROVE  IInv'
      BY <2>3, ConnectKeeps
    <2>4. CASE Acceptor
      BY <2>4, AcceptorKeeps
    <2> QED
      BY <2>1, <2>2, <2>3, <2>4 DEF Next
  <1> QED
    BY <1>1, <1>2, PTL DEF Spec

\* "A singleton" (api_server.hpp:7): one ApiServer is constructed, whatever the number
\* of callers.
THEOREM OneInstanceHolds == Spec => []OneInstance
  <1>1. IInv => OneInstance
    BY DEF IInv
  <1> QED
    BY <1>1, InvariantHolds, PTL

\* Of all the callers of start() one listens, and the others never get to join_threads.
THEOREM OneListenerHolds == Spec => []OneListener
  <1>1. IInv => OneListener
    BY DEF IInv
  <1> QED
    BY <1>1, InvariantHolds, PTL
=============================================================================
