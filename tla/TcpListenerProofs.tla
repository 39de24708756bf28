------------------------- MODULE TcpListenerProofs -------------------------
(***************************************************************************)
(* Proofs about the TCP listener, for any number of connections, pieces    *)
(* and descriptors.                                                        *)
(*                                                                         *)
(* QueueExclusive follows from LockHeld: who is inside the queue holds the *)
(* mutex.  StoppedQuietly follows from ThreadsKept: a handler that has not *)
(* ended has an acceptor that will join it.  Neither is inductive without  *)
(* BacklogKept, which says that a connection gets one handler only.        *)
(* StreamKept is inductive beside them: what a handler reads is a run of   *)
(* pieces, and such a run can be cut (RunCut) and continued (RunAppend).   *)
(***************************************************************************)
EXTENDS TcpListener, SequenceTheorems, TLAPS

USE BoundsAssumption, ThreadsAssumption

\* After stop() there is no acceptor, and so no handler that would need one.
LEMMA NothingRunsAfterStop ==
    (ThreadsKept => StoppedQuietly) /\ (ThreadsKept' => StoppedQuietly')
  BY DEF ThreadsKept, StoppedQuietly

LEMMA InitEstablishesIInv == Init => IInv
  <1> SUFFICES ASSUME Init PROVE IInv
    OBVIOUS
  <1> USE DEF Init
  <1>1. TypeOK
    <2>1. << >> \in Seq(Connections) /\ << >> \in Seq(Packets) /\ << >> \in Seq(Pieces)
      OBVIOUS
    <2>2. hand \in [Connections -> Seq(Pieces)] /\ stream \in [Connections -> Seq(Pieces)]
      BY <2>1
    <2>3. backlog \in Seq(Connections) /\ queue \in Seq(Packets)
      BY <2>1
    <2>4. sent \in [Connections -> 0 .. MaxPieces] /\ eof \in [Connections -> BOOLEAN]
          /\ handler \in [Connections -> HandlerSteps]
      BY DEF HandlerSteps
    <2> QED
      BY <2>2, <2>3, <2>4 DEF TypeOK, NoOne, AcceptorSteps, OwnerSteps
  <1>2. LockHeld
    BY DEF LockHeld, InQueue, NoOne, OwnerId
  <1>3. ThreadsKept
    BY DEF ThreadsKept
  <1>4. BacklogKept
    BY EmptySeq DEF BacklogKept, Listening
  <1> QED
    BY <1>1, <1>2, <1>3, <1>4, NothingRunsAfterStop DEF IInv

-----------------------------------------------------------------------------
(* The clients *)

\* A client connects while it is neither in the backlog nor served.
LEMMA ConnectKeeps ==
    ASSUME IInv, NEW c \in Connections, Connect(c)
    PROVE  IInv'
  <1>1. /\ backlog' \in Seq(Connections) /\ Len(backlog') = Len(backlog) + 1
        /\ \A i \in 1 .. Len(backlog) : backlog'[i] = backlog[i]
        /\ backlog'[Len(backlog) + 1] = c /\ Len(backlog) \in Nat
    <2>1. backlog \in Seq(Connections) /\ backlog' = Append(backlog, c)
      BY DEF IInv, TypeOK, Connect
    <2> QED
      BY <2>1, AppendProperties
  <1>2. UNCHANGED <<sent, stream, eof, stopFlag, mutex, queue, acceptor, hand, handler,
                    ownerVars, free>>
    BY DEF Connect, handlerVars
  <1>3. TypeOK'
    BY <1>1, <1>2 DEF IInv, TypeOK, ownerVars
  <1>4. LockHeld' /\ ThreadsKept'
    BY <1>2 DEF IInv, LockHeld, InQueue, ThreadsKept, ownerVars
  <1>5. handler[c] = "none" /\ \A i \in 1 .. Len(backlog) : backlog[i] # c
    <2>1. handler[c] = "none" /\ ~Contains(backlog, c)
      BY DEF Connect, Connected
    <2> QED
      BY <2>1 DEF Contains
  <1>6. BacklogKept'
    <2> DEFINE n == Len(backlog)
    <2>1. /\ \A i \in 1 .. n + 1 : handler[backlog'[i]] = "none"
          /\ \A i, j \in 1 .. n + 1 : backlog'[i] = backlog'[j] => i = j
      <3>1. /\ \A i \in 1 .. n : handler[backlog[i]] = "none"
            /\ \A i, j \in 1 .. n : backlog[i] = backlog[j] => i = j
        BY DEF IInv, BacklogKept
      <3>2. \A i \in 1 .. n + 1 : i \in 1 .. n \/ i = n + 1
        BY <1>1
      <3> HIDE DEF n
      <3> QED
        BY <1>1, <1>5, <3>1, <3>2 DEF n
    <2>2. Listening' => free' < MaxFree
      BY <1>2 DEF IInv, BacklogKept, Listening
    <2> QED
      BY <1>1, <1>2, <2>1, <2>2 DEF BacklogKept
  <1> QED
    BY <1>3, <1>4, <1>6, NothingRunsAfterStop DEF IInv

LEMMA SendOrShutdownKeeps ==
    ASSUME IInv, NEW c \in Connections, Send(c) \/ Shutdown(c)
    PROVE  IInv'
  <1> USE DEF IInv, TypeOK
  <1>1. UNCHANGED <<backlog, stopFlag, mutex, queue, free, acceptor, handlerVars, ownerVars>>
    BY DEF Send, Shutdown
  <1>2. CASE Send(c)
    <2>1. sent[c] + 1 \in Pieces /\ sent' \in [Connections -> 0 .. MaxPieces]
          /\ sent'[c] = sent[c] + 1
      BY <1>2 DEF Send, Pieces
    <2>2. Append(stream[c], sent'[c]) \in Seq(Pieces)
      BY <2>1, AppendProperties
    <2>3. stream' \in [Connections -> Seq(Pieces)] /\ eof' = eof
      BY <1>2, <2>2 DEF Send
    <2> QED
      BY <1>1, <2>1, <2>3 DEF handlerVars, ownerVars, LockHeld, InQueue, ThreadsKept,
                              BacklogKept, Listening, StoppedQuietly
  <1>3. CASE Shutdown(c)
    BY <1>1, <1>3 DEF Shutdown, handlerVars, ownerVars, LockHeld, InQueue, ThreadsKept,
                      BacklogKept, Listening, StoppedQuietly
  <1> QED
    BY <1>2, <1>3

-----------------------------------------------------------------------------
(* The acceptor *)

LEMMA TailShifts ==
    ASSUME NEW S, NEW s \in Seq(S), s # << >>, NEW i \in 1 .. Len(Tail(s))
    PROVE  i + 1 \in 1 .. Len(s) /\ i + 1 # 1 /\ Tail(s)[i] = s[i + 1]
  <1>1. Len(Tail(s)) = Len(s) - 1 /\ Len(s) \in Nat /\ Tail(s)[i] = s[i + 1]
    BY HeadTailProperties
  <1> QED
    BY <1>1

\* The connection accepted has no handler yet and is in the backlog only once, so no
\* thread that is at work, and perhaps inside the queue, is forgotten.
LEMMA AcceptKeeps ==
    ASSUME IInv, AcceptorAccept
    PROVE  IInv'
  <1> DEFINE c == Head(backlog)
             others == Tail(backlog)
  <1> USE DEF IInv, TypeOK
  <1>1. /\ acceptor = "accept" /\ free > 0 /\ backlog # << >>
        /\ acceptor' = "check" /\ free' = free - 1
        /\ backlog' = others
        /\ handler' = [handler EXCEPT ![c] = "check"]
        /\ UNCHANGED <<sent, stream, eof, stopFlag, mutex, queue, hand, ownerVars>>
    BY DEF AcceptorAccept
  <1>2. /\ c \in Connections /\ others \in Seq(Connections)
        /\ Len(others) = Len(backlog) - 1 /\ Len(others) \in Nat
        /\ \A i \in 1 .. Len(others) : others[i] = backlog[i + 1]
        /\ c = backlog[1] /\ 1 \in 1 .. Len(backlog)
    BY <1>1, HeadTailProperties, EmptySeq
  <1> HIDE DEF c, others
  <1>3. TypeOK'
    <2>1. handler' \in [Connections -> HandlerSteps] /\ acceptor' \in AcceptorSteps
      BY <1>1, <1>2 DEF AcceptorSteps, HandlerSteps
    <2>2. free' \in 0 .. MaxFree /\ backlog' \in Seq(Connections)
      BY <1>1, <1>2
    <2> QED
      BY <1>1, <2>1, <2>2 DEF ownerVars
  <1>4. /\ handler[c] = "none"
        /\ \A i \in 1 .. Len(others) :
              others[i] \in Connections /\ others[i] # c /\ handler[others[i]] = "none"
    <2>1. ASSUME NEW i \in 1 .. Len(others)
          PROVE  others[i] \in Connections /\ others[i] # c /\ handler[others[i]] = "none"
      <3>1. i + 1 \in 1 .. Len(backlog) /\ i + 1 # 1 /\ others[i] = backlog[i + 1]
        BY <1>1, TailShifts DEF others
      <3>2. others[i] \in Connections
        BY <1>2, ElementOfSeq
      <3>3. backlog[i + 1] # backlog[1] /\ handler[backlog[i + 1]] = "none"
        BY <1>2, <3>1 DEF BacklogKept
      <3> QED
        BY <1>2, <3>1, <3>2, <3>3
    <2>2. handler[c] = "none"
      BY <1>2 DEF BacklogKept
    <2> QED
      BY <2>1, <2>2
  <1>5. LockHeld'
    BY <1>1, <1>2, <1>4 DEF LockHeld, InQueue, ownerVars
  <1>6. ThreadsKept'
    BY <1>1, <1>2, <1>4 DEF ThreadsKept, ownerVars
  <1>7. BacklogKept'
    <2>1. \A i \in 1 .. Len(others) : handler'[others[i]] = "none"
      BY <1>1, <1>4
    <2>2. ASSUME NEW i \in 1 .. Len(others), NEW j \in 1 .. Len(others), others[i] = others[j]
          PROVE  i = j
      <3>1. /\ i + 1 \in 1 .. Len(backlog) /\ others[i] = backlog[i + 1]
            /\ j + 1 \in 1 .. Len(backlog) /\ others[j] = backlog[j + 1]
        BY <1>1, TailShifts DEF others
      <3>2. i + 1 = j + 1
        BY <2>2, <3>1 DEF BacklogKept
      <3> QED
        BY <3>2
    <2>3. free' < MaxFree
      BY <1>1
    <2> QED
      BY <1>1, <2>1, <2>2, <2>3 DEF BacklogKept
  <1> QED
    BY <1>3, <1>5, <1>6, <1>7, NothingRunsAfterStop

\* Its other steps start no handler, and it ends when those it started have ended.
LEMMA AcceptorKeeps ==
    ASSUME IInv, Acceptor
    PROVE  IInv'
  <1> USE DEF IInv, TypeOK
  <1>1. CASE AcceptorAccept
    BY <1>1, AcceptKeeps
  <1>2. CASE AcceptorListen \/ AcceptorThrows \/ AcceptorCheck \/ AcceptorError
    <2>1. /\ acceptor' \in {"check", "threw", "join", "accept"}
          /\ acceptor \in {"listen", "check", "accept"}
          /\ acceptor' = "threw" => acceptor = "listen"
          /\ free' \in 0 .. MaxFree /\ (acceptor' \in {"check", "accept", "join"} => free' < MaxFree)
          /\ UNCHANGED <<clientVars, stopFlag, mutex, queue, handlerVars, ownerVars>>
      BY <1>2 DEF AcceptorListen, AcceptorThrows, AcceptorCheck, AcceptorError, BacklogKept,
                  Listening
    <2>2. TypeOK'
      BY <2>1 DEF AcceptorSteps, clientVars, handlerVars, ownerVars
    <2>3. LockHeld'
      BY <2>1 DEF LockHeld, InQueue, handlerVars, ownerVars
    <2>4. ThreadsKept'
      BY <2>1 DEF ThreadsKept, handlerVars, ownerVars
    <2>5. BacklogKept'
      BY <2>1 DEF BacklogKept, Listening, clientVars, handlerVars
    <2> QED
      BY <2>2, <2>3, <2>4, <2>5, NothingRunsAfterStop
  <1>3. CASE AcceptorJoin
    <2>1. /\ acceptor = "join" /\ \A c \in Connections : handler[c] \in {"none", "done"}
          /\ acceptor' = "done" /\ backlog' = << >> /\ free' = free + 1
          /\ UNCHANGED <<sent, stream, eof, stopFlag, mutex, queue, handlerVars, ownerVars>>
      BY <1>3 DEF AcceptorJoin
    <2>2. TypeOK'
      <3>1. free' \in 0 .. MaxFree
        BY <2>1 DEF BacklogKept, Listening
      <3>2. backlog' \in Seq(Connections)
        BY <2>1, EmptySeq
      <3> QED
        BY <2>1, <3>1, <3>2 DEF AcceptorSteps, handlerVars, ownerVars
    <2>3. LockHeld'
      BY <2>1 DEF LockHeld, InQueue, handlerVars, ownerVars
    <2>4. ThreadsKept'
      BY <2>1 DEF ThreadsKept, handlerVars, ownerVars
    <2>5. BacklogKept'
      BY <2>1, EmptySeq DEF BacklogKept, Listening
    <2> QED
      BY <2>2, <2>3, <2>4, <2>5, NothingRunsAfterStop
  <1> QED
    BY <1>1, <1>2, <1>3 DEF Acceptor

-----------------------------------------------------------------------------
(* The handlers *)

\* What a step of a handler must leave as it was for the rest of the invariant to hold:
\* it runs under an acceptor, and is in nobody's backlog.
LEMMA HandlerStepKeeps ==
    ASSUME IInv, NEW c \in Connections, handler[c] \notin {"none", "done"},
           NEW step \in HandlerSteps \ {"none"}, handler' = [handler EXCEPT ![c] = step],
           NEW packet \in Seq(Pieces), hand' = [hand EXCEPT ![c] = packet],
           step \in {"lock", "push"} <=> packet # << >>,
           UNCHANGED <<backlog, stopFlag, acceptor, ownerVars, free>>
    PROVE  ThreadsKept' /\ BacklogKept' /\ StoppedQuietly'
  <1> USE DEF IInv, TypeOK
  <1>1. ThreadsKept'
    BY DEF ThreadsKept, ownerVars
  <1>2. BacklogKept'
    <2>1. \A i \in 1 .. Len(backlog) :
              backlog[i] \in Connections /\ backlog[i] # c /\ handler[backlog[i]] = "none"
      BY ElementOfSeq DEF BacklogKept
    <2>2. \A i \in 1 .. Len(backlog) : handler'[backlog[i]] = "none"
      BY <2>1
    <2> QED
      BY <2>2 DEF BacklogKept, Listening
  <1> QED
    BY <1>1, <1>2, NothingRunsAfterStop

LEMMA HandlerKeeps ==
    ASSUME IInv, NEW c \in Connections, Handler(c) \/ HandlerReadError(c)
    PROVE  IInv'
  <1>1. CASE HandlerCheck(c)
    <2> DEFINE step == IF stopFlag THEN "done" ELSE "read"
    <2>1. /\ handler[c] = "check" /\ handler' = [handler EXCEPT ![c] = step]
          /\ step \in {"done", "read"}
          /\ UNCHANGED <<clientVars, stopFlag, mutex, queue, acceptor, hand, ownerVars, free>>
      BY <1>1 DEF HandlerCheck
    <2> HIDE DEF step
    <2>2. hand[c] = << >> /\ hand' = [hand EXCEPT ![c] = << >>] /\ << >> \in Seq(Pieces)
      BY <2>1, EmptySeq DEF ThreadsKept, IInv, TypeOK
    <2>3. ThreadsKept' /\ BacklogKept' /\ StoppedQuietly'
      BY <2>1, <2>2, HandlerStepKeeps DEF HandlerSteps, clientVars
    <2>4. TypeOK' /\ LockHeld'
      BY <2>1 DEF IInv, TypeOK, HandlerSteps, LockHeld, InQueue, clientVars, ownerVars
    <2> QED
      BY <2>3, <2>4 DEF IInv
  <1>2. CASE HandlerRead(c)
    <2>1. PICK n \in 1 .. Len(stream[c]) :
              /\ hand' = [hand EXCEPT ![c] = SubSeq(stream[c], 1, n)]
              /\ stream' = [stream EXCEPT ![c] = SubSeq(stream[c], n + 1, Len(stream[c]))]
      BY <1>2 DEF HandlerRead
    <2> DEFINE packet == SubSeq(stream[c], 1, n)
               left == SubSeq(stream[c], n + 1, Len(stream[c]))
    <2>2. packet \in Seq(Pieces) /\ left \in Seq(Pieces) /\ packet # << >>
      <3>1. stream[c] \in Seq(Pieces) /\ Len(stream[c]) \in Nat /\ n \in Int /\ n >= 1
        BY DEF IInv, TypeOK
      <3>2. \A i \in 1 .. Len(stream[c]) : stream[c][i] \in Pieces
        BY <3>1, ElementOfSeq
      <3>3. packet \in Seq(Pieces) /\ Len(packet) = n
        <4>1. \A i \in 1 .. n : stream[c][i] \in Pieces
          BY <3>1, <3>2
        <4> QED
          BY <3>1, <4>1, SubSeqProperties
      <3>4. left \in Seq(Pieces)
        <4>1. \A i \in n + 1 .. Len(stream[c]) : stream[c][i] \in Pieces
          BY <3>1, <3>2
        <4> QED
          BY <3>1, <4>1, SubSeqProperties
      <3> QED
        BY <3>1, <3>3, <3>4, EmptySeq
    <2>3. /\ handler[c] = "read" /\ handler' = [handler EXCEPT ![c] = "lock"]
          /\ hand' = [hand EXCEPT ![c] = packet]
          /\ stream' = [stream EXCEPT ![c] = left]
          /\ UNCHANGED <<backlog, sent, eof, stopFlag, mutex, queue, acceptor, ownerVars, free>>
      BY <1>2, <2>1 DEF HandlerRead
    <2> HIDE DEF packet, left
    <2>4. ThreadsKept' /\ BacklogKept' /\ StoppedQuietly'
      BY <2>2, <2>3, HandlerStepKeeps DEF HandlerSteps
    <2>5. TypeOK' /\ LockHeld'
      BY <2>2, <2>3 DEF IInv, TypeOK, HandlerSteps, LockHeld, InQueue, ownerVars
    <2> QED
      BY <2>4, <2>5 DEF IInv
  <1>3. CASE HandlerReadNothing(c) \/ HandlerReadError(c)
    <2>1. /\ handler[c] = "read" /\ handler' = [handler EXCEPT ![c] = "check"]
          /\ UNCHANGED <<clientVars, stopFlag, mutex, queue, acceptor, hand, ownerVars, free>>
      BY <1>3 DEF HandlerReadNothing, HandlerReadError
    <2>2. hand[c] = << >> /\ hand' = [hand EXCEPT ![c] = << >>] /\ << >> \in Seq(Pieces)
      BY <2>1, EmptySeq DEF ThreadsKept, IInv, TypeOK
    <2> DEFINE step == "check"
    <2>3. ThreadsKept' /\ BacklogKept' /\ StoppedQuietly'
      <3>1. /\ step \in HandlerSteps \ {"none"} /\ step \notin {"lock", "push"}
            /\ handler' = [handler EXCEPT ![c] = step] /\ handler[c] \notin {"none", "done"}
            /\ UNCHANGED <<backlog, stopFlag, acceptor, ownerVars, free>>
        BY <2>1 DEF HandlerSteps, clientVars
      <3> HIDE DEF step
      <3> QED
        BY <2>2, <3>1, HandlerStepKeeps
    <2>4. TypeOK' /\ LockHeld'
      BY <2>1 DEF IInv, TypeOK, HandlerSteps, LockHeld, InQueue, clientVars, ownerVars
    <2> QED
      BY <2>3, <2>4 DEF IInv
  <1>4. CASE HandlerLock(c)
    <2>1. /\ handler[c] = "lock" /\ mutex = NoOne /\ mutex' = c
          /\ handler' = [handler EXCEPT ![c] = "push"]
          /\ UNCHANGED <<clientVars, stopFlag, queue, acceptor, hand, ownerVars, free>>
      BY <1>4 DEF HandlerLock
    <2>2. hand[c] # << >> /\ hand' = [hand EXCEPT ![c] = hand[c]] /\ hand[c] \in Seq(Pieces)
      BY <2>1 DEF ThreadsKept, IInv, TypeOK
    <2>3. ThreadsKept' /\ BacklogKept' /\ StoppedQuietly'
      BY <2>1, <2>2, HandlerStepKeeps DEF HandlerSteps, clientVars
    <2>4. TypeOK'
      BY <2>1 DEF IInv, TypeOK, HandlerSteps, clientVars, ownerVars
    <2>5. \A d \in Connections : handler[d] \notin {"push", "unlock"}
      BY <2>1 DEF IInv, LockHeld, InQueue
    <2>6. LockHeld'
      BY <2>1, <2>5 DEF IInv, TypeOK, LockHeld, InQueue, ownerVars, NoOne, OwnerId
    <2> QED
      BY <2>3, <2>4, <2>6 DEF IInv
  <1>5. CASE HandlerPush(c)
    <2> DEFINE packet == [from |-> c, data |-> hand[c]]
    <2>1. /\ handler[c] = "push" /\ queue' = Append(queue, packet)
          /\ hand' = [hand EXCEPT ![c] = << >>]
          /\ handler' = [handler EXCEPT ![c] = "unlock"]
          /\ UNCHANGED <<clientVars, stopFlag, mutex, acceptor, ownerVars, free>>
      BY <1>5 DEF HandlerPush
    <2>2. packet \in Packets
      BY DEF Packets, IInv, TypeOK
    <2> HIDE DEF packet
    <2>3. queue' \in Seq(Packets) /\ << >> \in Seq(Pieces)
      BY <2>1, <2>2, AppendProperties, EmptySeq DEF IInv, TypeOK
    <2> DEFINE step == "unlock"
    <2>4. ThreadsKept' /\ BacklogKept' /\ StoppedQuietly'
      <3>1. /\ step \in HandlerSteps \ {"none"} /\ step \notin {"lock", "push"}
            /\ handler' = [handler EXCEPT ![c] = step] /\ handler[c] \notin {"none", "done"}
            /\ UNCHANGED <<backlog, stopFlag, acceptor, ownerVars, free>>
        BY <2>1 DEF HandlerSteps, clientVars
      <3> HIDE DEF step
      <3> QED
        BY <2>1, <2>3, <3>1, HandlerStepKeeps
    <2>5. TypeOK' /\ LockHeld'
      BY <2>1, <2>3 DEF IInv, TypeOK, HandlerSteps, LockHeld, InQueue, clientVars, ownerVars
    <2> QED
      BY <2>4, <2>5 DEF IInv
  <1>6. CASE HandlerUnlock(c)
    <2>1. /\ handler[c] = "unlock" /\ mutex' = NoOne
          /\ handler' = [handler EXCEPT ![c] = "check"]
          /\ UNCHANGED <<clientVars, stopFlag, queue, acceptor, hand, ownerVars, free>>
      BY <1>6 DEF HandlerUnlock
    <2>2. hand[c] = << >> /\ hand' = [hand EXCEPT ![c] = << >>] /\ << >> \in Seq(Pieces)
      BY <2>1, EmptySeq DEF ThreadsKept, IInv, TypeOK
    <2> DEFINE step == "check"
    <2>3. ThreadsKept' /\ BacklogKept' /\ StoppedQuietly'
      <3>1. /\ step \in HandlerSteps \ {"none"} /\ step \notin {"lock", "push"}
            /\ handler' = [handler EXCEPT ![c] = step] /\ handler[c] \notin {"none", "done"}
            /\ UNCHANGED <<backlog, stopFlag, acceptor, ownerVars, free>>
        BY <2>1 DEF HandlerSteps, clientVars
      <3> HIDE DEF step
      <3> QED
        BY <2>2, <3>1, HandlerStepKeeps
    <2>4. mutex = c /\ \A d \in Connections : d # c => handler[d] \notin {"push", "unlock"}
      BY <2>1 DEF IInv, LockHeld, InQueue
    <2>5. TypeOK' /\ LockHeld'
      BY <2>1, <2>4 DEF IInv, TypeOK, HandlerSteps, LockHeld, InQueue, clientVars, ownerVars, NoOne, OwnerId
    <2> QED
      BY <2>3, <2>5 DEF IInv
  <1> QED
    BY <1>1, <1>2, <1>3, <1>4, <1>5, <1>6 DEF Handler

-----------------------------------------------------------------------------
(* The owner *)

LEMMA OwnerKeeps ==
    ASSUME IInv, Poll \/ Stop \/ Join \/ Start
    PROVE  IInv'
  <1> USE DEF IInv, TypeOK
  <1>1. UNCHANGED <<clientVars, queue, handlerVars, free>>
    BY DEF Poll, EmptyLock, EmptySize, OwnerBranch, GetLock, GetTake, Stop, Join, Start
  <1>2. CASE Poll
    <2>1. /\ owner \in {"idle", "size", "polled", "get", "take"}
          /\ owner' \in {"idle", "size", "polled", "get", "take", "threw"}
          /\ UNCHANGED <<stopFlag, acceptor>>
          /\ empty' \in BOOLEAN /\ mutex' \in {mutex, NoOne, OwnerId}
      BY <1>2 DEF Poll, EmptyLock, EmptySize, OwnerBranch, GetLock, GetTake
    <2>2. TypeOK'
      BY <1>1, <2>1 DEF OwnerSteps, clientVars, handlerVars
    <2>3. LockHeld'
      BY <1>1, <1>2 DEF Poll, EmptyLock, EmptySize, OwnerBranch, GetLock, GetTake, LockHeld,
                        InQueue, handlerVars, NoOne, OwnerId
    <2>4. ThreadsKept'
      BY <1>1, <2>1 DEF ThreadsKept, handlerVars
    <2>5. BacklogKept'
      BY <1>1, <2>1 DEF BacklogKept, Listening, clientVars, handlerVars
    <2> QED
      BY <2>2, <2>3, <2>4, <2>5, NothingRunsAfterStop
  <1>3. CASE Stop
    BY <1>1, <1>3 DEF Stop, OwnerSteps, LockHeld, InQueue, ThreadsKept, BacklogKept, Listening,
                      StoppedQuietly, clientVars, handlerVars
  <1>4. CASE Join
    BY <1>1, <1>4 DEF Join, OwnerSteps, AcceptorSteps, LockHeld, InQueue, ThreadsKept,
                      BacklogKept, Listening, StoppedQuietly, clientVars, handlerVars
  <1>5. CASE Start
    <2>1. /\ owner = "stopped" /\ owner' = "idle"
          /\ stopFlag' = FALSE /\ acceptor' = "listen"
          /\ UNCHANGED <<mutex, empty>>
      BY <1>5 DEF Start
    <2>2. TypeOK'
      BY <1>1, <2>1 DEF OwnerSteps, AcceptorSteps, clientVars, handlerVars
    <2>3. LockHeld'
      BY <1>1, <2>1 DEF LockHeld, InQueue, handlerVars
    <2>4. ThreadsKept'
      BY <1>1, <2>1 DEF ThreadsKept, StoppedQuietly, handlerVars
    <2>5. BacklogKept'
      BY <1>1, <2>1 DEF BacklogKept, Listening, clientVars, handlerVars
    <2> QED
      BY <2>2, <2>3, <2>4, <2>5, NothingRunsAfterStop
  <1> QED
    BY <1>2, <1>3, <1>4, <1>5

-----------------------------------------------------------------------------
(* The theorems *)

\* However threads interleave and system calls fail, the invariant holds.
THEOREM InvariantHolds == Spec => []IInv
  <1>1. Init => IInv
    BY InitEstablishesIInv
  <1>2. IInv /\ [Next]_vars => IInv'
    <2> SUFFICES ASSUME IInv, [Next]_vars
                 PROVE  IInv'
      OBVIOUS
    <2>1. CASE UNCHANGED vars
      BY <2>1 DEF vars, IInv, TypeOK, LockHeld, InQueue, ThreadsKept, BacklogKept, Listening,
                  StoppedQuietly, clientVars, handlerVars, ownerVars
    <2>2. ASSUME NEW c \in Connections,
                 Connect(c) \/ Send(c) \/ Shutdown(c) \/ Handler(c) \/ HandlerReadError(c)
          PROVE  IInv'
      BY <2>2, ConnectKeeps, SendOrShutdownKeeps, HandlerKeeps
    <2>3. CASE Acceptor
      BY <2>3, AcceptorKeeps
    <2>4. CASE Poll \/ Stop \/ Join \/ Start
      BY <2>4, OwnerKeeps
    <2> QED
      BY <2>1, <2>2, <2>3, <2>4 DEF Next
  <1> QED
    BY <1>1, <1>2, PTL DEF Spec

\* Of all the handlers and the owner at most one is inside the queue.
THEOREM QueueExclusiveHolds == Spec => []QueueExclusive
  <1>1. IInv => QueueExclusive
    BY DEF IInv, LockHeld, QueueExclusive, InQueue
  <1> QED
    BY <1>1, InvariantHolds, PTL

\* When stop() has returned, no thread of the listener is left to touch it.
THEOREM StoppedQuietlyHolds == Spec => []StoppedQuietly
  <1>1. IInv => StoppedQuietly
    BY DEF IInv
  <1> QED
    BY <1>1, InvariantHolds, PTL

\* When core asks for a packet there is one, so it always meets the exception and never
\* the front of an empty queue, however the handlers interleave with its two calls.
THEOREM PacketIsThereHolds == Spec => []PacketIsThere
  <1>1. Init => SizeStays
    BY DEF Init, SizeStays, PacketIsThere
  <1>2. IInv /\ SizeStays /\ [Next]_vars => SizeStays'
    <2> SUFFICES ASSUME IInv, SizeStays, [Next]_vars
                 PROVE  SizeStays'
      OBVIOUS
    <2> USE DEF SizeStays, PacketIsThere
    <2>1. CASE UNCHANGED <<queue, owner, empty>>
      BY <2>1
    <2>2. CASE UNCHANGED vars
      BY <2>1, <2>2 DEF vars, ownerVars
    <2>3. CASE Acceptor
      BY <2>1, <2>3 DEF Acceptor, AcceptorListen, AcceptorThrows, AcceptorCheck,
                        AcceptorAccept, AcceptorError, AcceptorJoin, ownerVars
    <2>4. CASE Poll \/ Stop \/ Join \/ Start
      BY <2>4 DEF Poll, EmptyLock, EmptySize, OwnerBranch, GetLock, GetTake, Stop, Join, Start
    <2>5. ASSUME NEW c \in Connections, Connect(c) \/ Send(c) \/ Shutdown(c)
          PROVE  SizeStays'
      BY <2>1, <2>5 DEF Connect, Send, Shutdown, ownerVars
    <2>6. ASSUME NEW c \in Connections, Handler(c) \/ HandlerReadError(c)
          PROVE  SizeStays'
      <3>1. CASE HandlerPush(c)
        <4>1. queue' = Append(queue, [from |-> c, data |-> hand[c]])
              /\ UNCHANGED <<owner, empty>>
          BY <3>1 DEF HandlerPush, ownerVars
        <4> DEFINE packet == [from |-> c, data |-> hand[c]]
        <4>2. packet \in Packets /\ queue \in Seq(Packets)
          BY DEF Packets, IInv, TypeOK
        <4> HIDE DEF packet
        <4>3. Append(queue, packet) # << >>
          BY <4>2, AppendProperties
        <4> QED
          BY <4>1, <4>3 DEF packet
      <3>2. CASE ~HandlerPush(c)
        BY <2>1, <2>6, <3>2 DEF Handler, HandlerCheck, HandlerRead, HandlerReadNothing,
                                HandlerReadError, HandlerLock, HandlerUnlock, ownerVars
      <3> QED
        BY <3>1, <3>2
    <2> QED
      BY <2>2, <2>3, <2>4, <2>5, <2>6 DEF Next
  <1>3. SizeStays => PacketIsThere
    BY DEF SizeStays
  <1> QED
    BY <1>1, <1>2, <1>3, InvariantHolds, PTL DEF Spec

-----------------------------------------------------------------------------
(* The streams *)

\* What a run of pieces is: as long as it goes from first to last, and rising by one.
LEMMA RunProperties ==
    ASSUME NEW first \in Nat, NEW last \in Nat, first <= last + 1
    PROVE  /\ Run(first, last) \in Seq(Int)
           /\ Len(Run(first, last)) = last + 1 - first
           /\ \A i \in 1 .. last + 1 - first : Run(first, last)[i] = first + i - 1
  <1>1. last + 1 - first \in Nat
    OBVIOUS
  <1> QED
    BY <1>1 DEF Run

\* The piece that follows a run makes it longer.
LEMMA RunAppend ==
    ASSUME NEW first \in Nat, NEW last \in Nat, first <= last + 1
    PROVE  Append(Run(first, last), last + 1) = Run(first, last + 1)
  <1> DEFINE s == Run(first, last)
             t == Append(s, last + 1)
             n == last + 1 - first
  <1>1. s \in Seq(Int) /\ Len(s) = n /\ n \in Nat /\ \A i \in 1 .. n : s[i] = first + i - 1
    BY RunProperties
  <1>2. /\ t \in Seq(Int) /\ Len(t) = n + 1
        /\ \A i \in 1 .. n : t[i] = s[i]
        /\ t[n + 1] = last + 1
    <2> HIDE DEF s, n
    <2> QED
      BY <1>1, AppendProperties
  <1>3. /\ Run(first, last + 1) \in Seq(Int) /\ Len(Run(first, last + 1)) = n + 1
        /\ \A i \in 1 .. n + 1 : Run(first, last + 1)[i] = first + i - 1
    BY RunProperties
  <1> HIDE DEF s, t
  <1>4. \A i \in 1 .. n + 1 : t[i] = Run(first, last + 1)[i]
    <2>1. \A i \in 1 .. n : t[i] = Run(first, last + 1)[i]
      BY <1>1, <1>2, <1>3
    <2>2. t[n + 1] = Run(first, last + 1)[n + 1]
      BY <1>2, <1>3
    <2>3. \A i \in 1 .. n + 1 : i \in 1 .. n \/ i = n + 1
      BY <1>1
    <2> HIDE DEF n
    <2> QED
      BY <2>1, <2>2, <2>3
  <1>5. t = Run(first, last + 1)
    BY <1>2, <1>3, <1>4, SeqEqual
  <1> QED
    BY <1>5 DEF s, t

\* Cut in two, a run gives two runs.
LEMMA RunCut ==
    ASSUME NEW first \in Nat, NEW last \in Nat, first <= last + 1,
           NEW n \in 1 .. last + 1 - first
    PROVE  /\ SubSeq(Run(first, last), 1, n) = Run(first, first + n - 1)
           /\ SubSeq(Run(first, last), n + 1, Len(Run(first, last))) = Run(first + n, last)
  <1> DEFINE s == Run(first, last)
             len == last + 1 - first
             head == SubSeq(s, 1, n)
             tail == SubSeq(s, n + 1, Len(s))
  <1>1. s \in Seq(Int) /\ Len(s) = len /\ len \in Nat
        /\ \A i \in 1 .. len : s[i] = first + i - 1
    BY RunProperties
  <1>2. head \in Seq(Int) /\ Len(head) = n /\ \A i \in 1 .. n : head[i] = s[i]
    <2>1. \A i \in 1 .. n : s[i] \in Int
      BY <1>1
    <2> HIDE DEF s
    <2> QED
      BY <1>1, <2>1, SubSeqProperties
  <1>3. /\ Run(first, first + n - 1) \in Seq(Int) /\ Len(Run(first, first + n - 1)) = n
        /\ \A i \in 1 .. n : Run(first, first + n - 1)[i] = first + i - 1
    <2>1. PICK m \in Nat : m = first + n - 1 /\ first <= m + 1 /\ m + 1 - first = n
      OBVIOUS
    <2>2. /\ Run(first, m) \in Seq(Int) /\ Len(Run(first, m)) = m + 1 - first
          /\ \A i \in 1 .. m + 1 - first : Run(first, m)[i] = first + i - 1
      BY <2>1, RunProperties
    <2> QED
      BY <2>1, <2>2
  <1>4. tail \in Seq(Int) /\ Len(tail) = len - n /\ \A i \in 1 .. len - n : tail[i] = s[n + i]
    <2>1. PICK l \in Nat : l = len /\ l = Len(s)
      BY <1>1
    <2>2. PICK m \in 1 .. l + 1 : m = n + 1
      BY <2>1
    <2>3. \A i \in m .. l : s[i] \in Int
      BY <1>1, <2>1, <2>2
    <2> HIDE DEF s
    <2>4. LET t == SubSeq(s, m, l)
          IN  t \in Seq(Int) /\ Len(t) = l + 1 - m /\ \A i \in 1 .. l + 1 - m : t[i] = s[m + i - 1]
      BY <2>1, <2>2, <2>3, SubSeqProperties
    <2> HIDE DEF len
    <2> QED
      BY <2>1, <2>2, <2>4
  <1>5. /\ Run(first + n, last) \in Seq(Int) /\ Len(Run(first + n, last)) = len - n
        /\ \A i \in 1 .. len - n : Run(first + n, last)[i] = first + n + i - 1
    <2>1. first + n \in Nat /\ first + n <= last + 1 /\ last + 1 - (first + n) = len - n
      OBVIOUS
    <2> QED
      BY <2>1, RunProperties
  <1> HIDE DEF s, head, tail
  <1>6. head = Run(first, first + n - 1)
    <2>1. ASSUME NEW i \in 1 .. n
          PROVE  head[i] = Run(first, first + n - 1)[i]
      <3>1. i \in 1 .. len
        OBVIOUS
      <3>2. head[i] = first + i - 1
        BY <1>1, <1>2, <3>1
      <3> QED
        BY <1>3, <3>2
    <2> QED
      BY <1>2, <1>3, <2>1, SeqEqual
  <1>7. tail = Run(first + n, last)
    <2>1. \A i \in 1 .. len - n : tail[i] = Run(first + n, last)[i]
      BY <1>1, <1>4, <1>5
    <2> QED
      BY <1>4, <1>5, <2>1, SeqEqual
  <1> QED
    BY <1>6, <1>7 DEF s, head, tail


\* A step that touches neither the streams nor the queue keeps them.
LEMMA StreamsUntouched ==
    ASSUME StreamKept, UNCHANGED <<sent, stream, hand, queue>>
    PROVE  StreamKept'
  <1>1. \A c \in Connections : ReadOf(c)' = ReadOf(c) /\ QueuedOf(c)' = QueuedOf(c)
                                /\ PacketsOf(c)' = PacketsOf(c)
    BY DEF PacketsOf, QueuedOf, ReadOf
  <1> QED
    BY <1>1 DEF StreamKept

\* One more piece is unread.
LEMMA SendKeepsStreams ==
    ASSUME TypeOK, StreamKept, NEW c \in Connections, Send(c)
    PROVE  StreamKept'
  <1>1. /\ sent' = [sent EXCEPT ![c] = sent[c] + 1]
        /\ stream' = [stream EXCEPT ![c] = Append(stream[c], sent[c] + 1)]
        /\ UNCHANGED <<hand, queue>>
    BY DEF Send, handlerVars, TypeOK
  <1>2. /\ Len(stream[c]) \in Nat /\ Len(hand[c]) \in Nat /\ sent[c] \in Nat
        /\ ReadOf(c) \in Nat /\ QueuedOf(c) \in Nat /\ ReadOf(c) <= sent[c]
    <2>1. Len(stream[c]) \in Nat /\ Len(hand[c]) \in Nat /\ sent[c] \in Nat
      BY DEF TypeOK
    <2>2. QueuedOf(c) \in Nat
      BY DEF StreamKept
    <2> QED
      BY <2>1, <2>2 DEF ReadOf, QueuedOf
  <1>3. ReadOf(c)' = ReadOf(c) /\ QueuedOf(c)' = QueuedOf(c)
    <2>1. Len(stream'[c]) = Len(stream[c]) + 1 /\ sent'[c] = sent[c] + 1
      BY <1>1, <1>2, AppendProperties DEF TypeOK
    <2> QED
      BY <1>1, <1>2, <2>1 DEF ReadOf, QueuedOf
  <1>4. stream'[c] = Run(ReadOf(c)' + 1, sent'[c])
    <2>1. ReadOf(c) + 1 \in Nat /\ ReadOf(c) + 1 <= sent[c] + 1
      BY <1>2
    <2>2. stream'[c] = Append(Run(ReadOf(c) + 1, sent[c]), sent[c] + 1)
      BY <1>1 DEF TypeOK, StreamKept
    <2>3. stream'[c] = Run(ReadOf(c) + 1, sent[c] + 1)
      BY <1>2, <2>1, <2>2, RunAppend
    <2> QED
      BY <1>1, <1>3, <2>3 DEF TypeOK
  <1>5. \A d \in Connections : d # c => ReadOf(d)' = ReadOf(d) /\ QueuedOf(d)' = QueuedOf(d)
            /\ stream'[d] = stream[d] /\ sent'[d] = sent[d]
    BY <1>1 DEF ReadOf, QueuedOf, TypeOK
  <1>6. ASSUME NEW d \in Connections
        PROVE  /\ ReadOf(d)' = ReadOf(d) /\ QueuedOf(d)' = QueuedOf(d)
               /\ stream'[d] = Run(ReadOf(d)' + 1, sent'[d])
               /\ PacketsOf(d)' = PacketsOf(d)
    BY <1>1, <1>3, <1>4, <1>5 DEF PacketsOf, StreamKept
  <1> QED
    BY <1>1, <1>6 DEF StreamKept

\* What is read goes from the front of the stream to the hand, which was empty.
LEMMA ReadKeepsStreams ==
    ASSUME TypeOK, ThreadsKept, StreamKept, NEW c \in Connections, HandlerRead(c)
    PROVE  StreamKept'
  <1>1. PICK n \in 1 .. Len(stream[c]) :
            /\ hand' = [hand EXCEPT ![c] = SubSeq(stream[c], 1, n)]
            /\ stream' = [stream EXCEPT ![c] = SubSeq(stream[c], n + 1, Len(stream[c]))]
    BY DEF HandlerRead
  <1>2. hand[c] = << >> /\ UNCHANGED <<sent, queue>>
    BY DEF HandlerRead, ThreadsKept
  <1> DEFINE read == ReadOf(c)
             unread == Run(read + 1, sent[c])
  <1>3. /\ stream[c] = unread /\ Len(stream[c]) = sent[c] - read
        /\ read \in Nat /\ sent[c] \in Nat /\ n \in 1 .. sent[c] - read
        /\ QueuedOf(c) = read
    <2>1. Len(stream[c]) \in Nat /\ sent[c] \in Nat /\ Len(hand[c]) = 0
      BY <1>2, EmptySeq DEF TypeOK
    <2> QED
      BY <2>1 DEF StreamKept, ReadOf, QueuedOf
  <1> HIDE DEF read
  <1>4. /\ SubSeq(unread, 1, n) = Run(read + 1, read + n)
        /\ SubSeq(unread, n + 1, Len(unread)) = Run(read + n + 1, sent[c])
    <2> DEFINE first == read + 1
               last == sent[c]
    <2>1. /\ first \in Nat /\ last \in Nat /\ first <= last + 1
          /\ n \in 1 .. last + 1 - first
          /\ first + n - 1 = read + n /\ first + n = read + n + 1
      BY <1>3
    <2> HIDE DEF first, last
    <2>2. /\ SubSeq(Run(first, last), 1, n) = Run(first, first + n - 1)
          /\ SubSeq(Run(first, last), n + 1, Len(Run(first, last))) = Run(first + n, last)
      BY <2>1, RunCut
    <2> QED
      BY <2>1, <2>2 DEF first, last
  <1>5. /\ hand'[c] = Run(read + 1, read + n)
        /\ stream'[c] = Run(read + n + 1, sent[c])
    BY <1>1, <1>3, <1>4 DEF TypeOK
  <1>6. Len(hand'[c]) = n /\ Len(stream'[c]) = sent[c] - (read + n)
    <2> DEFINE first == read + 1
               middle == read + n
               next == read + n + 1
    <2>1. /\ first \in Nat /\ middle \in Nat /\ next \in Nat
          /\ first <= middle + 1 /\ next <= sent[c] + 1
          /\ middle + 1 - first = n /\ sent[c] + 1 - next = sent[c] - (read + n)
      BY <1>3
    <2>2. hand'[c] = Run(first, middle) /\ stream'[c] = Run(next, sent[c])
      BY <1>5
    <2> HIDE DEF first, middle, next
    <2>3. Len(Run(first, middle)) = n
      BY <2>1, RunProperties
    <2>4. Len(Run(next, sent[c])) = sent[c] - (read + n)
      BY <1>3, <2>1, RunProperties
    <2> QED
      BY <2>2, <2>3, <2>4
  <1>7. ReadOf(c)' = read + n /\ QueuedOf(c)' = read /\ sent'[c] = sent[c]
    BY <1>2, <1>3, <1>6 DEF ReadOf, QueuedOf
  <1>8. \A d \in Connections : d # c => ReadOf(d)' = ReadOf(d) /\ QueuedOf(d)' = QueuedOf(d)
            /\ stream'[d] = stream[d] /\ hand'[d] = hand[d] /\ sent'[d] = sent[d]
    BY <1>1, <1>2 DEF ReadOf, QueuedOf, TypeOK
  <1>9. ASSUME NEW d \in Connections
        PROVE  /\ QueuedOf(d)' = QueuedOf(d) /\ PacketsOf(d)' = PacketsOf(d)
               /\ hand'[d] = Run(QueuedOf(d)' + 1, ReadOf(d)')
               /\ stream'[d] = Run(ReadOf(d)' + 1, sent'[d])
    <2>1. PacketsOf(d)' = PacketsOf(d)
      BY <1>2 DEF PacketsOf
    <2> QED
      BY <1>3, <1>5, <1>7, <1>8, <2>1 DEF StreamKept
  <1> QED
    BY <1>2, <1>9 DEF StreamKept

\* The packet of a run of pieces holds the last ones queued, and comes last.
LEMMA PushKeepsStreams ==
    ASSUME TypeOK, ThreadsKept, StreamKept, NEW c \in Connections, HandlerPush(c)
    PROVE  StreamKept'
  <1> DEFINE packet == [from |-> c, data |-> hand[c]]
             new == Len(queue) + 1
             old == QueuedOf(c)
             read == ReadOf(c)
  <1>1. /\ queue' = Append(queue, packet)
        /\ hand' = [hand EXCEPT ![c] = << >>]
        /\ hand[c] # << >> /\ UNCHANGED <<sent, stream>>
    BY DEF HandlerPush, ThreadsKept, clientVars
  <1>2. packet \in Packets
    BY DEF Packets, TypeOK
  <1>3. /\ Len(queue) \in Nat /\ Len(queue') = new
        /\ \A i \in 1 .. Len(queue) : queue'[i] = queue[i]
        /\ queue'[new] = packet
    <2> HIDE DEF packet
    <2> QED
      BY <1>1, <1>2, AppendProperties DEF TypeOK
  <1>4. /\ hand[c] = Run(old + 1, read) /\ old \in Nat /\ read \in Nat /\ old < read
        /\ Len(hand[c]) = read - old
        /\ \A k \in 1 .. Len(hand[c]) : hand[c][k] = old + k
    <2>1. Len(hand[c]) \in Nat /\ Len(hand[c]) # 0
      BY <1>1, EmptySeq DEF TypeOK
    <2>2. old \in Nat /\ read = old + Len(hand[c]) /\ hand[c] = Run(old + 1, read)
      <3>1. sent[c] \in Nat /\ Len(stream[c]) \in Nat
        BY DEF TypeOK
      <3> QED
        BY <2>1, <3>1 DEF StreamKept, QueuedOf, ReadOf
    <2> HIDE DEF old, read
    <2> DEFINE first == old + 1
    <2>3. first \in Nat /\ read \in Nat /\ first <= read + 1
          /\ read + 1 - first = Len(hand[c]) /\ hand[c] = Run(first, read)
      BY <2>1, <2>2
    <2>4. \A k \in 1 .. Len(hand[c]) : hand[c][k] = old + k
      <3> HIDE DEF first
      <3>1. \A k \in 1 .. Len(hand[c]) : hand[c][k] = first + k - 1
        BY <2>3, RunProperties
      <3> QED
        BY <2>2, <3>1 DEF first
    <2>5. old < read /\ Len(hand[c]) = read - old
      BY <2>1, <2>2
    <2> QED
      BY <2>2, <2>3, <2>4, <2>5
  <1>5. ReadOf(c)' = read /\ QueuedOf(c)' = read /\ hand'[c] = << >> /\ stream'[c] = stream[c]
    <2>1. hand'[c] = << >> /\ Len(hand'[c]) = 0
      BY <1>1, EmptySeq DEF TypeOK
    <2> QED
      BY <1>1, <1>4, <2>1 DEF QueuedOf, ReadOf
  <1>6. \A d \in Connections : d # c => ReadOf(d)' = ReadOf(d) /\ QueuedOf(d)' = QueuedOf(d)
            /\ hand'[d] = hand[d] /\ PacketsOf(d)' = PacketsOf(d)
    BY <1>1, <1>3 DEF ReadOf, QueuedOf, TypeOK, PacketsOf
  <1>7. PacketsOf(c)' = PacketsOf(c) \cup {new}
    BY <1>3 DEF PacketsOf
  <1> HIDE DEF old, read, new, packet
  <1>8. CutInOrder(queue', PacketsOf(c)', read)
    <2>1. CutInOrder(queue, PacketsOf(c), old)
      BY DEF StreamKept, old
    <2>2. \A i \in PacketsOf(c) : i \in 1 .. Len(queue) /\ queue'[i] = queue[i] /\ i < new
      BY <1>3 DEF PacketsOf, new
    <2>3. queue'[new].data = hand[c]
      BY <1>3 DEF packet
    <2>4. ASSUME NEW i \in PacketsOf(c)'
          PROVE  \E first \in 1 .. read : \E last \in first .. read :
                    queue'[i].data = Run(first, last)
      <3>1. CASE i \in PacketsOf(c)
        <4>1. PICK first \in 1 .. old : \E last \in first .. old : queue[i].data = Run(first, last)
          BY <2>1, <3>1 DEF CutInOrder
        <4>2. PICK last \in first .. old : queue[i].data = Run(first, last)
          BY <4>1
        <4>3. first \in 1 .. read /\ last \in first .. read
          BY <1>4, <4>1, <4>2
        <4> QED
          BY <2>2, <3>1, <4>2, <4>3
      <3>2. CASE i = new
        <4>1. old + 1 \in 1 .. read /\ read \in old + 1 .. read
          BY <1>4
        <4> QED
          BY <1>4, <2>3, <3>2, <4>1
      <3> QED
        BY <1>7, <3>1, <3>2
    <2>5. \A i \in PacketsOf(c) : \A k \in 1 .. Len(queue[i].data) :
              queue[i].data[k] \in Int /\ queue[i].data[k] <= old
      <3> SUFFICES ASSUME NEW i \in PacketsOf(c), NEW k \in 1 .. Len(queue[i].data)
                   PROVE  queue[i].data[k] \in Int /\ queue[i].data[k] <= old
        OBVIOUS
      <3>1. PICK first \in 1 .. old : \E last \in first .. old : queue[i].data = Run(first, last)
        BY <2>1 DEF CutInOrder
      <3>2. PICK last \in first .. old : queue[i].data = Run(first, last)
        BY <3>1
      <3>3. first \in Nat /\ last \in Nat /\ first <= last + 1 /\ last <= old
        BY <1>4, <3>1, <3>2
      <3>4. k \in 1 .. last + 1 - first /\ queue[i].data[k] = first + k - 1
        <4>1. /\ Len(Run(first, last)) = last + 1 - first
              /\ \A m \in 1 .. last + 1 - first : Run(first, last)[m] = first + m - 1
          BY <3>3, RunProperties
        <4> HIDE DEF CutInOrder
        <4> QED
          BY <3>2, <4>1
      <3> QED
        BY <1>4, <3>3, <3>4
    <2>6. ASSUME NEW i \in PacketsOf(c)', NEW j \in PacketsOf(c)', i < j,
                 NEW k \in 1 .. Len(queue'[i].data), NEW l \in 1 .. Len(queue'[j].data)
          PROVE  queue'[i].data[k] < queue'[j].data[l]
      <3>1. i \in PacketsOf(c)
        BY <1>3, <1>7, <2>2, <2>6 DEF PacketsOf, new
      <3>2. CASE j \in PacketsOf(c)
        BY <2>1, <2>2, <2>6, <3>1, <3>2 DEF CutInOrder
      <3>3. CASE j = new
        <4>1. queue'[i] = queue[i] /\ queue[i].data[k] \in Int /\ queue[i].data[k] <= old
          BY <2>2, <2>5, <3>1
        <4>2. l \in 1 .. Len(hand[c]) /\ queue'[j].data[l] = old + l
          BY <1>4, <2>3, <3>3
        <4> QED
          BY <1>4, <4>1, <4>2
      <3> QED
        BY <1>7, <3>2, <3>3
    <2>7. ASSUME NEW piece \in 1 .. read
          PROVE  \E i \in PacketsOf(c)' : \E k \in 1 .. Len(queue'[i].data) :
                    queue'[i].data[k] = piece
      <3>1. CASE piece \in 1 .. old
        <4>1. PICK i \in PacketsOf(c) : \E k \in 1 .. Len(queue[i].data) : queue[i].data[k] = piece
          BY <2>1, <3>1 DEF CutInOrder
        <4> QED
          BY <1>7, <2>2, <4>1
      <3>2. CASE piece > old
        <4>1. piece - old \in 1 .. Len(hand[c]) /\ old + (piece - old) = piece
          BY <1>4, <3>2
        <4>2. hand[c][piece - old] = piece
          BY <1>4, <4>1
        <4> QED
          BY <1>7, <2>3, <4>1, <4>2
      <3> QED
        BY <1>4, <3>1, <3>2
    <2> QED
      BY <1>5, <2>4, <2>6, <2>7 DEF CutInOrder
  <1>9. ASSUME NEW d \in Connections, d # c
        PROVE  CutInOrder(queue', PacketsOf(d)', QueuedOf(d)')
    <2> DEFINE indices == PacketsOf(d)
               n == QueuedOf(d)
    <2>1. /\ CutInOrder(queue, indices, n)
          /\ PacketsOf(d)' = indices /\ QueuedOf(d)' = n
      BY <1>6, <1>9 DEF StreamKept
    <2>2. \A i \in indices : queue'[i] = queue[i]
      BY <1>3 DEF PacketsOf
    <2> HIDE DEF indices, n
    <2>3. ASSUME NEW i \in indices
          PROVE  \E first \in 1 .. n : \E last \in first .. n : queue'[i].data = Run(first, last)
      <3>1. \E first \in 1 .. n : \E last \in first .. n : queue[i].data = Run(first, last)
        BY <2>1 DEF CutInOrder
      <3> QED
        BY <2>2, <3>1
    <2>4. ASSUME NEW i \in indices, NEW j \in indices, i < j
          PROVE  \A k \in 1 .. Len(queue'[i].data), l \in 1 .. Len(queue'[j].data) :
                    queue'[i].data[k] < queue'[j].data[l]
      <3>1. \A k \in 1 .. Len(queue[i].data), l \in 1 .. Len(queue[j].data) :
                queue[i].data[k] < queue[j].data[l]
        BY <2>1, <2>4 DEF CutInOrder
      <3> QED
        BY <2>2, <3>1
    <2>5. ASSUME NEW piece \in 1 .. n
          PROVE  \E i \in indices : \E k \in 1 .. Len(queue'[i].data) : queue'[i].data[k] = piece
      <3>1. PICK i \in indices : \E k \in 1 .. Len(queue[i].data) : queue[i].data[k] = piece
        BY <2>1 DEF CutInOrder
      <3> QED
        BY <2>2, <3>1
    <2>6. CutInOrder(queue', indices, n)
      BY <2>3, <2>4, <2>5 DEF CutInOrder
    <2> QED
      BY <2>1, <2>6
  <1>10. hand'[c] = Run(QueuedOf(c)' + 1, ReadOf(c)')
    <2>1. Run(read + 1, read) = << >>
      BY <1>4 DEF Run
    <2> QED
      BY <1>5, <2>1
  <1>11. ASSUME NEW d \in Connections
         PROVE  /\ QueuedOf(d)' \in Nat /\ CutInOrder(queue', PacketsOf(d)', QueuedOf(d)')
                /\ hand'[d] = Run(QueuedOf(d)' + 1, ReadOf(d)')
                /\ stream'[d] = Run(ReadOf(d)' + 1, sent'[d])
    <2>1. CASE d = c
      BY <1>1, <1>4, <1>5, <1>8, <1>10, <2>1 DEF StreamKept, read
    <2>2. CASE d # c
      BY <1>1, <1>6, <1>9, <2>2 DEF StreamKept
    <2> QED
      BY <2>1, <2>2
  <1> QED
    BY <1>11 DEF StreamKept

\* However handlers, clients and the owner interleave, each stream is kept whole and in
\* order.
THEOREM StreamKeptHolds == Spec => []StreamKept
  <1>1. Init => StreamKept
    <2> SUFFICES ASSUME Init, NEW c \in Connections
                 PROVE  /\ QueuedOf(c) \in Nat /\ CutInOrder(queue, PacketsOf(c), QueuedOf(c))
                        /\ hand[c] = Run(QueuedOf(c) + 1, ReadOf(c))
                        /\ stream[c] = Run(ReadOf(c) + 1, sent[c])
      BY DEF StreamKept
    <2>1. /\ sent[c] = 0 /\ stream[c] = << >> /\ hand[c] = << >> /\ queue = << >>
      BY DEF Init
    <2>2. ReadOf(c) = 0 /\ QueuedOf(c) = 0 /\ PacketsOf(c) = {}
      <3>1. Len(<< >>) = 0
        OBVIOUS
      <3> QED
        <4> DEFINE unread == Len(stream[c])
                   held == Len(hand[c])
        <4>1. unread = 0 /\ held = 0
          BY <2>1, <3>1
        <4>2. ReadOf(c) = sent[c] - unread /\ QueuedOf(c) = sent[c] - unread - held
          BY Zenon DEF QueuedOf, ReadOf
        <4> HIDE DEF unread, held
        <4>3. ReadOf(c) = 0 /\ QueuedOf(c) = 0
          BY <2>1, <4>1, <4>2
        <4>4. PacketsOf(c) = {}
          BY <2>1, <3>1 DEF PacketsOf
        <4> QED
          BY <4>3, <4>4
    <2>3. Run(1, 0) = << >>
      BY DEF Run
    <2> QED
      BY <2>1, <2>2, <2>3 DEF CutInOrder
  <1>2. IInv /\ StreamKept /\ [Next]_vars => StreamKept'
    <2> SUFFICES ASSUME IInv, StreamKept, [Next]_vars
                 PROVE  StreamKept'
      OBVIOUS
    <2> USE DEF clientVars, handlerVars, ownerVars
    <2>1. CASE UNCHANGED vars
      BY <2>1, StreamsUntouched DEF vars
    <2>2. CASE Acceptor
      BY <2>2, StreamsUntouched DEF Acceptor, AcceptorListen, AcceptorThrows, AcceptorCheck,
                                    AcceptorAccept, AcceptorError, AcceptorJoin
    <2>3. CASE Poll \/ Stop \/ Join \/ Start
      BY <2>3, StreamsUntouched DEF Poll, EmptyLock, EmptySize, OwnerBranch, GetLock, GetTake,
                                    Stop, Join, Start
    <2>4. ASSUME NEW c \in Connections, Connect(c) \/ Send(c) \/ Shutdown(c)
          PROVE  StreamKept'
      <3>1. CASE Send(c)
        BY <3>1, SendKeepsStreams DEF IInv
      <3>2. CASE Connect(c) \/ Shutdown(c)
        BY <3>2, StreamsUntouched DEF Connect, Shutdown
      <3> QED
        BY <2>4, <3>1, <3>2
    <2>5. ASSUME NEW c \in Connections, Handler(c) \/ HandlerReadError(c)
          PROVE  StreamKept'
      <3>1. CASE HandlerRead(c)
        BY <3>1, ReadKeepsStreams DEF IInv
      <3>2. CASE HandlerPush(c)
        BY <3>2, PushKeepsStreams DEF IInv
      <3>3. CASE \/ HandlerCheck(c) \/ HandlerReadNothing(c) \/ HandlerReadError(c)
                 \/ HandlerLock(c) \/ HandlerUnlock(c)
        BY <3>3, StreamsUntouched DEF HandlerCheck, HandlerReadNothing, HandlerReadError,
                                      HandlerLock, HandlerUnlock
      <3> QED
        BY <2>5, <3>1, <3>2, <3>3 DEF Handler
    <2> QED
      BY <2>1, <2>2, <2>3, <2>4, <2>5 DEF Next
  <1> QED
    BY <1>1, <1>2, InvariantHolds, PTL DEF Spec
=============================================================================
