-------------------------- MODULE UdpServerProofs --------------------------
(***************************************************************************)
(* Proofs about the UDP server, for any number of datagrams, any capacity  *)
(* of the kernel's buffer and any number of descriptors.                   *)
(*                                                                         *)
(* The inductive invariant IInv has three independent parts beside the     *)
(* types.  LockHeld and FrontStays are about the mutex: QueueExclusive     *)
(* follows from the first, and FrontExists, which spans two critical       *)
(* sections, needs the second.  NothingLost follows every datagram from    *)
(* recvfrom to get_next_datagram, which makes the server a queue.          *)
(* SocketKept and NoLeak are about the table of descriptors, in which      *)
(* send_to closes a number twice.                                          *)
(***************************************************************************)
EXTENDS UdpServer, SequenceTheorems, TLAPS

USE CapacityAssumption, EmptyAssumption


-----------------------------------------------------------------------------
(* Sequences *)

\* A datagram that moves from one place to the next stays where it is in the order.
LEMMA AppendAtEnd ==
    ASSUME NEW S, NEW s \in Seq(S), NEW t \in Seq(S), NEW d \in S
    PROVE  Append(s \o (t \o << >>), d) = s \o (t \o <<d>>)
  <1> DEFINE last == <<d>>
  <1>1. t \o << >> = t
    BY ConcatEmptySeq
  <1>2. s \o t \in Seq(S) /\ last \in Seq(S)
    BY ConcatProperties
  <1>3. Append(s \o t, d) = (s \o t) \o last
    BY <1>2, AppendIsConcat
  <1> HIDE DEF last
  <1>4. (s \o t) \o last = s \o (t \o last)
    BY <1>2, ConcatAssociative
  <1> QED
    BY <1>1, <1>3, <1>4 DEF last

LEMMA PushKeepsOrder ==
    ASSUME NEW S, NEW s \in Seq(S), NEW t \in Seq(S), NEW u \in Seq(S)
    PROVE  s \o (t \o u) = s \o ((t \o u) \o << >>)
  <1>1. t \o u \in Seq(S)
    BY ConcatProperties
  <1> QED
    BY <1>1, ConcatEmptySeq

LEMMA DeliverKeepsOrder ==
    ASSUME NEW S, NEW s \in Seq(S), NEW t \in Seq(S), NEW u \in Seq(S), NEW v \in Seq(S)
    PROVE  s \o ((t \o u) \o v) = (s \o t) \o (u \o v)
  <1> DEFINE rest == u \o v
  <1>1. rest \in Seq(S)
    BY ConcatProperties
  <1>2. (t \o u) \o v = t \o rest
    BY ConcatAssociative
  <1> HIDE DEF rest
  <1>3. (s \o t) \o rest = s \o (t \o rest)
    BY <1>1, ConcatAssociative
  <1> QED
    BY <1>2, <1>3 DEF rest

LEMMA HeadAndTail ==
    ASSUME NEW S, NEW s \in Seq(S), s # << >>
    PROVE  /\ Head(s) \in S /\ Tail(s) \in Seq(S)
           /\ s = <<Head(s)>> \o Tail(s)
  <1> DEFINE first == <<Head(s)>>
             others == Tail(s)
  <1>1. /\ Head(s) \in S /\ others \in Seq(S) /\ Len(others) = Len(s) - 1
        /\ \A i \in 1 .. Len(others) : others[i] = s[i + 1]
    BY HeadTailProperties
  <1>2. /\ Len(s) \in Nat \ {0}
        /\ first \in Seq(S) /\ Len(first) = 1 /\ first[1] = s[1]
    BY <1>1, EmptySeq
  <1> HIDE DEF first, others
  <1>3. first \o others \in Seq(S) /\ Len(first \o others) = Len(s)
    <2>1. Len(first) + Len(others) = Len(s)
      BY <1>1, <1>2
    <2> QED
      BY <1>1, <1>2, <2>1, ConcatProperties
  <1>4. ASSUME NEW i \in 1 .. Len(s)
        PROVE  s[i] = (first \o others)[i]
    <2>1. i \in 1 .. Len(first) + Len(others)
      BY <1>1, <1>2
    <2>2. (first \o others)[i] = IF i <= Len(first) THEN first[i] ELSE others[i - Len(first)]
      BY <1>1, <1>2, <2>1, ConcatProperties
    <2> QED
      BY <1>1, <1>2, <2>2
  <1>5. s = first \o others
    BY <1>3, <1>4, SeqEqual
  <1> QED
    BY <1>1, <1>5 DEF first, others

\* What is taken next of s \o (t \o u) when s has been taken and t is one long.
LEMMA NextTaken ==
    ASSUME NEW S, NEW s \in Seq(S), NEW d \in S, NEW u \in Seq(S)
    PROVE  /\ Len(s) < Len(s \o (<<d>> \o u))
           /\ (s \o (<<d>> \o u))[Len(s) + 1] = d
  <1> DEFINE first == <<d>>
             rest == first \o u
  <1>1. first \in Seq(S) /\ Len(first) = 1 /\ first[1] = d
    OBVIOUS
  <1>2. Len(u) \in Nat /\ Len(s) \in Nat
    BY LenProperties
  <1> HIDE DEF first
  <1>3. rest \in Seq(S) /\ Len(rest) = 1 + Len(u)
    BY <1>1, ConcatProperties
  <1>4. rest[1] = d
    <2>1. 1 \in 1 .. Len(first) + Len(u) /\ 1 <= Len(first)
      BY <1>1, <1>2
    <2> QED
      BY <1>1, <2>1, ConcatProperties
  <1> HIDE DEF rest
  <1>5. Len(s \o rest) = Len(s) + Len(rest)
    BY <1>3, ConcatProperties
  <1>6. (s \o rest)[Len(s) + 1] = d
    <2>1. /\ Len(s) + 1 \in 1 .. Len(s) + Len(rest)
          /\ ~(Len(s) + 1 <= Len(s)) /\ (Len(s) + 1) - Len(s) = 1
      BY <1>2, <1>3
    <2>2. (s \o rest)[Len(s) + 1] = rest[(Len(s) + 1) - Len(s)]
      BY <1>3, <2>1, ConcatProperties
    <2> QED
      BY <1>4, <2>1, <2>2
  <1>7. Len(s) < Len(s \o rest)
    BY <1>2, <1>3, <1>5
  <1> QED
    BY <1>6, <1>7 DEF first, rest

-----------------------------------------------------------------------------
(* The invariant *)

\* The server starts with nothing on its way and one descriptor in use.
LEMMA InitEstablishesIInv == Init => IInv
  <1> SUFFICES ASSUME Init
               PROVE  IInv
    OBVIOUS
  <1> USE DEF Init
  <1>1. Socket \in Fds /\ << >> \in Seq(Datagrams)
    BY DEF Socket, Fds
  <1>2. TypeOK
    <2>1. fds \in [Fds -> Users] /\ raw \in Fds /\ sending \in Fds /\ window \subseteq Fds
      BY <1>1 DEF Users
    <2>2. mutex \in Holders /\ receiver \in ReceiverSteps /\ owner \in OwnerSteps
      BY DEF Holders, ReceiverSteps, OwnerSteps, PollSteps
    <2>3. arrived \in 0 .. MaxDatagrams
      OBVIOUS
    <2>4. stopFlag \in BOOLEAN /\ blank \in BOOLEAN
      OBVIOUS
    <2>5. /\ socket \in Seq(Datagrams) /\ queue \in Seq(Datagrams) /\ hand \in Seq(Datagrams)
          /\ got \in Seq(Datagrams) /\ accepted \in Seq(Datagrams) /\ delivered \in Seq(Datagrams)
      BY <1>1
    <2> QED
      BY <2>1, <2>2, <2>3, <2>4, <2>5, Zenon DEF TypeOK
  <1>3. LockHeld /\ FrontStays
    BY DEF LockHeld, FrontStays, FrontExists, ReceiverInQueue, OwnerInQueue
  <1>4. NothingLost
    BY <1>1, ConcatEmptySeq DEF NothingLost, Outstanding
  <1>5. SocketKept /\ NoLeak
    BY <1>1 DEF SocketKept, NoLeak
  <1> QED
    BY <1>2, <1>3, <1>4, <1>5 DEF IInv

\* The lowest free descriptor is a free descriptor.
LEMMA LowestFreeIsFree == \A fd \in LowestFree : fd \in Fds /\ fds[fd] = "free"
  BY DEF LowestFree, FreeFds

LEMMA TypeIsKept ==
    ASSUME TypeOK, [Next]_vars
    PROVE  TypeOK'
  <1> USE DEF TypeOK
  <1>1. CASE Arrive
    <2>1. arrived' \in Datagrams /\ arrived' \in 0 .. MaxDatagrams
      BY <1>1 DEF Arrive, Datagrams
    <2>2. socket' \in Seq(Datagrams)
      BY <1>1, <2>1, AppendProperties DEF Arrive
    <2> QED
      BY <1>1, <2>1, <2>2 DEF Arrive, sendVars, receiverVars, ownerVars
  <1>2. CASE ReceiverRecv
    <2>1. Head(socket) \in Datagrams /\ Tail(socket) \in Seq(Datagrams)
      BY <1>2, HeadAndTail DEF ReceiverRecv
    <2>2. CASE Head(socket) \in EmptyDatagrams
      BY <1>2, <2>1, <2>2 DEF ReceiverRecv, sendVars, ownerVars, ReceiverSteps
    <2>3. CASE Head(socket) \notin EmptyDatagrams
      <3> DEFINE d == Head(socket)
      <3>1. <<d>> \in Seq(Datagrams) /\ Append(accepted, d) \in Seq(Datagrams)
        BY <2>1, AppendProperties
      <3>2. hand' = <<d>> /\ accepted' = Append(accepted, d) /\ receiver' = "lock"
        BY <1>2, <2>3 DEF ReceiverRecv
      <3> HIDE DEF d
      <3> QED
        BY <1>2, <2>1, <3>1, <3>2 DEF ReceiverRecv, sendVars, ownerVars, ReceiverSteps
    <2> QED
      BY <2>2, <2>3
  <1>3. CASE ReceiverPush
    <2>1. queue' \in Seq(Datagrams) /\ hand' \in Seq(Datagrams)
      BY <1>3, ConcatProperties DEF ReceiverPush
    <2> QED
      BY <1>3, <2>1 DEF ReceiverPush, wire, sendVars, ownerVars, ReceiverSteps
  <1>4. CASE ReceiverCheck \/ ReceiverRecvError \/ ReceiverLock \/ ReceiverUnlock
    BY <1>4 DEF ReceiverCheck, ReceiverRecvError, ReceiverLock, ReceiverUnlock,
       wire, sendVars, ownerVars, ReceiverSteps, Holders
  <1>5. CASE GetFront
    <2>1. got' \in Seq(Datagrams)
      BY <1>5, HeadAndTail DEF GetFront
    <2> QED
      BY <1>5, <2>1 DEF GetFront, wire, sendVars, receiverVars, OwnerSteps, PollSteps
  <1>6. CASE GetPop
    <2>1. queue' \in Seq(Datagrams)
      BY <1>6, HeadAndTail DEF GetPop
    <2> QED
      BY <1>6, <2>1 DEF GetPop, wire, sendVars, receiverVars, OwnerSteps, PollSteps
  <1>7. CASE GetReturn
    <2>1. delivered' \in Seq(Datagrams) /\ got' \in Seq(Datagrams)
      BY <1>7, ConcatProperties DEF GetReturn
    <2> QED
      BY <1>7, <2>1 DEF GetReturn, wire, sendVars, receiverVars, OwnerSteps, SendSteps, Holders
  <1>8. CASE BlankLock \/ BlankSize \/ OwnerBranch \/ GetLock
    BY <1>8 DEF BlankLock, BlankSize, OwnerBranch, GetLock, OwnerLock,
       wire, sendVars, receiverVars, OwnerSteps, PollSteps, Holders
  <1>9. CASE SendOpenRaw \/ SendOpenSending \/ OtherOpens
    BY <1>9, LowestFreeIsFree DEF SendOpenRaw, SendOpenSending, OtherOpens, Opened, Users,
       wire, receiverVars, ownerVars, OwnerSteps, SendSteps
  <1>10. CASE NoAnswer \/ SendCloseRaw \/ SendAndClose \/ SendCloseRawAgain \/ SendThrows
    BY <1>10 DEF NoAnswer, SendCloseRaw, SendAndClose, SendCloseRawAgain, SendThrows, Closed, Users,
       wire, sendVars, receiverVars, OwnerSteps, SendSteps, PollSteps
  <1>11. CASE Stop \/ Join \/ Close
    BY <1>11 DEF Stop, Join, Close, Closed, Users, wire, sendVars, receiverVars, OwnerSteps
  <1>12. CASE UNCHANGED vars
    BY <1>12 DEF vars, wire, sendVars, receiverVars, ownerVars
  <1> QED
    BY <1>1, <1>2, <1>3, <1>4, <1>5, <1>6, <1>7, <1>8, <1>9, <1>10, <1>11, <1>12
       DEF Next, Receiver, Poll, Send, Destroy

\* A thread enters the queue with the mutex and leaves it when it gives it back.
LEMMA LockIsKept ==
    ASSUME LockHeld, [Next]_vars
    PROVE  LockHeld'
  <1> USE DEF LockHeld, ReceiverInQueue, OwnerInQueue
  <1>1. CASE Receiver
    BY <1>1 DEF Receiver, ReceiverCheck, ReceiverRecv, ReceiverRecvError, ReceiverLock,
       ReceiverPush, ReceiverUnlock, ownerVars
  <1>2. CASE Poll
    BY <1>2 DEF Poll, BlankLock, BlankSize, OwnerBranch, GetLock, OwnerLock, GetFront,
       GetPop, GetReturn, receiverVars
  <1>3. CASE Send \/ SendThrows \/ Stop \/ Destroy
    BY <1>3 DEF Send, NoAnswer, SendOpenRaw, SendCloseRaw, SendOpenSending, SendAndClose,
       SendCloseRawAgain, SendThrows, Stop, Destroy, Join, Close, receiverVars
  <1>4. CASE UNCHANGED <<mutex, receiver, owner>>
    BY <1>4
  <1> QED
    BY <1>1, <1>2, <1>3, <1>4 DEF Next, Arrive, OtherOpens, receiverVars, ownerVars, vars

\* Only the owner takes from the queue, so what it has seen in front stays there; the
\* receiver adds behind it, and not while the owner is in the queue.
LEMMA FrontIsKept ==
    ASSUME TypeOK, LockHeld, FrontStays, [Next]_vars
    PROVE  FrontStays'
  <1> USE DEF FrontStays, FrontExists
  <1>1. CASE ReceiverPush
    <2>1. queue # << >> => queue' # << >>
      BY <1>1, ConcatEqualIffEmpty DEF ReceiverPush, TypeOK
    <2>2. owner # "pop"
      BY <1>1 DEF ReceiverPush, LockHeld, ReceiverInQueue, OwnerInQueue
    <2> QED
      BY <1>1, <2>1, <2>2 DEF ReceiverPush, ownerVars
  <1>2. CASE BlankLock \/ BlankSize \/ OwnerBranch \/ GetLock
    BY <1>2 DEF BlankLock, BlankSize, OwnerBranch, GetLock, OwnerLock
  <1>3. CASE GetFront
    BY <1>3 DEF GetFront
  <1>4. CASE GetPop \/ GetReturn
    BY <1>4 DEF GetPop, GetReturn
  <1>5. CASE Send \/ SendThrows \/ Stop \/ Destroy
    BY <1>5 DEF Send, NoAnswer, SendOpenRaw, SendCloseRaw, SendOpenSending, SendAndClose,
       SendCloseRawAgain, SendThrows, Stop, Destroy, Join, Close
  <1>6. CASE UNCHANGED <<queue, ownerVars>>
    BY <1>6 DEF ownerVars
  <1> QED
    BY <1>1, <1>2, <1>3, <1>4, <1>5, <1>6 DEF Next, Arrive, Receiver, ReceiverCheck, ReceiverRecv,
       ReceiverRecvError, ReceiverLock, ReceiverUnlock, Poll, OtherOpens, vars

\* A datagram changes hands in the order of arrival.
LEMMA NothingIsLost ==
    ASSUME TypeOK, LockHeld, FrontStays, NothingLost, [Next]_vars
    PROVE  NothingLost'
  <1> USE DEF NothingLost
  <1>1. Outstanding \in Seq(Datagrams)
    BY ConcatProperties DEF Outstanding, TypeOK
  <1>2. CASE ReceiverRecv
    <2>1. Outstanding' = Outstanding
      BY <1>2 DEF ReceiverRecv, Outstanding, ownerVars
    <2>2. CASE Head(socket) \in EmptyDatagrams
      BY <1>2, <2>1, <2>2 DEF ReceiverRecv, ownerVars
    <2>3. CASE Head(socket) \notin EmptyDatagrams
      <3> DEFINE d == Head(socket)
      <3>1. /\ d \in Datagrams /\ hand = << >>
            /\ hand' = <<d>> /\ accepted' = Append(accepted, d) /\ receiver' = "lock"
            /\ UNCHANGED <<delivered, ownerVars>>
        BY <1>2, <2>3, HeadAndTail DEF ReceiverRecv, TypeOK
      <3> HIDE DEF d
      <3>2. accepted' = delivered \o (Outstanding \o <<d>>)
        <4>1. accepted = delivered \o (Outstanding \o << >>) /\ delivered \in Seq(Datagrams)
          BY <3>1 DEF TypeOK
        <4>2. Append(delivered \o (Outstanding \o << >>), d) = delivered \o (Outstanding \o <<d>>)
          BY <1>1, <3>1, <4>1, AppendAtEnd
        <4> QED
          BY <3>1, <4>1, <4>2
      <3>3. hand' # << >>
        BY <3>1
      <3> QED
        BY <2>1, <3>1, <3>2, <3>3 DEF ownerVars
    <2> QED
      BY <2>2, <2>3
  <1>3. CASE ReceiverPush
    <2>1. Outstanding = queue /\ Outstanding' = queue \o hand /\ hand' = << >>
      BY <1>3 DEF ReceiverPush, Outstanding, LockHeld, ReceiverInQueue, OwnerInQueue, ownerVars
    <2>2. delivered \o (queue \o hand) = delivered \o ((queue \o hand) \o << >>)
      BY PushKeepsOrder DEF TypeOK
    <2> QED
      BY <1>3, <2>1, <2>2 DEF ReceiverPush, LockHeld, ReceiverInQueue, OwnerInQueue, ownerVars
  <1>4. CASE GetPop
    <2>1. queue # << >> /\ queue' = Tail(queue) /\ got = <<Head(queue)>>
      BY <1>4 DEF GetPop, FrontStays, FrontExists
    <2>2. Outstanding' = Outstanding
      BY <1>4, <2>1, HeadAndTail DEF GetPop, Outstanding, TypeOK
    <2>3. Len(got) = 1
      BY <2>1
    <2> QED
      BY <1>4, <2>2, <2>3 DEF GetPop, receiverVars
  <1>5. CASE GetReturn
    <2>1. Outstanding = got \o queue /\ Outstanding' = queue /\ delivered' = delivered \o got
      BY <1>5 DEF GetReturn, Outstanding
    <2>2. delivered \o ((got \o queue) \o hand) = (delivered \o got) \o (queue \o hand)
      <3>1. /\ delivered \in Seq(Datagrams) /\ got \in Seq(Datagrams)
            /\ queue \in Seq(Datagrams) /\ hand \in Seq(Datagrams)
        BY DEF TypeOK
      <3> QED
        BY <3>1, DeliverKeepsOrder, SMTT(60)
    <2> QED
      BY <1>5, <2>1, <2>2 DEF GetReturn, receiverVars
  <1>6. CASE /\ UNCHANGED <<accepted, delivered, queue, receiverVars>>
             /\ owner # "return" /\ owner' # "return"
    BY <1>6 DEF Outstanding, receiverVars
  <1>7. CASE /\ UNCHANGED <<accepted, delivered, queue, hand, ownerVars>>
             /\ receiver' \in {"lock", "push"} <=> receiver \in {"lock", "push"}
    BY <1>7 DEF Outstanding, ownerVars
  <1> QED
    BY <1>2, <1>3, <1>4, <1>5, <1>6, <1>7
       DEF Next, Arrive, Receiver, ReceiverCheck, ReceiverRecvError, ReceiverLock, ReceiverUnlock,
       Poll, BlankLock, BlankSize, OwnerBranch, GetLock, OwnerLock, GetFront, OtherOpens,
       Send, NoAnswer, SendOpenRaw, SendCloseRaw, SendOpenSending, SendAndClose,
       SendCloseRawAgain, SendThrows, Stop, Destroy, Join, Close, vars, receiverVars, ownerVars

\* The destructor alone closes the server's socket, after the thread has ended: send_to
\* never has its number.
LEMMA SocketIsKept ==
    ASSUME TypeOK, SocketKept, NoLeak, [Next]_vars
    PROVE  SocketKept'
  <1> USE DEF SocketKept
  <1>1. CASE SendOpenRaw \/ SendOpenSending \/ OtherOpens
    <2>1. PICK fd \in LowestFree, user \in Users : fds' = [fds EXCEPT ![fd] = user]
      BY <1>1 DEF SendOpenRaw, SendOpenSending, OtherOpens, Opened, Users
    <2>2. fd \in Fds /\ fds[fd] = "free"
      BY LowestFreeIsFree
    <2>3. /\ UNCHANGED receiver
          /\ owner' = owner \/ (owner' \in {"raw", "sending"} /\ owner # "closed")
      BY <1>1 DEF SendOpenRaw, SendOpenSending, OtherOpens, receiverVars, ownerVars
    <2> QED
      BY <2>1, <2>2, <2>3 DEF TypeOK
  <1>2. CASE SendCloseRaw \/ SendAndClose \/ SendCloseRawAgain
    <2>1. Socket \in Fds /\ fds[Socket] = "server"
      BY <1>2 DEF SendCloseRaw, SendAndClose, SendCloseRawAgain, Socket, Fds
    <2>2. PICK fd \in Fds \ {Socket} : fds' = [fds EXCEPT ![fd] = "free"]
      BY <1>2, <2>1 DEF SendCloseRaw, SendAndClose, SendCloseRawAgain, Closed, TypeOK, NoLeak
    <2>3. fds'[Socket] = "server"
      BY <2>1, <2>2 DEF TypeOK
    <2> QED
      BY <1>2, <2>3 DEF SendCloseRaw, SendAndClose, SendCloseRawAgain
  <1>3. CASE Close
    BY <1>3 DEF Close, receiverVars
  <1>4. CASE Join
    BY <1>4 DEF Join, receiverVars, sendVars
  <1>5. CASE Receiver
    BY <1>5 DEF Receiver, ReceiverCheck, ReceiverRecv, ReceiverRecvError, ReceiverLock,
       ReceiverPush, ReceiverUnlock, ownerVars, sendVars
  <1>6. CASE /\ UNCHANGED <<fds, receiver>>
             /\ owner' \notin {"close", "closed"} /\ owner \notin {"closed"}
    BY <1>6
  <1>7. CASE UNCHANGED <<fds, receiver, owner>>
    BY <1>7
  <1> QED
    BY <1>1, <1>2, <1>3, <1>4, <1>5, <1>6, <1>7
       DEF Next, Arrive, Poll, BlankLock, BlankSize, OwnerBranch, GetLock, OwnerLock, GetFront,
       GetPop, GetReturn, Send, NoAnswer, SendThrows, Stop, Destroy, vars,
       receiverVars, ownerVars, sendVars

\* While send_to is between its two closes of raw_socket, what has that number is the
\* thing it opened itself, nothing, or another's that was opened meanwhile.
LEMMA NothingLeaks ==
    ASSUME TypeOK, SocketKept, NoLeak, [Next]_vars
    PROVE  NoLeak'
  <1> USE DEF NoLeak
  <1>1. CASE SendOpenRaw
    <2>1. PICK fd \in LowestFree : raw' = fd /\ fds' = [fds EXCEPT ![fd] = "raw"]
      BY <1>1 DEF SendOpenRaw, Opened
    <2>2. fd \in Fds /\ fds[fd] = "free"
      BY LowestFreeIsFree
    <2> QED
      BY <1>1, <2>1, <2>2 DEF SendOpenRaw, TypeOK
  <1>2. CASE SendCloseRaw
    <2>1. raw # Socket
      BY <1>2 DEF SendCloseRaw, SocketKept
    <2> QED
      BY <1>2, <2>1 DEF SendCloseRaw, Closed, TypeOK
  <1>3. CASE SendOpenSending
    <2>1. PICK fd \in LowestFree : sending' = fd /\ fds' = [fds EXCEPT ![fd] = "sending"]
      BY <1>3 DEF SendOpenSending, Opened
    <2>2. fd \in Fds /\ fds[fd] = "free"
      BY LowestFreeIsFree
    <2> QED
      BY <1>3, <2>1, <2>2 DEF SendOpenSending, TypeOK
  <1>4. CASE SendAndClose
    BY <1>4 DEF SendAndClose, Closed, TypeOK
  <1>5. CASE SendCloseRawAgain
    BY <1>5 DEF SendCloseRawAgain, Closed, TypeOK
  <1>6. CASE OtherOpens
    <2>1. PICK fd \in LowestFree :
            /\ fds' = [fds EXCEPT ![fd] = "other"]
            /\ window' = IF owner \in {"between", "sending", "sent"} THEN window \cup {fd} ELSE window
      BY <1>6 DEF OtherOpens, Opened
    <2>2. fd \in Fds /\ fds[fd] = "free"
      BY LowestFreeIsFree
    <2> QED
      BY <1>6, <2>1, <2>2 DEF OtherOpens, ownerVars, TypeOK
  <1>7. CASE Close
    BY <1>7 DEF Close, Closed, TypeOK
  <1>8. CASE SendThrows
    BY <1>8 DEF SendThrows, sendVars
  <1>9. CASE /\ UNCHANGED sendVars
             /\ owner \notin {"raw", "between", "sending", "sent", "threw"}
             /\ owner' \notin {"raw", "between", "sending", "sent", "threw"}
    BY <1>9 DEF sendVars
  <1>10. CASE UNCHANGED <<sendVars, owner>>
    BY <1>10 DEF sendVars
  <1> QED
    BY <1>1, <1>2, <1>3, <1>4, <1>5, <1>6, <1>7, <1>8, <1>9, <1>10
       DEF Next, Arrive, Receiver, ReceiverCheck, ReceiverRecv, ReceiverRecvError, ReceiverLock,
       ReceiverPush, ReceiverUnlock, Poll, BlankLock, BlankSize, OwnerBranch, GetLock, OwnerLock,
       GetFront, GetPop, GetReturn, Send, NoAnswer, Stop, Destroy, Join, vars, ownerVars

-----------------------------------------------------------------------------
(* The theorems *)

\* The invariant holds in every state the server reaches, with any number of datagrams,
\* threads interleaved in any way and descriptors opened by others at any time.
THEOREM InvariantHolds == Spec => []IInv
  <1>1. ASSUME IInv, [Next]_vars
        PROVE  IInv'
    BY <1>1, TypeIsKept, LockIsKept, FrontIsKept, NothingIsLost, SocketIsKept, NothingLeaks
       DEF IInv
  <1> QED
    BY <1>1, InitEstablishesIInv, PTL DEF Spec

\* The receiver and the owner are never inside the std::queue together.
THEOREM QueueExclusiveHolds == Spec => []QueueExclusive
  <1>1. IInv => QueueExclusive
    BY DEF IInv, LockHeld, QueueExclusive
  <1> QED
    BY <1>1, InvariantHolds, PTL

\* get_next_datagram never takes the front of an empty queue, although the poll before
\* it has released the mutex.
THEOREM FrontExistsHolds == Spec => []FrontExists
  <1>1. IInv => FrontExists
    BY DEF IInv, FrontStays
  <1> QED
    BY <1>1, InvariantHolds, PTL

\* The number on which recvfrom is called is the server's socket as long as the thread
\* lives: neither close of send_to hits it, and the destructor waits for the thread.
THEOREM ReceiverUsesItsSocketHolds == Spec => []ReceiverUsesItsSocket
  <1>1. IInv => ReceiverUsesItsSocket
    BY DEF IInv, SocketKept, ReceiverUsesItsSocket
  <1> QED
    BY <1>1, InvariantHolds, PTL

\* Only the second close of raw_socket can hit what another thread has opened, and only
\* what it opened since the first close.
THEOREM StrayCloseOnlyInWindowHolds == Spec => StrayCloseOnlyInWindow
  <1> DEFINE Stray == \A fd \in Fds :
        (fds[fd] = "other" /\ fds'[fd] # "other") => (owner = "sent" /\ fd = raw /\ fd \in window)
  <1>1. ASSUME IInv, Next
        PROVE  Stray
    <2> USE DEF IInv, TypeOK
    <2>1. CASE SendOpenRaw \/ SendOpenSending \/ OtherOpens
      BY <1>1, <2>1, LowestFreeIsFree DEF SendOpenRaw, SendOpenSending, OtherOpens, Opened
    <2>2. CASE SendCloseRaw \/ SendAndClose \/ SendCloseRawAgain
      BY <1>1, <2>2 DEF SendCloseRaw, SendAndClose, SendCloseRawAgain, Closed, NoLeak
    <2>3. CASE Close
      BY <1>1, <2>3 DEF Close, Closed, SocketKept
    <2>4. CASE UNCHANGED fds
      BY <2>4
    <2> QED
      BY <1>1, <2>1, <2>2, <2>3, <2>4
         DEF Next, Arrive, Receiver, ReceiverCheck, ReceiverRecv, ReceiverRecvError, ReceiverLock,
         ReceiverPush, ReceiverUnlock, Poll, BlankLock, BlankSize, OwnerBranch, GetLock, OwnerLock,
         GetFront, GetPop, GetReturn, Send, NoAnswer, SendThrows, Stop, Destroy, Join, sendVars
  <1>2. IInv /\ [Next]_vars => [Stray]_vars
    BY <1>1
  <1> QED
    BY <1>2, InvariantHolds, PTL DEF Spec, StrayCloseOnlyInWindow

\* The server is a queue: recvfrom puts a datagram in, get_next_datagram takes one out,
\* and every other step of any thread is a stutter.
THEOREM ServerImplementsFifo == Spec => ImplementsFifo
  <1>1. Init => Queue!FifoInit
    BY DEF Init, Queue!FifoInit
  <1>2. ASSUME IInv, [Next]_vars
        PROVE  [Queue!Put \/ Queue!Take]_(Queue!fifoVars)
    <2> USE DEF Queue!fifoVars
    <2>1. CASE ReceiverRecv
      <3>1. CASE Head(socket) \in EmptyDatagrams
        BY <2>1, <3>1 DEF ReceiverRecv
      <3>2. CASE Head(socket) \notin EmptyDatagrams
        <4>1. Head(socket) \in Datagrams
          BY <1>2, <2>1, HeadAndTail DEF IInv, TypeOK, ReceiverRecv
        <4>2. Queue!Put
          BY <2>1, <3>2, <4>1 DEF ReceiverRecv, Queue!Put
        <4> QED
          BY <4>2
      <3> QED
        BY <3>1, <3>2
    <2>2. CASE GetReturn
      <3>1. PICK d \in Datagrams : got = <<d>>
        <4>1. Len(got) = 1 /\ got \in Seq(Datagrams)
          BY <1>2, <2>2 DEF IInv, TypeOK, NothingLost, GetReturn
        <4>2. got[1] \in Datagrams /\ got = <<got[1]>>
          BY <4>1, LenProperties, ElementOfSeq
        <4> QED
          BY <4>2
      <3>2. accepted = delivered \o (<<d>> \o (queue \o hand))
        <4>1. accepted = delivered \o ((got \o queue) \o hand)
          BY <1>2, <2>2 DEF IInv, NothingLost, Outstanding, GetReturn
        <4>2. got \in Seq(Datagrams) /\ queue \in Seq(Datagrams) /\ hand \in Seq(Datagrams)
          BY <1>2 DEF IInv, TypeOK
        <4>3. (got \o queue) \o hand = got \o (queue \o hand)
          BY <4>2, ConcatAssociative
        <4> QED
          BY <3>1, <4>1, <4>3
      <3>3. Len(delivered) < Len(accepted) /\ accepted[Len(delivered) + 1] = d
        <4> DEFINE left == queue \o hand
        <4>1. delivered \in Seq(Datagrams) /\ left \in Seq(Datagrams)
          BY <1>2, ConcatProperties DEF IInv, TypeOK
        <4>2. accepted = delivered \o (<<d>> \o left)
          BY <3>2
        <4> HIDE DEF left
        <4> QED
          BY <4>1, <4>2, NextTaken
      <3>4. delivered' = Append(delivered, d)
        BY <1>2, <2>2, <3>1, AppendIsConcat DEF IInv, TypeOK, GetReturn
      <3>5. Queue!Take
        BY <2>2, <3>3, <3>4 DEF Queue!Take, GetReturn
      <3> QED
        BY <3>5
    <2>3. CASE UNCHANGED <<accepted, delivered>>
      BY <2>3
    <2> QED
      BY <1>2, <2>1, <2>2, <2>3
         DEF Next, Arrive, Receiver, ReceiverCheck, ReceiverRecvError, ReceiverLock,
         ReceiverPush, ReceiverUnlock, Poll, BlankLock, BlankSize, OwnerBranch, GetLock, OwnerLock,
         GetFront, GetPop, OtherOpens, Send, NoAnswer, SendOpenRaw, SendCloseRaw, SendOpenSending,
         SendAndClose, SendCloseRawAgain, SendThrows, Stop, Destroy, Join, Close, vars
  <1> QED
    BY <1>1, <1>2, InvariantHolds, PTL DEF Spec, ImplementsFifo, Queue!Spec
=============================================================================
