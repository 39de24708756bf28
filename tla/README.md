# Klevret: TLA+ specifications, model checking and proofs

Klevret is a small router suite in C++: a DHCP server (`src/dhcp`), a core
server (`src/core`), a library of shared code (`src/common`) and a command line
(`src/cli`). This directory holds TLA+ models of their logic, TLC
configurations that check them on small instances, and TLAPS proofs.
Paths below are relative to the repository unless they name a file here.

## 1. The system

### 1.1 Components

| Component | Code | State | Operations | Correct when |
|---|---|---|---|---|
| Address pool | `dhcp/src/AddressPool.*` | two sets (included, excluded), two maps of reservations, two of leases, a cache, the options | include/exclude (address or range), reserve, unreserve, `get_address`, `release_address`, set/remove option | no address has two clients; reserved and taken maps do not contradict each other; leases are stable |
| Serve loop | `dhcp/src/main.cpp:131-164` | the pool, the map `xids` | DISCOVER -> OFFER, REQUEST -> ACK, anything else ignored | the answers agree with the pool however messages are lost, repeated, reordered |
| UDP server | `dhcp/src/UdpListener.*` | socket, queue, mutex, stop flag, thread; the process's table of descriptors | thread function, `is_input_queue_blank`, `get_next_datagram`, `send_to`, destructor | the queue is used by one thread at a time, nothing is lost or reordered, destruction ends quietly, answers leak no descriptor and close nobody else's |
| Command server | `dhcp/src/api_server.*` | singleton pointer, mutex, listening socket, threads | `instance`, `start`, acceptor and handler threads | one instance, one listener; a connection gets its handler as long as there are descriptors |
| Message codec | `dhcp/src/DhcpMessage.*`, `DhcpOption.*`, `endians.hpp` | the parser's iterator and the options read | parse, validate, build and serialise | framing kept, allowed messages accepted, own answers readable |
| Process | `dhcp/src/main.cpp:82-130` | - | start-up order | the serve loop is reached |
| TCP listener | `common/src/TcpListener.hpp`, `TcoListener.cpp` | queue, mutex, stop flag, acceptor, handlers, descriptors left | `start`, `stop`, `is_empty`, `get_next_packet`, acceptor, handlers | as for the UDP server, and each stream stays in order |
| Core main loop | `core/src/main.cpp` | - | polls the TCP listener, forwards commands | a packet reaches the DHCP service |
| CLI | `cli/src/main.cpp`, `Command.*`, `command_handlers.*` | line, cursor, command tree | editing keys, analysis, dispatch | exactly the command that was typed runs, with its arguments |
| Text parsers | `cli/src/Command.cpp`, `ip_addresses.cpp`, `dhcp/src/IpAddress.cpp`, both `WrapperForParsing.cpp` | what is left of the text, what was read | check, constructors, mask, patterns, prefixes | the readers that must agree on a text do, and what they accept is what is written |
| Value types | `IpAddress.*`, `HardwareAddress.*` | - | printing, order, `++` | byte order, wrap-around |
| I/O | `NetworkInterface.*`, `Console.*` | - | system calls, terminal | - |

### 1.2 How they interact

- The **receiver thread** of the UDP server moves datagrams from a raw socket to
  `_queue` under `_mutex`; the **main thread** polls that queue, parses the
  datagram (codec), asks the **pool** for an address, remembers it in `xids`
  under the transaction id, and answers with `send_to`. The main thread alone
  touches the pool and `xids`. No exception is caught: the first one that is
  thrown ends the process. Nothing is written to disk, so a restart is simply
  the initial state with clients that still believe in their old leases.
- Each answer opens two sockets and closes three times; the command server's threads
  open theirs from the same table of descriptors meanwhile, and never close one: a client
  that disconnects leaves its handler reading and its socket open, so after enough
  connections `accept()` fails for ever. The same goes for the TCP listener of the core.
- Before it polls anything the main thread calls
  `ApiServer::instance().start()`, which constructs a `TcpServer` (bind, listen,
  an **acceptor thread**) and joins that thread.
- In the core process the **TCP listener** runs one acceptor thread, one handler
  thread per connection, and one queue; the main thread polls it. The CLI
  connects to it when a command is run.

### 1.3 What is hard here

Threads that share a queue and split their polls over two critical sections;
shutdown that joins threads blocked in system calls; datagrams lost, repeated
and reordered, and clients that retransmit; maps that have to agree although
different operations update them; transaction ids that two clients draw at once; descriptors
closed twice, or never; a parser whose iterator advances by what the
datagram says; several parsers for one kind of text; exceptions nobody catches. `PROJECT.json` lists each hazard at its
line, with the properties that cover it.

## 2. The modules

| Module | Models | Extends or instantiates |
|---|---|---|
| `LeaseTable` | what a pool promises: who has, and who reserved, which address | |
| `AddressPool` | every public operation of the pool | `LeaseTable` (refinement) |
| `AddressPoolProofs` | the theorems about it | `AddressPool`, `TLAPS` |
| `LeaseService` | what the service promises its clients: who has an address for good, and which one a client may come to use | |
| `DhcpServer` | serve loop, clients, network | `AddressPool` (its `GetAddress`, `Returns`, ...), `LeaseService` (refinement) |
| `DhcpServerProofs` | the theorems about it | `DhcpServer`, `TLAPS` |
| `Fifo` | what a receive queue promises | |
| `UdpServer` | receiver thread, owner, `send_to`, descriptors, destructor | `Fifo` (refinement) |
| `UdpServerProofs` | the theorems about it | `UdpServer`, `SequenceTheorems`, `TLAPS` |
| `ApiServer` | singleton, `start`, acceptor, descriptors used up | |
| `ApiServerProofs` | the theorems about it | `ApiServer`, `TLAPS` |
| `DhcpProcess` | the main thread over the two servers, which share the table of descriptors | `UdpServer`, `ApiServer` |
| `DhcpMessage` | a request being written and perhaps cut, option parser, validation, answers | |
| `DhcpMessageProofs` | the theorems about it | `DhcpMessage`, `SequenceTheorems`, `TLAPS` |
| `TcpListener` | acceptor, handlers, owner, stop and start, descriptors used up | |
| `TcpListenerProofs` | the theorems about it | `TcpListener`, `SequenceTheorems`, `TLAPS` |
| `Cli` | line editor, command tree, dispatch, argument checks | |
| `CliProofs` | the theorems about it | `Cli`, `SequenceTheorems`, `TLAPS` |
| `TextParsers` | the readers of addresses, masks and command patterns, and the two ways to make a mask | |
| `TextParsersProofs` | the theorems about it | `TextParsers`, `SequenceTheorems`, `WellFoundedInduction`, `TLAPS` |

`MC*.tla` gives constants small values for TLC. Operators named after a slip
(`ReserveIpWithoutTakenCheck`, `LockWithoutWaiting`, ...) are variants no
specification uses. Each stands for a plausible mistake in the operator that
follows it; substituting it must break a property, which shows that the property
depends on that code.

### How code and model correspond

`PROJECT.json` maps every definition to its lines. The conventions:

- A member function that one thread alone can observe is one action
  (`AddressPool`, `DhcpServer`, `Cli`), or, in a parser, a turn of its loop
  (`DhcpMessage`, `TextParsers`).
- A thread that shares state is a program counter with one action per statement
  another thread can observe: a mutex acquisition, a system call, an access of the
  queue. A `lock_guard` is released in the action of the last statement it guards
  or in a step after it. `std::mutex` is a variable with its holder.
- `read()` and `accept()` may return -1 whatever is pending. The handlers of `ApiServer`
  only print, so that what their `read()` returns does not matter there.
- A `std::map` is a total function with a null value for absent keys.
- A call that throws has written nothing before in this code base. In
  `AddressPool` it is thus a stutter; in `DhcpServer`, where nobody catches
  it, `status` records it and nothing more happens.
- Undefined behaviour: the models either give a placeholder outcome that the
  invariants prove is never reached (`front()` of an empty queue in
  `UdpServer`), or stop in a state that says so (`"undefined"` in `DhcpMessage`).
- The table of descriptors in `UdpServer` maps a number to who has it open; `socket()`
  takes the lowest number that is free, as POSIX says, so a number that was closed is
  the next to be given out, and a second `close` of it may hit its new owner.
  `TcpListener` and `ApiServer` only count descriptors, since nothing there is closed
  twice. In `DhcpProcess` the count is what is free in `UdpServer`'s table.
- `TextParsers` runs the four readers of an address over one text one after the other,
  so that their results can be compared. Undefined outcomes are choices: any `int` may
  come out of an overflow; the mask that its constructor makes of a text has any octets,
  since it writes none; and an exception whose message is read outside its string
  ends in `broken` instead of `refused`. `from_prefix` runs last, on any prefix, or on the
  number of ones in a text that was accepted as a mask.
- The network of `DhcpServer` is the set of all messages ever sent; receiving does
  not remove. That covers loss, duplication, delay and reordering, and makes the
  order of `UdpServer`'s queue irrelevant there.
- DHCP clients are not in the repository. They follow RFC 2131, which
  `dhcp/README.md` names as the protocol: DISCOVER, REQUEST, renew with a new
  transaction id, RELEASE, lose their state and start again.

## 3. The runs

`cd tla; tlc -workers 2 -config X.cfg M`. "Violated" runs check one claim of a doc,
a comment or a message, and TLC finds a counterexample in what the code does.

| Run | Module, cfg | Distinct states | Shows |
|---|---|---|---|
| `pool` | `MCAddressPool` | 66,400 | the pool's invariants and action properties, the inductive invariant `IInv`, and that the pool implements `LeaseTable` |
| `udp_server` | `MCUdpServer` | 36,416 | exclusion, no `front()` of an empty queue, the server implements `Fifo`, its socket stays its own, answers leak nothing, the double close hits only what was opened in its window; delivery, and destruction that ends when it can |
| `dhcp_server` | `MCDhcpServer` | 83,042 | no two clients bound to one address unless their ids collide; answers stay true; the loop implements `LeaseService`; clients served |
| `dhcp_ack_zero` | `MCDhcpServer`, `MCDhcpServerAck.cfg` | violated | an ACK with 0.0.0.0 for a renewal |
| `dhcp_process` | `MCDhcpProcess` | violated | the serve loop is never reached |
| `api_server` | `MCApiServer` | 35,080 | one instance and one listener however callers race; who may wait for ever and who not; connections served until the descriptors are used up |
| `tcp_listener` | `MCTcpListener` | 114,412 | exclusion, whole streams between kernel, handlers and queue, quiet stop; `get_next_packet` always finds a packet, and so always throws; stop completes, and connections are accepted as long as there are descriptors, although calls fail |
| `dhcp_message` | `MCDhcpMessage` | 64,261 | framing, also of requests cut short; acceptance of allowed requests; readable answers |
| `dhcp_lease_time` | `MCDhcpMessage`, `MCDhcpMessageLease.cfg` | violated | the lease time leaves in host order |
| `cli` | `MCCli` | 1,169,622 | the inductive invariant `IInv`: the cursor stays in the line; exactly the typed command runs, with its arguments |
| `text_parsers` | `MCTextParsers` | 194,393 | check, constructor and service agree where they must; what the service accepts beyond that; a text accepted as a mask says one; patterns keep their elements |
| `text_parsers_masks` | `MCTextParsers`, `MCTextParsersMasks.cfg` | violated | a mask given as a text is stored nowhere, and its prefix makes another one |

### Bounds, and why they are enough

- `pool`: 3 addresses and 3 clients, one option. Three addresses make a range
  that wraps, a gap and a boundary; three clients make a holder, a rival and a
  reserver. `MCAddressPool` also compares `AddrRange` with a literal transcription
  of the loop it abstracts, for every pair of ends. The theorems remove the bound.
- `udp_server`: 4 datagrams, a kernel buffer of 2, one empty datagram: a full
  buffer, an overtaking push and the empty datagram's own path all occur. 4 descriptors:
  the server's socket, the two of an answer, and one that another thread opens at any
  moment, the window of the double close included, or that leaves none for an answer.
- `dhcp_server`: 2 addresses and 3 clients, so the pool runs out; one client has
  two transaction ids, so it can renew, restart and receive answers of an old
  transaction, and it shares one of them with another client, so that both overwrite
  what `xids` says for the other. The third client's ids are its own: uniqueness is
  not excused for it.
- `api_server`: 4 callers (a creator, one behind it at the mutex, one past the
  unlocked test, one late) and 2 connections. Between 0 and 4 descriptors: none for the
  listening socket, none for one or both connections, or more than enough.
- `tcp_listener`: 2 connections of 2 pieces and a backlog of 1: two handlers contend
  with the owner, a stream is cut in every way, and a listener is stopped and
  restarted with connections in any state. Between 0 and 3 descriptors: none for the
  listening socket, none for one or both connections, or enough; and none left after
  a restart.
- `dhcp_message`: requests of up to 3 fields out of 13, chosen for each path of the
  parser (list, fixed, one piece, constrained, wrong length, not described, pad,
  end), up to 2 bytes missing at the end, six kinds of header, a
  little-endian host. Properties relate neighbouring fields, so three are enough to
  see one in the middle.
- `cli`: lines of up to 7 characters, a keyword or address being one character: every
  command but the longest fits with its spaces, also with a superfluous word.
  The longest, `dhcp pool create`, is on the line to begin with, to be entered, or erased
  and entered; new characters are then not those of its words. The theorems remove the
  bounds and these shortcuts.
- `text_parsers`: addresses of two numbers of two bits, written in base two, texts of up
  to 6 characters (digits, dot, a letter, EOT), an `int` of 4 bits and a `size_t` of 4
  unsigned ones. Two numbers have a first, a last and a dot between; a text has room for
  numbers that are missing, too large, or overflow, and for something behind. Patterns
  of up to 5 characters hold two words with blanks around them, or a variable.

### Fairness

- Threads that can run do run: `WF` on each thread's steps.
- Acquisition of a mutex in `UdpServer` is `SF`: its owner polls in a loop and
  leaves the mutex free only for moments. That a waiting thread wins eventually
  is an **assumption about `std::mutex`**; the standard promises no fairness. It is
  needed only for `TakenIsDelivered` and `StopCompletes` there.
  `TcpListener`'s `StopCompletes` needs no strong fairness: an owner that is in
  `stop()` no longer competes, and a handler that keeps the mutex leaves it.
  `ApiServer` needs `WF` only, since its mutex is never released.
- `DhcpServer`: `WF` on serving each message and on a client taking an answer it
  waits for. The first is RFC 2131's retransmission: a message that is repeated
  until it is answered eventually arrives. It asks for a step that answers
  (`Answered`), so fairness never forces `send_to` to fail: since repeating an answer
  changes nothing, fairness of the whole handler would have.
- `send_to` in `UdpServer` is not forced to fail unless it needs a descriptor and none is
  left (`SendStarves`). In `TcpListener`, `ApiServer` and `DhcpProcess` the acceptor's `accept()` is `SF`: it may fail
  again and again, and the loop goes round, but not every time for ever while a
  connection waits and a descriptor is left. With none left, it is the failing that is
  certain.
- Nothing is assumed about clients connecting, sending or closing, or about owners
  stopping a server.
- `StopCompletes` (both modules) is conditional. A thread blocked in `recvfrom`,
  `accept` or `read` with nothing to return is not woken by `stop()`; the
  properties say that this is the only thing that can hold up a stop, short of the
  process having died of an exception.
- `ConnectionIsServed` and `ConnectionIsAccepted` end with the descriptors: nobody gives
  one back, so a connection that waits when the last is gone waits for ever.
- `LateCallerReturns` is about the mutex. A late caller that gets past it constructs a
  second `TcpServer` for a port that is taken, which throws; the property admits this.

## 4. Findings

1. **ACK of 0.0.0.0** (`dhcp/src/main.cpp:159`). A REQUEST in a new transaction (a
   renewal) is looked up with `xids[...]`, which inserts the default address.
2. **The serve loop is not reached** (`dhcp/src/main.cpp:128`). `start()` joins an
   acceptor thread that has no exit.
3. **Inverted test** (`TcoListener.cpp:23`). `get_next_packet` throws "the queue is empty"
   when there is a packet. The core asks `is_empty()` first, and what it saw stays there
   (`PacketIsThere`): every call throws, and the core process dies at the first packet.
4. **Lease time in host order** (`DhcpOption.cpp:242`). Integers are converted when
   they are read and not when they are written: 86400 leaves as 80 51 01 00.
5. **A mask given as a text is lost** (`IpAddress.cpp:132`). The constructor checks every
   octet and stores none; the mask has what its memory held before.
6. **`from_prefix` makes other masks** (`IpAddress.cpp:158`). The bits start at 128 and not
   at the highest of 32: prefix 8 is 0.0.0.255, and every longer one the same. The run of
   5 and 6, `text_parsers_masks`, asks only that one of the two ways give the mask that
   was written (`AMaskIsMade`).
7. **The pool's cache is never filled** (`AddressPool.cpp:71` says it is). `CacheEmpty`, a
   conjunct of the pool's `IInv`, says so, and the lookup in it is dead code.
8. **The maps of reservations part** (`AddressPool.cpp:63`; `AddressPool.hpp:31-32` wants
   them together). Reserve a and then b for a client and unreserve a: b stays reserved for
   the client in one map, and the other has nothing for it. The client does not get b and
   nobody else does. `ReservedIndexed` is the direction that holds.
9. **The maps of leases part** (`AddressPool.cpp:73`; `AddressPool.hpp:33-34`). A client
   with a lease that gets a reservation leaves its old address taken for ever
   (`EntryPermanent`).

Because of 2 and 3, `DhcpServer` and the owner in `UdpServer` model code that `main()`
does not get to today. They say what holds of it once it does.

Because of 3 no packet leaves the queue of `TcpListener` for the core, and nothing is said
of how packets reach it.

What the models also show: two clients whose transaction ids collide can
be acknowledged one address (`main.cpp:132`, the exception in `OneHolder`); `send_to`
closes a number twice, which hits a descriptor opened in between (`UdpListener.cpp:109`,
`StrayCloseOnlyInWindow`); the service takes `1..2.3` for an address, with
0 for the missing number, where the CLI's check refuses it (`AcceptedIsWritten`); handlers
never close their sockets, so both TCP servers end up refusing everybody
(`ConnectionIsServed`, `ConnectionIsAccepted`).

## 5. What is proved

Eight modules hold theorems, each for every value of the constants that satisfies the
assumptions named in the module it extends. In each an inductive invariant `IInv` is
proved first, and the other theorems follow from it. The type invariant is a part of it.
TLC checks the same formula in the component's run, but for `DhcpMessage` and
`TextParsers`, where it is longer than the properties of the run: these are conjuncts or
consequences of it.

| Module | Obligations | Theorems |
|---|---|---|
| `AddressPoolProofs` | 244 | `InvariantHolds`, `TypeCorrect`, `NoDoubleLeaseHolds`, `ReservationHonouredHolds`, `LeaseStableHolds`, `EntryPermanentHolds`, `PoolImplementsLeaseTable` |
| `DhcpServerProofs` | 657 | `InvariantHolds`, `OneHolderHolds`, `RepliesStayTrueHolds`, `BoundAfterOfferHolds`, `PoolDeathOnlyWhenFullHolds`, `ServerImplementsLeaseService`, `PromiseGivesOneHolder` |
| `UdpServerProofs` | 530 | `InvariantHolds`, `QueueExclusiveHolds`, `FrontExistsHolds`, `ReceiverUsesItsSocketHolds`, `StrayCloseOnlyInWindowHolds`, `ServerImplementsFifo` |
| `ApiServerProofs` | 142 | `InvariantHolds`, `OneInstanceHolds`, `OneListenerHolds` |
| `TcpListenerProofs` | 913 | `InvariantHolds`, `QueueExclusiveHolds`, `StoppedQuietlyHolds`, `StreamKeptHolds`, `PacketIsThereHolds` |
| `DhcpMessageProofs` | 1,736 | `InvariantHolds`, `FramingKeptHolds`, `ReplyIsReadHolds`, `SoundRequestIsReadHolds` |
| `TextParsersProofs` | 2,353 | `InvariantHolds`, `CheckedWordIsReadHolds`, `AcceptedIsWrittenHolds`, `PatternIsKeptHolds`, `MaskTextIsContiguousHolds`, `ToPrefixCountsOnes` |
| `CliProofs` | 813 | `InvariantHolds`, `HandlerGetsItsArgumentsHolds`, `RanWasTypedHolds`, `CompleteCommandRunsHolds` |

### The pool

Assumptions: `SpaceSize` is a positive natural, and the null values differ from
addresses and clients (`SpaceSizeAssumption`, `NullAssumption`).

`NoDoubleLease` is not inductive: a step from a state in which the
lease maps disagree may well hand out an address twice, since the search for a
free one consults only the address-to-client map. `IInv` adds what makes it
inductive:

- `LeaseIndexed`: each client's lease is recorded at its address. Two clients with
  one address would then be one client, which is `NoDoubleLease`; and the
  address of a lease is never found free.
- `CacheEmpty`: the cache lookup, the one path of `get_address` without a test that
  the address is free, is never taken.
- `ReservedIndexed` and `ReservationHonoured`: the address that the first path hands
  out without looking at the taken map is recorded as reserved for that client and so
  is either free or the client's own. Each of `reserve_ip` and `get_address` must
  preserve this although it looks at one map for what the other wrote.

The converse of `LeaseIndexed` is false: `get_address` moves a client to an address
reserved for it and leaves the old entry behind. The proof does not need it.
The proofs go operation by operation, with a lemma for the address `get_address`
returns. The refinement maps `lease` to `_taken_mac_addresses` and `reservedFor` to
`_reserved_ip_addresses`: `get_address` is a `Grant` or a stutter, `reserve_ip` and
`unreserve_ip` are `Reserve` and `Unreserve`, everything else stutters.

### The serve loop

Assumptions: the pool's addresses do not include 0.0.0.0, every client has an id to draw
(`SpaceAssumption`, `NullAssumption`, `XidAssumption`); nothing about who draws which.

The network never forgets, so an invariant must say what every message ever sent is still
good for. That rests on `LeaseIsFixed`: a lease, once given, does not change. Hence what
`xids` says (`XidIsLease`, `OfferIsRecorded`), what an answer says (`RepliesStayTrue`) and
what a client believes (`AddressIsLease`) is always the lease of a client that uses the
transaction id, and `IdsKept` ties ids to those clients. `LeaseKept` makes the holder of
an address unique; so if two clients are bound to one address, the client whose lease it
is shares an id with each of them, which is `OneHolder`.

`ServerImplementsLeaseService` hides all messages: `lease` is `_taken_mac_addresses`, and
a step of the server or of a client either lends a client without a lease a free address,
binds a client to a lease, lets one leave, or changes nothing a client could tell. The hard
step is the ACK. `xids[...]` may answer 0.0.0.0 (finding 1), and `LeaseService` allows that
to a client that renews and to no other. So `IInv` must tell the two apart by what is on
the network: an ACK answers a REQUEST of its client and transaction (`AckIsAnswer`), a
client that has not accepted an offer has sent none in its transaction (`NoRequestYet`), by
then the lease is recorded (`BoundAfterOffer`), hence the ACK carries one
(`FirstAckIsLease`). `PromiseGivesOneHolder` shows that the promise is worth having:
`OneHolder` follows from `LeaseService` alone, without a look at the server.

`PoolDeathOnlyWhenFull` needs a record of how the process died, `FullAtDeath`: when
`get_address` throws, each included address is taken and not reserved for the asker, and
by `LeaseKept` its entry is a client that holds it. Nobody else's step follows, since the
process is dead. Included addresses and their holders are thus in a bijection, and there
are as many of the ones as of the others.

### The UDP server

Assumptions: the bounds are naturals, there is a descriptor for the server's socket, and
any of the datagrams may be the empty ones (`CapacityAssumption`, `EmptyAssumption`).

`IInv` has independent parts. `LockHeld`: a thread inside the queue holds the mutex;
`QueueExclusive` follows. `FrontStays`: between the two critical sections of a poll nobody
but the owner pops, so what `is_input_queue_blank` saw is still there; `FrontExists`
follows. `NothingLost`: what was received is what was delivered, then what the owner has
in hand, the queue, and the receiver's hand, in this order; with it the mapping of
`accepted` and `delivered` to `Fifo`'s `put` and `taken` takes a non-empty `recvfrom` to
`Put`, the return of `get_next_datagram` to `Take`, and everything else to a stutter.
`SocketKept` and `NoLeak`: which numbers the two sockets of an answer have at each of its
steps; a number that `send_to` closes a second time was free or was opened by another
thread since.

### The command server

Assumptions: no caller is `Nobody`, and the descriptors are finitely many
(`NobodyAssumption`, `DescriptorsAssumption`). `OneInstance` is not inductive: that the caller at the
construction is the first follows from `MutexHeld` (it holds the mutex, there is no
instance while somebody tests or constructs, and a mutex that was taken is never free
again, the code's very defect). `OneListener` rests on the port.

### The TCP listener

Assumptions: `BoundsAssumption`, and threads have names of their own
(`ThreadsAssumption`). `QueueExclusive` follows from `LockHeld`, `StoppedQuietly` from
`ThreadsKept` (a handler at work has an acceptor that will join it). Neither would be kept
by `accept()` if the connection could have a handler already, which `BacklogKept` excludes.

`StreamKept` relates three places a piece may be in: the queue, the handler's hand and the
kernel's stream. Of each connection, from the first piece to what was sent last, every one
of them begins where the one before it ends. A `read` cuts a run of pieces in
two (`RunCut`), a push appends the hand's run to those in the queue (`RunAppend`); the
packets of other connections that lie between do not matter. Nothing leaves the queue
(finding 3), so this says nothing of delivery to the owner.

`PacketIsThere` spans the two critical sections of a poll: handlers only add to the queue,
so one in which `is_empty` saw a packet has one when `get_next_packet` gets the mutex
(`SizeStays`).

### The message codec

Assumptions: the fields are bytes (`FieldAssumption`), the bounds are naturals.

The parser keeps no record of where options begin; it goes by the lengths it finds.
`FramingKept` says that it nevertheless stands at the beginning of one of the fields the
sender wrote, and that the options it has are made of the fields before it. It is
inductive together with `WireKept`: the fields lie one behind the other in the datagram,
each where `starts` says. The key is the lemma `AtFieldReads`: at the beginning of a field
the parser finds that field's code, length and payload, or too few bytes for it, and
behind it the beginning of the next one. Nothing is assumed about the fields, so the
theorem holds of requests with wrong lengths, undescribed codes or bytes missing; those
end in `threw` or `undefined`.

`ReplyIsRead` is about two pieces of code that must agree, `to_network_data` and the
constructors. `ReplyKept` says that the client stands before the i-th option of one of the
two answers and has read the options before it; `OneValueSent` and `OneValueRead` show
that an option of one value is sent as its code, length and bytes, and accepted when read.
The lease time is the exception: what arrives is what `NetworkData` makes of it, on a
little-endian host the bytes reversed (`dhcp_lease_time`).

`SoundRequestIsRead` has a hypothesis of its own, `SoundIsAccepted`: the table of options
accepts each sound field taken by itself. That it does so is a statement about RFC 2132
and about data, and TLC checks it for the fields it has. What is proved is the rest: that
no order, number or neighbourhood of such fields makes the parser throw, leave the
datagram, or miss the message type.

### The command line

Assumptions: an address is a character, a space is neither an address nor a keyword, and
no keyword is an address (`CharactersAssumption`, `KeywordsAssumption`).

A command that runs was typed because the analysis, wherever it is, has descended along
words of the line, each behind the one before, and has pushed a value of the right type
for each (`RanWasTyped`, `HandlerGetsItsArguments`). A command that was typed runs for a
reason that is about the whole tree: no command is the beginning of another
(`NoCommandIsHidden`) and children of one node never match the same word
(`CommandsDiffer`), so the analysis of a line that is one command cannot leave its way.

### The readers of texts

Assumptions: an address has at least one number, an octet fits an `int` and an `int` a
`size_t` (`WidthAssumption`); digits are finitely many characters with natural values and
apart from the dot and EOT (`DigitsAssumption`); letters are no blanks, and neither they nor
the signs of a pattern are EOT (`LettersAssumption`). The base, the number of octets and
their width, and the length of a text are free.

What a text says is stated without reference to a reader: `Writings` are the ways in which
it begins with numbers and dots, each given by where its numbers end. A text has one
writing at most (`OneWriting`: two that differ would first differ in where a run of digits
ends). So whatever two readers take from one text is the same, whichever way each of them
walks: `AddressKept` says that the numbers a reader has are those of a part of a writing,
and where it stands, `AddressPasses` that neither the check nor the constructor stops within
an address, nor the service unless an EOT lies behind it. `CheckedWordIsRead` then needs
only that the readers run one after the other (`OrderKept`), and that without an overflow an
`int` and a `size_t` hold the same number (`NumberIsCollected`).

That `Numeral`, which is recursive, is a natural for every sequence of digits is an
induction over its length. The library's induction theorems take an operator, which the
provers cannot instantiate, but `WFMin` speaks of a set: `LeastNatural` and `SetInduction`
follow from it, and suffice.

`PatternKept` keeps for each element where in the text it begins (`ReadPattern`); an element
is added behind the others (`ElementAdded`), and nothing but blanks lies between.

`MaskKept` says that every octet of a mask that was read is one of `MaskOctets`, that
all before the last are full, and that those of an accepted text are what it says. What that means for
the bits is arithmetic without a state (`ToPrefixCountsOnes`): an
octet `2^B - 2^z` has exactly the bits from `z` on (`BitsSet`), the number `2^(OB) - 2^z` has
full octets and then such a one (`OctetsOfOnes`), and the bits of octets of this form are two
rectangles of the set that `to_prefix` counts (`CountedOnes`). This is about the text that
is read. Of the mask that comes out nothing is proved: it may have any octets
(`AcceptMask`). The provers take `^` for an unknown operator, so powers of two are
a recursive function, `TwoTo`; that there is a function that is what its definition says is
`TwoToUnfolds`, again by `SetInduction`.

### Only model-checked

- All liveness properties, since neither fairness nor ENABLED is in TLAPS's reach:
  `ClientIsServed`, `TakenIsDelivered`, `StopCompletes` (twice), `LateCallerReturns`,
  `ConnectionIsServed`, `ConnectionIsAccepted`.
- That `SoundIsAccepted` holds, which is a finite statement about chosen fields.

## 6. What is not modelled, and why

- Network interfaces: enumerated once through system calls, pure I/O. (An interface may
  have no address; the code does not expect that.) The interface lookup in `send_to` is
  one of the reasons for which it may throw.
- Hardware addresses: a value type. A client is a model value.
- Console screen, colours, printing: I/O without state of consequence.
- Constructor failures of the UDP server: the process ends before anything happens.
- Growth of `xids` and of the queues (memory).
- A second `stop()` of `TcpListener` in a row, which its destructor makes after a `stop()`:
  it joins a thread object that was deleted. The owner of the model alternates
  `stop()` and `start()`.
- The continuation of a parse that has left the datagram: undefined behaviour.
  Serialisation of a FLAG, which has no branch: no answer carries one.
- Words of command patterns for strings and subnet masks: no pattern has one.
- Forwarding from the core to the DHCP service: it follows a call that throws.
- The frontend (empty) and the build files.

## 7. Plan

The order follows importance: the pool decides who has which address, the serve loop
is what a client sees, the threads carry messages to it, the codec gives them meaning,
the CLI drives it.

1. Done: every component in the table of section 1.1 but the value types and the I/O;
   the abstract specifications `LeaseTable`, `LeaseService` and `Fifo`, with their
   refinements; the inductive invariants of the pool, the serve loop, the UDP server, the
   command server, the TCP listener, the message codec, the command line and the readers of
   texts; every safety and action property of the passing runs as a theorem.
2. Model next, when `get_next_packet` gives out packets: a FIFO per connection as abstract
   specification of `TcpListener`, from the client to the owner.
3. Prove next: that refinement.
