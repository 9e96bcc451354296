# Verification of the SCC TCP service

TLA+ modules, TLC configurations and TLAPS proofs kept beside the code of
TcpService: a Windows service that lets several client programs share SCC
devices (ARINC 429 and ARINC 708 interfaces) over TCP, the client library
SccMediator, and the tools that control the service.

`tlc -config X.cfg M` checks a run, `tlapm M_proofs.tla` checks the proofs of
a module. PROJECT.json maps every definition to the source lines it stands for.

## The system

    client program thread --- SccMediator --- TCP ---> completion port, workers
         ^                        ^                          |
         |  handlers              | UDP multicast            v
         +---- notification ------+---- device map <--- channel manager
               thread                        ^               |
                                             +--- SccLib ----+   (external)

A connection gets a `ClientContext`; workers take completions from one I/O
completion port and process one command of a client at a time. Commands act on
`_devicesMap`, under `_devicesMapMutex`, and on the device library SccLib,
mostly under no lock. SccLib calls back when a device comes or goes, and the
server tells all clients with a UDP datagram.

### Inventory

| component | state | operations | what is hard | what makes it correct |
|---|---|---|---|---|
| channel manager (`SccServerIOCP.cpp/.h`, `VirtualDevice`, `IVirtualChannel.h`) | `_devicesMap`, owner of every channel, recipients of every input channel, `_clientsMap` | connect, release, force, configure, send, receive, query; removal of clients; attach and detach | a command is up to three critical sections; clients and devices vanish between them, and a client removed by mistake still has a command in the port | one owner at a time, nothing rests on a client for which no worker acts, a check is still true at the call it protects, every lease of a lost client comes back |
| input channel (`CircleBuffer.h`, `IChannelIn.h`) | ring, tail, lap counter, a read position for every recipient | add, write, synchronise, reset, add and remove recipient | recipients at different speeds, wrap-around in the middle of an add | words in order, once, and whole rings are all a recipient ever misses |
| completion port (`SccServerIOCP.cpp`, `ClientContext`) | contexts, `_ioCode`, outstanding operations, packets in the port, open handles, shutdown event, ids by hash | Start with each of its calls, Stop, accept thread, workers | a bare context pointer travels with every operation; Stop against all of them; a Start that fails half way; errors of earlier calls; replies of no bytes | one operation per context, no freed context used, no closed handle used, no client dropped without a reason, Stop returns and releases all |
| request and reply (`WorkerThread`, `SccMediator.h`, `TcpIOStream`) | both byte streams of a connection, buffer pointer and length of the context, the caller's stream | call, receive, timeout, partial send | TCP keeps order and not boundaries; late answers | a caller takes its own answer, the rest of a reply follows the part that was sent |
| client library (`SccMediator.cpp`) | events, online flags, threads, stream and handlers of every calling thread | Start, Stop, reconnection, notification, handlers | events set and reset by several threads without a lock; a notification thread that may end at any time | a sleeping thread is woken, the library offline tries again, Stop returns |
| device notification (`SccServerIOCP.cpp`, `SccMediator.cpp`) | device map against the devices that are there, datagrams on their way, what the client's handlers were told | attach, detach, count and list at the end of Start, sender's address check | callbacks against the list, two handlers set one after the other, datagrams sent after the lock, loss and order of UDP, an error of the list taken for a number, other servers in the group | the map, and what clients were told, end up equal to the devices, where Start and the net have not spoilt them |
| service control (`TcpService/ServiceManager/`, `TcpServiceMain.cpp`) | state reported to Windows, check point, stop event, server thread, the process | SvcMain, control handler, server thread, end of main | the reports and the server thread are independent; a process ends under its threads; the next process starts before the last has gone | states follow the cycle of the SCM, a stop ends the process |
| service console (`ServiceConsoleManager`) | a call's place, saved check point and tick, open handles | install, delete, start, stop with dependants, query | the service, and other callers, change its state between two polls; every exit must close the handles open there, or a deleted service never goes | the result says what happened, no handle is left, calls return, a deleted service goes |
| socket streams (`SmallWebProtocols/`) | a socket | connect, send, receive with timeout | outcomes of socket calls | no state machine: outcomes are choices of the modules above |
| managed wrapper, test client, entry points | none of their own | forwarding | - | - |

SccLib is outside the repository. It is modelled from how the code uses it:
a call that returns some result, words that come in order, callbacks.

## Modules

| module | stands for |
|---|---|
| `ChannelManager` | devices, owners, recipients and the commands of every client, one step per critical section or library call |
| `ChannelLease` | the abstract specification of ownership: leases that are granted, yielded, forced, voided |
| `InputChannel` | ring buffer and recipients of one input channel |
| `CompletionPort` | Start call by call, accept thread, workers, Stop, the life of contexts and handles |
| `RequestReply` | one calling thread, its connections, and the contexts that serve them, in units of bytes |
| `RemoteCall` | the abstract specification of a call: executed at most once, answered after that |
| `Mediator` | the threads, events and flags of the client library |
| `DeviceNotification` | devices coming and going, Start's list, the device map, datagrams and the client that hears them |
| `ServiceControl` | the program as a service: SvcMain, handler and server thread of every process, and the SCM's record |
| `ServiceConsole` | the calls of several administrators, composed with `ServiceControl` by EXTENDS |
| `MC*` | constants' values and symmetry for TLC |
| `*_proofs` | theorems about the module they are named for |

The modules meet at narrow places: a command of `ChannelManager` is the step
`HandleCommand` of `CompletionPort`, whose `OneOperation` justifies that
`ChannelManager` has one task for each client; `RemoveClient` is in both, and so are its removal by mistake and the
packet left in the port; the library call of `ReceiveWords` is `ReceiveWordsRaw` of `InputChannel`; the
packet of `RequestReply` is one `Receives`/`Reply` of `ChannelManager`; the
stream that `RequestReply` opens and drops is an element of `streams` of
`Mediator`. `DeviceNotification` begins where `Started` of `CompletionPort`
sets the two handlers; its `devicesMap` is the set of present devices of
`ChannelManager`, and the datagram it delivers is one received by the
notification thread of `Mediator`. The server thread of `ServiceControl` runs
Start and Stop of `CompletionPort`.

### How state and actions correspond to the code

*ChannelManager.* `owner[d][ch]` is `_ownerId` of the channel, `recipients` the
keys of `_ownersOffsetsMap`, `task[c]` the progress of the worker that handles
the client's command. The three critical sections of `ProcessIncomingCommand`
are `Check`, `Connect` (the second one calls `ConnectForced` whatever happened
in between) and `CallLibrary`. `RemoveClient` holds both mutexes and is one
step. `AcceptConnection` is two steps, because it posts the first receive
before it enters the client into the map. When the worker takes an old error for
that of the next receive (`ReplySentMistaken`), the client is `doomed`:
`RemoveDoomed` removes it at any moment, before, while or after another worker
executes the next command, whose packet is in the port already. A removed client
with such a packet is at step `late`; its command is executed like any other,
and may take a channel, until its reply fails and removes the client once more.
`voided` is history, the clients whose command under way has lost its channel.
Lines of the log, the contents of words and the numeric codes are left out.

*InputChannel.* `buffer`, `tail`, `cycle` and `offsets` are the fields of
`CircleBuffer` and `IChannelIn`; `total`, `position` and `given` are history:
how many words came, where a recipient would be if the ring had no end, and
the last word it was given. A word is its number in the stream, so order,
loss and repetition are visible. Add of n words is written in closed form
(`RingAfter`), `AddOne` is the body of the loop of the code, and
`AddsOneByOne` compares the two in every state. All calls are made under
`_devicesMapMutex` and each is one step.

*CompletionPort.* One step between two calls that other threads can observe:
posting, dequeueing, testing the event, destroying a context. Every call of
`InitializeEnvironment` that may fail is a step; `open` is the set of handles,
sockets and events that are open, and `DeInitialized` what DeInitialize makes of
it. `operations[c]` and `packets[c]` are the kernel's side; `request[c]` is the
command in the context's buffer: to a wrong one the reply has no bytes, so its
completion looks like the end of the connection and the client is dropped.
`stale[w]` records that the last socket error of a worker is `WSAECONNABORTED`,
which `WSARecv` leaves in place when it completes at once. A worker that finds it
there is `posted`, between the receive, whose packet others may take, and the
removal of a client that is well (`RemoveMistaken`); `mistaken` is history, the
clients that came to this.

*RequestReply.* A unit is a run of bytes never cut; `session[s]` holds the
reply buffer and the WSABUF of the context. Where a receive may end is chosen
nondeterministically, under constants that switch the choice on. `Calls` is the
abstract specification `RemoteCall`: `acted`, the history of what the server has
executed, becomes its set of executed calls, and the answer taken last its
`answered`.

*Mediator.* Each write of an event or flag is a step, since none of them is
locked. The two `while` loops of a reconnection thread are the labels `outer`,
`inner` and `check` (after the 300 ms wait). Assigning to a `std::thread` that
still has a thread, or destroying one, ends the program: `main = "crashed"`.
`Mishap` is the set of things that end the notification thread before Stop: a
host name too long to convert, a datagram shorter than a notice, a command that
is neither of the two.

*DeviceNotification.* `plugged` is the library's side, `callback[d]` the stage of
the call of the library about a device: the map under the lock, then the
datagram. `start` is the stage of the end of Start: first handler, second
handler, count, list, and for every listed device the map (`adding`) and the
datagram. When the library answers the call for the list with an error, the loop
compares it with an unsigned index and runs past the array (`overrun`): any
device may be added (`AddGarbage`), until a send fails or the memory ends
(`crashed`). `net` is a sequence of datagrams that are delivered in any order or
lost; `view` is what the client's handlers have been told. `disturbed` and
`untold` are history: devices Start has left out of the map or put in wrongly,
and devices about which a datagram was lost, overtaken, not sent, or taken from
another server. `Contained` is the set of addresses whose text occurs in the
server's own.

*ServiceControl.* Each call of `SetServiceStatus` is a step. A process is an
`Instance`; the SCM shows the status last reported for the instance started
last, starts a process for StartService, refuses controls while the service is
stopped or pending, and shows STOPPED when the process dies. A stop event that
could not be created is a null handle, and waiting for it returns at once.
`ReportSvcStatus`
accepts STOP only, so Pause, Continue and Shutdown of the dispatcher are never
called and are not actions.

*ServiceConsole.* A call is a sequence of steps, one per request to the SCM;
`at` is its place. Ticks are one bit, `late`, that becomes true (`Elapse`) when
the limit of the loop is over and false when the loop saves a new start tick.
`Return` ends a call, and every exit names the handles it has opened since the
last step and those it closes, as the code has a `CloseServiceHandle` of its own
at each. The dependants are counted (`StopEnumerates`) and listed (`StopLists`)
in two calls, between which they may come and go. `getServiceStatus` is one step,
as its result does not depend on anything between, and of the results only that
of StopSvc, which a property is about, is kept.

Actions that begin "Fault:" in the comment are not part of any specification.
Each is a definition of the module changed as a plausible mistake would; a
property is kept only if one of them violates it.

## Runs

A "violation" run checks what a comment of the code says where TLC shows that
the code does otherwise; PROJECT.json quotes the line.

| run | question | bounds |
|---|---|---|
| `channels_forced` | are contexts always owned; do the channels of a lost or removed client become free for good | 2 clients, a forceable input channel, removals by mistake |
| `channels_unplugged` | types; is the owner found by the check still owner at the call; does anything rest on a client for which no worker acts; refinement of `ChannelLease` | 2 clients, a device that is unplugged and plugged in, an input and a forceable output channel, removals by mistake |
| `input_reads` | order, once, no loss, ring arithmetic | ring of 3, 10 words, 2 recipients |
| `port_serves` | does Start open and Stop close what the threads use; one operation, no freed context used but after a removal by mistake, the right context removed, and only for a reason; does Stop return | 2 clients with distinct ids, one of which the local stack may abort, good and wrong commands, 2 workers, every call of Start may fail |
| `port_stale_error` (violation) | does an old error of one client drop another | the same |
| `reply_whole` | does a caller get its own answer, with timeouts and late answers | 3 calls, 3 connections |
| `reply_parts` | does a short send go on at the right place | 2 calls, answers of 4 units, everything cut |
| `mediator_threads` | is there always somebody to wake ReconnectUdp; has udpListener one user; is a listening thread ever overwritten; do the sleeping threads end at Stop | 2 threads, every mishap of the notification thread, server comes and goes |
| `service_calls` | does TRUE of a stop mean stopped; does every exit close what is open there; do the reported states follow the cycle of the SCM | 2 administrators, 2 processes, 1 dependent service, every call of the system may fail |
| `service_ends` | does every call return; does a process that got the control end; does a deleted service go | 2 administrators, 2 processes |
| `service_restart` (violation) | does a StartSvc that waits for a pending stop start the service | the same |
| `devices_follow` | do the map and the client follow the devices; does who is told of a device find it; is a device that stays served | 2 devices, 2 changes, both calls for the list may fail, another server whose address is a part of the own one |

Further properties, at the end of each module, state comments of the code, or
what one would expect of it, that the code does not keep. A configuration shows
each of them (`tlc` stops at a counterexample):

| module | configurations |
|---|---|
| `MCChannelManager` | `ChannelsDenied`, `ChannelsSend`, `ChannelsQuery`, `ChannelsZombie` |
| `InputChannel` | `InputChannelOverrun` |
| `MCCompletionPort` | `PortCollision`, `PortClosesAll` |
| `RequestReply` | `ReplyCutRequest`, `ReplyCutAnswer` |
| `Mediator` | `MediatorStop`, `MediatorOffline`, `MediatorStray`, `MediatorCrash`, `MediatorHandler` |
| `ServiceConsole` | `ServiceStartPolls`, `ServiceNoServer`, `ServiceDestroyed` |
| `DeviceNotification` | `DevicesAddress`, `DevicesNoDeviceMissing`, `DevicesNoGhost` |

And some properties that are proved, next to those of the runs above, hold in
configurations of their own (`tlc` finds no error):

| module | configuration | properties |
|---|---|---|
| `MCCompletionPort` | `PortRunsDown` (ids that collide) | `StopNeverStuck`, `RunsDown`, `RemovesSameId` |
| `Mediator` | `MediatorRunsDown` (every mishap, Stop at any time) | `StopNeverStuck`, `RunsDown`, `CallersTakeTurns` |
| `RequestReply` | `ReplyPromise` (packets arrive whole) | `CallRefinement` |
| `MCServiceConsole` | `ServiceRunsDown` (every system call may fail) | `NobodyWaitsInVain`, `RunsDown`, `OneReporter` |

Why the bounds are enough. Everything in `ChannelManager` is about a pair of
clients, a channel and at most one more channel or device; a third client adds
one that contends while the other two race, and the theorems hold for any
number. In `InputChannel` positions matter modulo the ring and laps up to a
difference of two, so three slots and three laps reach every case. Two workers
and two clients in `CompletionPort` give every pair of operations on one
context and one stale error crossing from one client to another. In
`RequestReply` three calls are one that times out, one that may take the late
answer, and one more after it. Two administrators are one whose call is under
way and one who changes the service meanwhile; two processes are one that ends
and the one that is started after it. With two devices one may be listed while
the other changes, and two changes are the shortest history that can be told in
the wrong order. `MaxWords`, `MaxRequests`, `MaxStreams`, `MaxParts`,
`MaxChanges`, `MaxFlight` (datagrams in flight when another server, or a Start
that has run past its list, sends one more) and the number of `Instance`s are the
only bounds that cut behaviour; each is a guard, and the theorems hold for every
value of them (save `MaxParts` in the theorems about whole packets, see below).

Deadlock is checked in the channel runs. The other systems stop: a ring at
`MaxWords`, calls at `MaxRequests`, a server or library after Stop, a program
that was terminated, devices after `MaxChanges`, a service nobody calls.

## Fairness

`ChannelManager`: workers take the packets that are in the port, handlers return,
an operation on the socket of a removed client fails, and one of a client whose
end has reached the server completes. Nothing is assumed of a connection that
the network loses without a word: the server sets no keep-alive, its pending
receive may never complete, and such a client keeps its channels. `CompletionPort`: weak fairness of the accept thread, each
worker, and Stop once called. `Mediator`: weak fairness of each of the library's
threads, of Stop, and of the rest of a call under way; no mishap has to happen.
`ServiceConsole`: weak
fairness of the threads of each process, of each call under way, and of the
passing of time (`Elapse`), and of the SCM removing a service marked for deletion
once it can; nobody has to make a call. `DeviceNotification`:
weak fairness of Start and of the library's callbacks; nothing of the net. All
waits in these steps are on conditions that stay true until the waiting thread
has seen them or are polled with a timeout. Nothing is assumed of clients,
peers, devices, or of somebody calling Stop.

## Theorems

All theorems hold for every value of the constants, under the assumptions the
modules state by name (sizes are positive, marker values are apart from the
sets, `Device` is finite) and those named here.

`ChannelManager_proofs`, for all sets of clients, devices and channels:

| theorem | statement |
|---|---|
| `TypeCorrect` | `Spec => []TypeOK` |
| `NoLeaseIsOrphaned` | owners and recipients are clients being served, or removed ones for which a worker executes a command |
| `ContextIsOwned` | a context in use is owned by the map or the accept thread |
| `UseIsExclusive` | check, ConnectForced and library call see the same owner, unless the command was overtaken (`voided`) |
| `ImplementsLease` | `Spec => Lease!LeaseSpec`, by the refinement mapping `live`, `overtaken`, `lease` |

They rest on the assumptions `Distinct` and `Environment` of the module. The
inductive invariant `IInv` is the conjunction of `TypeOK`, the three properties
and `AbsentEmpty`: a device that is not in the map holds no owner and no
recipient, or one that comes back would take a channel from a command under way.
`NoOrphanLease` needs that every step by which a channel is taken belongs to a
client for which a worker acts, removed or not, and that the failed reply of a
removed one ends in `RemoveClient` again. `ExclusiveUse` looks only at commands
that are not `voided`: a step of another client changes an owner through `Claim`
of a free channel, `SetOwner` by a command that owns it, forcing, or a command
that has itself been overtaken, and the last two void whoever used the channel.
Each part has one lemma per step (`TypeStep`, `AbsentStep`, `OrphanStep`,
`ContextStep`, `ExclusiveStep`), split by the actions of `Next` (`NextCases`),
and `InductiveInvariant` joins them. The refinement uses the invariant to show
that the second critical section of a command that is not overtaken is a stutter
of the lease.

`InputChannel_proofs`, for any ring, recipients and stream:

| theorem | statement |
|---|---|
| `TypeCorrect` | `Spec => []TypeOK` |
| `HoldsNewest` | the ring holds the newest words, tail and cycle count them |
| `OrderedOnce` | what a recipient is given is in order, new to it, and fits |
| `WholeRingsSkipped` | who does not count as overrun gets exactly what it has not had, less the full rings it is behind |
| `AddsOneAfterAnother` | adding n + 1 words is adding n and then one |
| `LoopComputesClosedForm` | the loop of Add, as a machine of its own, ends with what the closed form says |

The first half is about remainders: two places of the stream less than a ring
apart are in different slots (`Close`), what Write finds between two slots is
the distance of the places modulo the ring (`Around`), and an Add of no more
than a ring writes no slot twice (`OneHit`). The invariant `ChannelInv` adds
`Standing` of every recipient to `RingHoldsNewest`: its iterator is the slot after
its position, the lap it has noted is not before that of its position, and
nothing past its position was handed to it, unless it counts as overrun, and
then it does so for ever, for laps only grow. `Delivery` derives from it which
words a read copies. It also shows what the lap counter cannot see: a difference
of laps of at most 1 does not exclude that a recipient is a ring or more behind,
and it then misses whole rings, silently. One that is exactly one ring behind is
given nothing, yet its lap is brought up to date. `AddsOneAfterAnother` and
`LoopComputesClosedForm` join the closed form to the loop by steps instead of by
recursion: `AddOne` takes `RingAfter(n)` to `RingAfter(n + 1)`, so a machine that
repeats it is at `RingAfter(n)` after n turns, for any ring and any n up to its
size.

`CompletionPort_proofs`, for any connections, ids and workers:

| theorem | statement |
|---|---|
| `TypeCorrect` | `Spec => []TypeOK` |
| `StopReleases` | after Stop no thread, no context alive, handles closed, after a failed Start the same handles |
| `HandlesStayOpen` | what a running thread uses is open |
| `OneOperationHolds` | a context has one operation, completion or worker |
| `NoFreedContext` | no worker uses a destroyed context, but one dropped by mistake or one whose id another connection has |
| `DroppedForReason` | a context is destroyed only at the end of Stop, or when the connection is lost, has sent Disconnect or a wrong command, is taken for aborted by mistake, or has the id of another |
| `RemovesSame` | whatever the hash, a context is destroyed only for a connection of its own id, or at Stop |
| `StopIsNeverStuck` | whatever Stop joins was told to end, and a packet is there for every worker that sleeps in the port |
| `ThreadsRunDown` | the shutdown event stays set, and then every step of a thread lowers its rank |

Nothing is assumed of the hash that makes the ids; what a collision costs is said
in the properties (`Shares`), and `PortCollision` shows it. The invariant `Orderly` is
`Phase` (which threads exist at each stage of Start and Stop), `Opened` (what is
open at that stage), `Owned` (a live context is the accept thread's or in the
map) and `Gone`. `OneOperation` is inductive with the types alone, over a bag of
packets whose counts `Served` follows. `Served` adds `Fresh` (nothing is in flight
for a connection not accepted), `Filed` and `Placed` (a context is in the map
under its own id, in it or with the accept thread) and `Settled` (nothing is in
flight for a destroyed context, unless it was dropped by mistake or shares its
id). `DroppedForReason` adds `Excused`: a completion that failed, of a context
that is alive, is that of a lost connection or of a reply of no bytes. For Stop, one counts: the packets Stop has posted
for the workers are never fewer than the workers that still need one, since a
worker takes at most one of them and then ends. `StopIsNeverStuck` and
`ThreadsRunDown` together are the safety part of `StopCompletes`: nobody Stop
waits for is stuck, and all of them have a bounded number of steps left; only
that they take them, the fairness, is missing.

`RequestReply_proofs`, for any number of calls, connections and units:

| theorem | statement |
|---|---|
| `TypeCorrect` | `Spec => []TypeOK` |
| `RestIsSent` | after one short completion the rest follows where the sent part ended, whatever is cut |
| `RepliesMatch` | if packets are whole, what a caller takes is the answer to its own call |
| `ImplementsCalls` | if packets are whole, `Spec => Calls!CallSpec`, the refinement of `RemoteCall` |

`RestIsSent` rests on `Accounted`: what was sent and what is left is the whole
answer. The last two assume `Whole` (no packet is cut: neither direction, and no
parts); with packets cut they are beyond the code (`ReplyCutAnswer`,
`ReplyCutRequest`). The invariant `Exchange` says that the stream in use carries
the call under way and nothing else, and that a stream left behind by a timeout
is never used again. `Ledger` adds, over all streams, that a request and its
execution are one: a request is on its way or executed and not both, and no two
are of the same call. So a call given up may still be executed, later than the
calls made after it, but at most once, and no answer comes before the execution.

`Mediator_proofs`, for any number of calling threads:

| theorem | statement |
|---|---|
| `TypeCorrect` | `Spec => []TypeOK` |
| `SomebodyIsListening` | a ReconnectUdp that sleeps has a thread that will wake it |
| `ListenerHasOwner` | the UDP stream has one user at a time |
| `OnlyEndedOverwritten` | only an ended thread is overwritten, but where Stop overtakes ReconnectUdp |
| `StopIsNeverStuck` | what Stop joins can go on, but a ReconnectTcp that reset the event after Stop set it |
| `ThreadsRunDown` | the shutdown event stays set, and then every step of the three threads lowers its rank |
| `CallsExclude` | calls that connect exclude one another |

`NotifierInv` adds `ShutdownFirst` (the order of Stop) and `TakesTurns`, the
hand-over between ReconnectUdp and the notification thread that the events make:
the event is reset before the thread is made, and after that only its end, or
Stop, sets it. All hold for any set of mishaps, and so for a notification thread
that may end at any time. `StopIsNeverStuck` and `ThreadsRunDown` are the safety part of `SleepersWake`. What the exception of
the first costs is the hang that `MediatorStop` shows.

`DeviceNotification_proofs`, for any finite set of devices, any addresses and
whatever the two calls for the list answer:

| theorem | statement |
|---|---|
| `TypeCorrect` | `Spec => []TypeOK` |
| `MapFollows` | when Start is through and no callback runs, the map is the set of plugged devices, save those Start has left out or put in wrongly |
| `NoticeIsAfterMap` | a device whose latest datagram says it is attached is in the map, save for the exceptions the property names |
| `ViewFollows` | when all is quiet, the client knows the devices of the map, save those about which a datagram was not sent, lost, overtaken or another server's |

`MapInv` says at which stages of Start a device may be pending or half added
(`Stages`) and, of every device that Start has not spoilt, who will still put it
into the map or take it out (`Follows`); `ToldInv` adds that what is being told
of is there; `Announced` and `Heard` say of the last datagram about a device, and
of what the client believes, that it is right or about to be corrected.

`ServiceConsole_proofs`, for any administrators, processes and dependent
services:

| theorem | statement |
|---|---|
| `TypeCorrect` | `Spec => []TypeOK` |
| `HandlesAreClosed` | each exit of a call closes exactly what is open there, and a call under way has both handles |
| `StopTrueHolds` | TRUE of StopSvc means that the service was reported stopped during the call |
| `MovesAreLegal` | the states follow the cycle of the SCM |
| `OneProcessReports` | only the process started last starts or handles a control |
| `NobodyWaits` | a handler runs in a process that waits for it, and ControlService waits for a handler that was called |
| `ProcessRunsDown` | from the call of the handler on, every step of the process lowers its rank |

`Seen` (who is stopping the service has seen it run or seen it stop) makes
`StopTrueMeansStopped` inductive. `Cycle` derives from the status last shown what
a process has still to report; `Attended` adds that the process lives as long as
the status is not STOPPED, and that a control is delivered before its caller
waits. `NobodyWaits` and `ProcessRunsDown` are the safety part of
`StopEndsProcess`.

Only model-checked: the seven liveness properties `LeasesReclaimed`,
`StopCompletes`, `SleepersWake`, `CallsReturn`, `StopEndsProcess`, `DeletedGoes`
and `DeviceServed`. Liveness under fairness is outside the prover's reach. Of three
of them the part that is safety is proved, as said above: nobody is waited for in
vain, and the steps run out.

## What the runs found

Findings of PROJECT.json quote the comment for those of the violation runs; the
others are shown by the further configurations named above. In short:

- StartSvc that waits for a pending stop sees STOPPED, whose check point and wait
  hint are 0, takes that for no progress and returns FALSE without starting the
  service (`service_restart`);
- StartSvc may return TRUE while the service is still START_PENDING
  (`ServiceStartPolls`);
- SvcMain reports RUNNING although the server thread could not start, for
  instance because the last process still has the port (`ServiceNoServer`);
- main destroys the ProxyService while the pool thread still uses it
  (`ServiceDestroyed`);
- the address of a sender is looked for as a part of the server's own: devices
  of 10.0.0.1 are taken for those of 10.0.0.12 (`DevicesAddress`);
- a datagram of the initial list that cannot be sent ends the loop, the other
  listed devices are never added, and Start reports success
  (`DevicesNoDeviceMissing`);
- a device unplugged between the two handlers, or while it is being added, stays
  in the map (`DevicesNoGhost`);
- an error of the call for the list, a negative number, is compared with an index
  of type `size_t`: Start runs past its array, adds what it finds in the memory
  there, and the process may end (`SccServerIOCP.cpp:658`, `DevicesNoGhost`);
- a Start that fails leaves the UDP stream and the accept event open
  (`PortClosesAll`);
- a client removed before the accept thread has listed it stays in `_clientsMap`;
- a refused premoderated command answers 0, the value for success;
- Send commands go on after an error of the availability check;
- asking for channel states takes every free channel;
- a recipient a whole ring or more behind may not be recognised as overrun, and
  misses whole rings silently (`InputChannelOverrun`);
- two connections with the same hash share an entry, and the end of one
  destroys the context of the other;
- an old `WSAECONNABORTED` of one client drops another (`port_stale_error`), and
  the command of the other that is in the port is executed all the same, for a
  client that has been removed;
- packets in pieces are acted on, and counted, as if they were whole;
- Stop of the client library hangs when ReconnectTcp is connecting;
- the offline event can be lost, and the library stays offline;
- a datagram of another command, one too short, or a host name that is too long
  ends the notification thread (`MediatorStray`), and its successor may end the
  program (`MediatorCrash`);
- a second handler is ignored, and a timeout removes the first.

Some more that no property is about. A wrong command is answered with no bytes,
and the completion of that reply is taken for the end of the connection: the
client that sent it is dropped, with all its channels; `DroppedForAReason` counts
that as a reason. A client that the network loses without a word is never
removed, as there is no keep-alive. `getServiceStatus` never returns 0, though
its declaration and `TcpServiceMain.cpp:77` expect it; InstallSvc leaves the
service created when the description cannot be set; Start ignores the UDP host
it is given. After the second short completion of one reply the buffer pointer
moves too far (`SccServerIOCP.cpp:79` adds the total); `SendsTheRest` is stated
for one. `Stop` of the library looks for the notification thread once; a thread
that ReconnectUdp starts afterwards is never joined, and destroying its object
ends the program; `OverwritesOnlyEnded` is stated so that it allows this.

## Not modelled

- contents of words, log messages, formatting, name resolution;
- races on the nodes of `std::map` (handlers, streams): undefined behaviour
  whose outcomes are not states of the map;
- the typed wrappers around `SendCommand`, `SendWords` and `RecWords`, and the C
  functions of `SccTcpMediator.cpp`, which forward to them: they hold no state;
- time: a timeout may fire whenever its wait is under way;
- socket streams, managed wrapper, test client, entry points: no state that a
  property could be about.

## Plan

Everything in the plan of the first version of this project is done. Left:

1. `CompletionPort` and `ChannelManager` in one module, so that the exclusion of
   two workers on one client is derived instead of cited;
2. `RequestReply` with several calling threads on one server, once the streams
   of `Mediator` are part of it;
3. the safety part of `LeasesReclaimed` and `DeviceServed`, as a rank that every
   step of the server lowers, like `RunsDown` of the other modules.
