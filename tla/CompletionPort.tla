--------------------------- MODULE CompletionPort ---------------------------
(***************************************************************************)
(* The threads of SccServerIOCP around the I/O completion port: the accept *)
(* thread that makes a context for every connection, the workers that take *)
(* completions from the port, and the thread that calls Start and Stop.    *)
(*                                                                         *)
(* A context is reached in two ways: through _clientsMap, which owns it,   *)
(* and through the bare pointer that travels with every overlapped         *)
(* operation.  Nothing but the order of the calls below keeps a pointer    *)
(* from outliving its context.                                             *)
(*                                                                         *)
(* What a command does is in ChannelManager, and the bytes of a transfer   *)
(* are left out: here a receive or a send completes, well or badly.        *)
(***************************************************************************)
EXTENDS Naturals, FiniteSets

CONSTANTS
    Client,    \* connections, each with a context of its own
    Id,        \* values of _clientID
    IdOf,      \* the hash AssignClientID computes for a connection
    Aborted,   \* connections the local TCP stack may abort (WSAECONNABORTED)
    Worker,    \* worker threads
    NoClient   \* a null context pointer

ASSUME IdAssumption == IdOf \in [Client -> Id]
ASSUME NoClientAssumption == NoClient \notin Client
ASSUME AbortedAssumption == Aborted \subseteq Client
ASSUME WorkerAssumption == IsFiniteSet(Worker)

VARIABLES
    main,        \* progress of the thread that calls Start and Stop
    open,        \* what InitializeEnvironment has opened and nobody has closed
    toPost,      \* null packets Stop has still to post
    shutdown,    \* _shutdownEvent
    accepting,   \* progress of the accept thread
    acceptor,    \* context owned by AcceptConnection's unique_ptr
    clientsMap,  \* _clientsMap: the context stored under an id
    context,     \* life of every context
    io,          \* _ioCode of every context
    request,     \* the command in the buffer of every context
    operations,  \* overlapped operations outstanding on a context
    packets,     \* completions of a context in the port, by success
    nulls,       \* packets without a context in the port
    worker,      \* progress of every worker and the completion it holds
    stale,       \* a worker's last socket error is WSAECONNABORTED
    mistaken,    \* history: connections dropped for the error of another
    net          \* the connection as its peer and the network have it

errorVars == <<stale, mistaken>>
mainVars == <<main, open, toPost, shutdown>>
acceptVars == <<accepting, acceptor>>
contextVars == <<clientsMap, context>>
portVars == <<io, request, operations, packets, nulls>>
workerVars == <<worker, errorVars>>
vars == <<mainVars, acceptVars, contextVars, portVars, workerVars, net>>

At(step) == [at |-> step, client |-> NoClient, ok |-> FALSE]

\* The members of the server that are handles or sockets, the buffer of the host
\* address, and "listening" for a socket the peers can connect to.
Resource == {"port", "hostIP", "shutdownEvent", "udpStream", "listenSocket",
             "listening", "acceptEvent"}

\* A command that is answered, one that no case of the switch knows, and Disconnect.
Request == {"command", "wrong", "Disconnect"}

Initializing == {"winsock", "port", "address", "event", "udp", "socket", "listen",
                 "acceptEvent", "select"}

TypeOK ==
    /\ main \in {"new", "failing", "ready", "starting", "running", "failed", "joinAccept",
                 "posting", "joinWorkers", "cleaning", "stopped"} \union Initializing
    /\ open \subseteq Resource
    /\ toPost \in Nat
    /\ shutdown \in BOOLEAN
    /\ accepting \in {"none", "top", "poll", "list", "done"}
    /\ acceptor \in Client \cup {NoClient}
    /\ clientsMap \in [Id -> Client \cup {NoClient}]
    /\ context \in [Client -> {"none", "alive", "freed"}]
    /\ io \in [Client -> {"OP_READ", "OP_WRITE"}]
    /\ request \in [Client -> Request]
    /\ operations \in [Client -> Nat]
    /\ packets \in [Client -> [BOOLEAN -> Nat]]
    /\ nulls \in Nat
    /\ worker \in [Worker -> [at : {"none", "top", "wait", "woken", "handle", "posted",
                                    "done"},
                              client : Client \cup {NoClient}, ok : BOOLEAN]]
    /\ stale \in [Worker -> BOOLEAN]
    /\ mistaken \subseteq Client
    /\ net \in [Client -> {"away", "asking", "up", "lost"}]

Init ==
    /\ main = "new"
    /\ open = {}
    /\ toPost = 0
    /\ shutdown = FALSE
    /\ accepting = "none"
    /\ acceptor = NoClient
    /\ clientsMap = [i \in Id |-> NoClient]
    /\ context = [c \in Client |-> "none"]
    /\ io = [c \in Client |-> "OP_READ"]
    /\ request = [c \in Client |-> "command"]
    /\ operations = [c \in Client |-> 0]
    /\ packets = [c \in Client |-> [ok \in BOOLEAN |-> 0]]
    /\ nulls = 0
    /\ worker = [w \in Worker |-> At("none")]
    /\ stale = [w \in Worker |-> FALSE]
    /\ mistaken = {}
    /\ net = [c \in Client |-> "away"]

-----------------------------------------------------------------------------
(* RemoveClient and CleanClientList destroy contexts, whoever points to    *)
(* them.                                                                   *)

\* Fault: clear() where erase(id) is meant.
RemoveClientAll(id) ==
    /\ context' = [c \in Client |-> IF \E i \in Id : clientsMap[i] = c
                                      THEN "freed" ELSE context[c]]
    /\ clientsMap' = [i \in Id |-> NoClient]

RemoveClient(id) ==
    /\ context' = [c \in Client |-> IF clientsMap[id] = c THEN "freed" ELSE context[c]]
    /\ clientsMap' = [clientsMap EXCEPT ![id] = NoClient]

CleanClientList ==
    /\ context' = [c \in Client |-> IF \E i \in Id : clientsMap[i] = c
                                      THEN "freed" ELSE context[c]]
    /\ clientsMap' = [i \in Id |-> NoClient]

-----------------------------------------------------------------------------
(* Start.                                                                  *)

noThreadVars == <<toPost, shutdown, acceptVars, contextVars, portVars, workerVars, net>>

\* A call of InitializeEnvironment: what it opens is open, and the next call
\* follows, or it fails.
Calls(stage, opens, next) ==
    /\ main = stage
    /\ \/ main' = next /\ open' = open \union opens
       \/ main' = "failing" /\ UNCHANGED open
    /\ UNCHANGED noThreadVars

\* SccLibInterop::Initialize.  A failure is returned at once.
InitializeLibrary ==
    /\ main = "new"
    /\ main' \in {"winsock", "failed"}
    /\ UNCHANGED <<open, noThreadVars>>

StartWinsock == Calls("winsock", {}, "port")
InitializeIOCP == Calls("port", {"port"}, "address")

\* gethostname, getaddrinfo, and getnameinfo into a new buffer, which stays when
\* getnameinfo fails.
InitHostAddress ==
    \/ Calls("address", {"hostIP"}, "event")
    \/ Calls("address", {"hostIP"}, "failing")

InitializeEvents == Calls("event", {"shutdownEvent"}, "udp")
InitializeDeviceNotificationThread == Calls("udp", {"udpStream"}, "socket")

\* Fault: the result of WSACreateEvent is not looked at.
InitializeWSASocketBlindly ==
    \/ Calls("socket", {"listenSocket"}, "listen")
    \/ Calls("listen", {"listening"}, "acceptEvent")
    \/ Calls("acceptEvent", {}, "ready")

\* InitializeWSASocket: WSASocket, bind and listen, WSACreateEvent, WSAEventSelect.
\* Each returns on its own, and closes nothing.
InitializeWSASocket ==
    \/ Calls("socket", {"listenSocket"}, "listen")
    \/ Calls("listen", {"listening"}, "acceptEvent")
    \/ Calls("acceptEvent", {"acceptEvent"}, "select")
    \/ Calls("select", {}, "ready")

\* Fault: the port is forgotten.
DeInitializedNotPort(held) == held \ {"listenSocket", "listening", "shutdownEvent"}

\* DeInitialize closes the socket, the port and the event, and nothing else.
DeInitialized(held) == held \ {"listenSocket", "listening", "port", "shutdownEvent"}

(* InitializeEnvironment has failed: no thread exists and none will.       *)
StartFails ==
    /\ main = "failing"
    /\ open' = DeInitialized(open)
    /\ main' = "failed"
    /\ UNCHANGED noThreadVars

(* The accept thread runs before the first worker does.                    *)
StartAccept ==
    /\ main = "ready"
    /\ main' = "starting"
    /\ accepting' = "top"
    /\ UNCHANGED <<open, toPost, shutdown, acceptor, contextVars, portVars, workerVars, net>>

StartWorker(w) ==
    /\ main = "starting"
    /\ worker[w].at = "none"
    /\ worker' = [worker EXCEPT ![w] = At("top")]
    /\ UNCHANGED <<mainVars, acceptVars, contextVars, portVars, errorVars, net>>

Started ==
    /\ main = "starting"
    /\ \A w \in Worker : worker[w].at # "none"
    /\ main' = "running"
    /\ UNCHANGED <<open, noThreadVars>>

-----------------------------------------------------------------------------
(* Stop.  The console program calls it after a Start that failed, too.     *)

SetShutdown ==
    /\ main \in {"running", "failed"}
    /\ shutdown' = ("shutdownEvent" \in open)
    /\ main' = "joinAccept"
    /\ UNCHANGED <<open, toPost, acceptVars, contextVars, portVars, workerVars, net>>

\* Fault: the accept thread is not waited for.
JoinAcceptUnwaited ==
    /\ main = "joinAccept"
    /\ toPost' = Cardinality(Worker)
    /\ main' = "posting"
    /\ UNCHANGED <<open, shutdown, acceptVars, contextVars, portVars, workerVars, net>>

\* Fault: one packet is posted for all the workers.
JoinAcceptOnePacket ==
    /\ main = "joinAccept"
    /\ accepting \in {"none", "done"}
    /\ toPost' = 1
    /\ main' = "posting"
    /\ UNCHANGED <<open, shutdown, acceptVars, contextVars, portVars, workerVars, net>>

(* The thread is joined if there is one.                                   *)
JoinAccept ==
    /\ main = "joinAccept"
    /\ accepting \in {"none", "done"}
    /\ toPost' = Cardinality(Worker)
    /\ main' = "posting"
    /\ UNCHANGED <<open, shutdown, acceptVars, contextVars, portVars, workerVars, net>>

\* Fault: the loop posts one packet too many.
PostNullOnceMore ==
    /\ main = "posting"
    /\ nulls' = nulls + 1
    /\ toPost' = toPost - 1
    /\ UNCHANGED <<main, open, shutdown, acceptVars, contextVars, io, request, operations,
                   packets, workerVars, net>>

(* Without a port there is nothing to post to, and the call fails.         *)
PostNull ==
    /\ main = "posting"
    /\ toPost > 0
    /\ nulls' = IF "port" \in open THEN nulls + 1 ELSE nulls
    /\ toPost' = toPost - 1
    /\ UNCHANGED <<main, open, shutdown, acceptVars, contextVars, io, request, operations,
                   packets, workerVars, net>>

Posted ==
    /\ main = "posting"
    /\ toPost = 0
    /\ main' = "joinWorkers"
    /\ UNCHANGED <<open, noThreadVars>>

\* Fault: the workers are not waited for.
JoinWorkersUnwaited ==
    /\ main = "joinWorkers"
    /\ main' = "cleaning"
    /\ UNCHANGED <<open, noThreadVars>>

JoinWorkers ==
    /\ main = "joinWorkers"
    /\ \A w \in Worker : worker[w].at \in {"none", "done"}
    /\ main' = "cleaning"
    /\ UNCHANGED <<open, noThreadVars>>

(* WSACloseEvent, CleanClientList and DeInitialize.                        *)
Clean ==
    /\ main = "cleaning"
    /\ CleanClientList
    /\ open' = DeInitialized(open \ {"acceptEvent"})
    /\ main' = "stopped"
    /\ UNCHANGED <<toPost, shutdown, acceptVars, portVars, workerVars, net>>

-----------------------------------------------------------------------------
(* The accept thread.                                                      *)

AcceptTop ==
    /\ accepting = "top"
    /\ accepting' = IF shutdown THEN "done" ELSE "poll"
    /\ UNCHANGED <<mainVars, acceptor, contextVars, portVars, workerVars, net>>

(* ACCEPT_WAIT_TIMEOUT passes, or the event was for something else.        *)
AcceptTimeout ==
    /\ accepting = "poll"
    /\ accepting' = "top"
    /\ UNCHANGED <<mainVars, acceptor, contextVars, portVars, workerVars, net>>

(* AcceptConnection up to WSARecv, which a worker may complete at once.    *)
Accept(c) ==
    /\ accepting = "poll"
    /\ net[c] = "asking"
    /\ accepting' = "list"
    /\ acceptor' = c
    /\ net' = [net EXCEPT ![c] = "up"]
    /\ context' = [context EXCEPT ![c] = "alive"]
    /\ io' = [io EXCEPT ![c] = "OP_WRITE"]
    /\ operations' = [operations EXCEPT ![c] = @ + 1]
    /\ UNCHANGED <<mainVars, clientsMap, request, packets, nulls, workerVars>>

(* CreateIoCompletionPort fails, and the new id is removed from the map;   *)
(* or WSARecv fails.  Either way the unique_ptr destroys the context.      *)
AcceptFails(c) ==
    /\ accepting = "poll"
    /\ net[c] = "asking"
    /\ accepting' = "top"
    /\ net' = [net EXCEPT ![c] = "lost"]
    /\ LET old == clientsMap[IdOf[c]]
       IN  \/ /\ context' = [b \in Client |-> IF b \in {c, old} THEN "freed" ELSE context[b]]
              /\ clientsMap' = [clientsMap EXCEPT ![IdOf[c]] = NoClient]
           \/ /\ context' = [context EXCEPT ![c] = "freed"]
              /\ UNCHANGED clientsMap
    /\ UNCHANGED <<mainVars, acceptor, portVars, workerVars>>

(* AddToClientList: emplace of an id that is there destroys the context.   *)
AddToClientList ==
    /\ accepting = "list"
    /\ accepting' = "top"
    /\ acceptor' = NoClient
    /\ IF clientsMap[IdOf[acceptor]] = NoClient
         THEN /\ clientsMap' = [clientsMap EXCEPT ![IdOf[acceptor]] = acceptor]
              /\ UNCHANGED context
         ELSE /\ context' = [context EXCEPT ![acceptor] = "freed"]
              /\ UNCHANGED clientsMap
    /\ UNCHANGED <<mainVars, portVars, workerVars, net>>

-----------------------------------------------------------------------------
(* A worker.                                                               *)

WorkerTop(w) ==
    /\ worker[w].at = "top"
    /\ worker' = [worker EXCEPT ![w] = At(IF shutdown THEN "done" ELSE "wait")]
    /\ UNCHANGED <<mainVars, acceptVars, contextVars, portVars, errorVars, net>>

(* GetQueuedCompletionStatus returns.                                      *)
TakeNull(w) ==
    /\ worker[w].at = "wait"
    /\ nulls > 0
    /\ nulls' = nulls - 1
    /\ worker' = [worker EXCEPT ![w] = At("woken")]
    /\ UNCHANGED <<mainVars, acceptVars, contextVars, io, request, operations, packets,
                   errorVars, net>>

Take(w) ==
    /\ worker[w].at = "wait"
    /\ \E c \in Client, ok \in BOOLEAN :
         /\ packets[c][ok] > 0
         /\ packets' = [packets EXCEPT ![c][ok] = @ - 1]
         /\ worker' = [worker EXCEPT ![w] = [at |-> "woken", client |-> c, ok |-> ok]]
    /\ UNCHANGED <<mainVars, acceptVars, contextVars, io, request, operations, nulls,
                   errorVars, net>>

(* The second test of the event, and the test for a null context.          *)
CheckWoken(w) ==
    /\ worker[w].at = "woken"
    /\ worker' = [worker EXCEPT ![w] =
                    IF shutdown \/ @.client = NoClient THEN At("done")
                    ELSE [@ EXCEPT !.at = "handle"]]
    /\ UNCHANGED <<mainVars, acceptVars, contextVars, portVars, errorVars, net>>

(* From here on the worker reads and writes the context it was handed.  If *)
(* that has been destroyed it goes on as if the bytes were still there,    *)
(* which is one of the things that may happen.                             *)
Handles(w, c) == worker[w].at = "handle" /\ worker[w].client = c

Done(w) == worker' = [worker EXCEPT ![w] = At("top")]

(* RemoveClient on behalf of the context the worker holds.                 *)
Remove(w, c) ==
    /\ RemoveClient(IdOf[c])
    /\ Done(w)
    /\ UNCHANGED <<mainVars, acceptVars, net>>

(* WSASend or WSARecv accepts the operation.                               *)
Post(w, c, code) ==
    /\ io' = [io EXCEPT ![c] = code]
    /\ operations' = [operations EXCEPT ![c] = @ + 1]
    /\ Done(w)
    /\ UNCHANGED <<mainVars, acceptVars, contextVars, request, packets, nulls, net>>

(* The completion is an error or carries no bytes.                         *)
HandleFailure(w, c) ==
    /\ Handles(w, c)
    /\ ~worker[w].ok
    /\ Remove(w, c)
    /\ stale' \in {stale, [stale EXCEPT ![w] = FALSE]}
    /\ UNCHANGED <<portVars, mistaken>>

(* A command other than Disconnect: the reply is posted, of no bytes if    *)
(* the command is wrong.                                                   *)
HandleCommand(w, c) ==
    /\ Handles(w, c)
    /\ worker[w].ok
    /\ io[c] = "OP_WRITE"
    /\ request[c] # "Disconnect"
    /\ Post(w, c, "OP_READ")
    /\ stale' \in {stale, [stale EXCEPT ![w] = FALSE]}
    /\ UNCHANGED mistaken

HandleDisconnect(w, c) ==
    /\ Handles(w, c)
    /\ worker[w].ok
    /\ io[c] = "OP_WRITE"
    /\ request[c] = "Disconnect"
    /\ Remove(w, c)
    /\ UNCHANGED <<portVars, errorVars>>

(* Part of the reply is still to be sent.                                  *)
HandleRest(w, c) ==
    /\ Handles(w, c)
    /\ worker[w].ok
    /\ io[c] = "OP_READ"
    /\ Post(w, c, "OP_READ")
    /\ stale' \in {stale, [stale EXCEPT ![w] = FALSE]}
    /\ UNCHANGED mistaken

(* WSASend fails, on a reply or on the rest of one.                        *)
SendFails(w, c) ==
    /\ Handles(w, c)
    /\ worker[w].ok
    /\ io[c] = "OP_READ" \/ request[c] # "Disconnect"
    /\ net[c] = "lost"
    /\ Remove(w, c)
    /\ \/ stale' = [stale EXCEPT ![w] = FALSE]
       \/ c \in Aborted /\ stale' = [stale EXCEPT ![w] = TRUE]
    /\ io' = [io EXCEPT ![c] = "OP_READ"]
    /\ UNCHANGED <<request, operations, packets, nulls, mistaken>>

\* Fault: the next receive is posted twice, by the completion and by its caller.
NextReceiveTwice(w, c) ==
    /\ Handles(w, c)
    /\ worker[w].ok
    /\ io[c] = "OP_READ"
    /\ io' = [io EXCEPT ![c] = "OP_WRITE"]
    /\ operations' = [operations EXCEPT ![c] = @ + 2]
    /\ Done(w)
    /\ UNCHANGED <<mainVars, acceptVars, contextVars, request, packets, nulls, net, mistaken>>
    /\ stale' = [stale EXCEPT ![w] = FALSE]

\* Fault: WSA_IO_PENDING is not excepted from the errors.
NextReceivePendingFails(w, c) ==
    /\ Handles(w, c)
    /\ worker[w].ok
    /\ io[c] = "OP_READ"
    /\ Remove(w, c)
    /\ io' = [io EXCEPT ![c] = "OP_WRITE"]
    /\ operations' = [operations EXCEPT ![c] = @ + 1]
    /\ stale' = [stale EXCEPT ![w] = FALSE]
    /\ UNCHANGED <<request, packets, nulls, mistaken>>

(* The reply is out: the next receive is posted.  It is pending, and the   *)
(* last error says so, or it completes at once and no old error is there.  *)
NextReceive(w, c) ==
    /\ Handles(w, c)
    /\ worker[w].ok
    /\ io[c] = "OP_READ"
    /\ Post(w, c, "OP_WRITE")
    /\ stale' = [stale EXCEPT ![w] = FALSE]
    /\ UNCHANGED mistaken

(* A receive fills the buffer.                                             *)
Receives(c) == \E r \in Request : request' = [request EXCEPT ![c] = r]

(* WSARecv completes at once and leaves the last error alone, which is an  *)
(* old WSAECONNABORTED of another connection.  The packet is in the port,  *)
(* and while this worker takes the old error for the result of the call    *)
(* another one may handle it.                                              *)
NextReceiveMistaken(w, c) ==
    /\ Handles(w, c)
    /\ worker[w].ok
    /\ io[c] = "OP_READ"
    /\ stale[w]
    /\ packets' = [packets EXCEPT ![c][TRUE] = @ + 1]
    /\ io' = [io EXCEPT ![c] = "OP_WRITE"]
    /\ Receives(c)
    /\ worker' = [worker EXCEPT ![w].at = "posted"]
    /\ mistaken' = mistaken \union {c}
    /\ UNCHANGED <<mainVars, acceptVars, contextVars, operations, nulls, stale, net>>

(* The worker that took an old error for the result reads the context once *)
(* more, for its id.                                                       *)
Mistakes(w, c) == worker[w].at = "posted" /\ worker[w].client = c

RemoveMistaken(w, c) ==
    /\ Mistakes(w, c)
    /\ Remove(w, c)
    /\ UNCHANGED <<portVars, errorVars>>

NextReceiveFails(w, c) ==
    /\ Handles(w, c)
    /\ worker[w].ok
    /\ io[c] = "OP_READ"
    /\ net[c] = "lost"
    /\ Remove(w, c)
    /\ \/ stale' = [stale EXCEPT ![w] = FALSE]
       \/ c \in Aborted /\ stale' = [stale EXCEPT ![w] = TRUE]
    /\ io' = [io EXCEPT ![c] = "OP_WRITE"]
    /\ UNCHANGED <<request, operations, packets, nulls, mistaken>>

-----------------------------------------------------------------------------
(* The network.                                                            *)

PeerConnects(c) ==
    /\ "listening" \in open
    /\ net[c] = "away"
    /\ net' = [net EXCEPT ![c] = "asking"]
    /\ UNCHANGED <<mainVars, acceptVars, contextVars, portVars, workerVars>>

PeerLeaves(c) ==
    /\ net[c] = "up"
    /\ net' = [net EXCEPT ![c] = "lost"]
    /\ UNCHANGED <<mainVars, acceptVars, contextVars, portVars, workerVars>>

(* The outstanding send is the reply to a wrong command, whose totalbytes  *)
(* is still 0.                                                             *)
Empty(c) == io[c] = "OP_READ" /\ request[c] = "wrong"

(* An operation completes: well while there is somebody at the other end,  *)
(* and a send perhaps even later; badly once the connection is lost or its *)
(* socket closed by the destructor of the context.  A send of no bytes     *)
(* completes with none, as a receive does when the peer has gone.          *)
Complete(c, ok) ==
    /\ operations[c] > 0
    /\ IF ok THEN /\ context[c] = "alive"
                  /\ net[c] = "up" \/ io[c] = "OP_READ"
                  /\ ~Empty(c)
             ELSE context[c] = "freed" \/ net[c] = "lost" \/ Empty(c)
    /\ IF ok /\ io[c] = "OP_WRITE" THEN Receives(c) ELSE UNCHANGED request
    /\ operations' = [operations EXCEPT ![c] = @ - 1]
    /\ packets' = [packets EXCEPT ![c][ok] = @ + 1]
    /\ UNCHANGED <<mainVars, acceptVars, contextVars, io, nulls, workerVars, net>>

-----------------------------------------------------------------------------
MainStep ==
    \/ InitializeLibrary \/ StartWinsock \/ InitializeIOCP \/ InitHostAddress
    \/ InitializeEvents \/ InitializeDeviceNotificationThread \/ InitializeWSASocket
    \/ StartFails \/ StartAccept \/ Started
    \/ \E w \in Worker : StartWorker(w)
    \/ SetShutdown

StopStep == JoinAccept \/ PostNull \/ Posted \/ JoinWorkers \/ Clean

AcceptStep ==
    \/ AcceptTop
    \/ AcceptTimeout
    \/ AddToClientList
    \/ \E c \in Client : Accept(c) \/ AcceptFails(c)

HandleStep(w, c) ==
    \/ HandleFailure(w, c)
    \/ HandleCommand(w, c)
    \/ HandleDisconnect(w, c)
    \/ HandleRest(w, c)
    \/ SendFails(w, c)
    \/ NextReceive(w, c)
    \/ NextReceiveMistaken(w, c)
    \/ RemoveMistaken(w, c)
    \/ NextReceiveFails(w, c)

WorkerStep(w) ==
    \/ WorkerTop(w)
    \/ TakeNull(w)
    \/ Take(w)
    \/ CheckWoken(w)
    \/ \E c \in Client : HandleStep(w, c)

NetStep ==
    \E c \in Client :
        \/ PeerConnects(c)
        \/ PeerLeaves(c)
        \/ \E ok \in BOOLEAN : Complete(c, ok)

Next ==
    \/ MainStep
    \/ StopStep
    \/ AcceptStep
    \/ \E w \in Worker : WorkerStep(w)
    \/ NetStep

Spec == Init /\ [][Next]_vars

(* Every thread runs when it can.  Nobody is obliged to call Stop, and the *)
(* peers and the network may do anything or nothing.                       *)
Fairness ==
    /\ WF_vars(StopStep)
    /\ WF_vars(AcceptStep)
    /\ \A w \in Worker : WF_vars(WorkerStep(w))

FairSpec == Spec /\ Fairness

-----------------------------------------------------------------------------
(* The worker that holds a completion of c.                                *)
Holds(w, c) == worker[w].at \in {"woken", "handle"} /\ worker[w].client = c

(* Every operation of a context is posted by whoever holds the completion  *)
(* of the one before: a context never has two operations, completions or   *)
(* workers at once, so its buffer and its _ioCode need no lock.            *)
OneOperation ==
    \A c \in Client :
        /\ operations[c] + packets[c][TRUE] + packets[c][FALSE] <= 1
        /\ \A w \in Worker : Holds(w, c) =>
             /\ operations[c] + packets[c][TRUE] + packets[c][FALSE] = 0
             /\ \A v \in Worker : Holds(v, c) => v = w

(* No worker reads or writes a context that has been destroyed: while the  *)
(* server runs a destroyed context has no operation and no completion, and *)
(* Stop destroys the contexts only when the workers are gone.  But for two *)
(* kinds: the contexts dropped for the error of another, whose next packet *)
(* is in the port and is handled before, while or after they go, and those *)
(* of connections with the same id, which go with each other.              *)
Uses(w, c) == Handles(w, c) \/ Mistakes(w, c)

Shares(c) == \E b \in Client \ {c} : IdOf[b] = IdOf[c]

NoFreedContextUsed ==
    \A w \in Worker, c \in Client : Uses(w, c) =>
        context[c] = "alive" \/ c \in mistaken \/ Shares(c)

(* When Stop has returned no thread runs and no context is left behind;    *)
(* then, and after a Start that failed, nobody can connect any more.       *)
StopReleasesAll ==
    /\ main = "stopped" =>
         /\ accepting \in {"none", "done"}
         /\ \A w \in Worker : worker[w].at \in {"none", "done"}
         /\ \A c \in Client : context[c] # "alive"
    /\ main \in {"failed", "stopped"} =>
         open \intersect {"port", "shutdownEvent", "listenSocket", "listening"} = {}

(* A thread that runs finds what it waits on or posts to open: Start has   *)
(* opened it before the thread began, and Stop closes it after the join.   *)
HandlesOpen ==
    /\ accepting \notin {"none", "done"} =>
         {"shutdownEvent", "acceptEvent", "listening", "port"} \subseteq open
    /\ \A w \in Worker : worker[w].at \notin {"none", "done"} =>
         {"shutdownEvent", "port"} \subseteq open

(* Stop is never stuck: a thread it joins has been told to end, and for    *)
(* every worker that sleeps in the port there is a packet to wake it,      *)
(* although the workers take packets while Stop is still posting them.     *)
Waiting == {w \in Worker : worker[w].at = "wait"}

StopNeverStuck ==
    /\ main = "joinAccept" => accepting \in {"none", "done"} \/ shutdown
    /\ main = "joinWorkers" =>
         /\ \A w \in Worker : worker[w].at \in {"none", "done"} \/ shutdown
         /\ Cardinality(Waiting) <= nulls

(* And the threads run down: once the event is set it stays set, and every *)
(* step of a worker or of the accept thread brings it nearer to its end,   *)
(* whatever completes and whoever connects meanwhile.                      *)
WorkerLeft == [none |-> 4, handle |-> 3, posted |-> 2, wait |-> 2, woken |-> 1, top |-> 1,
               done |-> 0]
AcceptLeft == [none |-> 4, poll |-> 3, list |-> 2, top |-> 1, done |-> 0]

RunsDown ==
    [][shutdown =>
         /\ shutdown'
         /\ \A w \in Worker : worker'[w] # worker[w] =>
              WorkerLeft[worker'[w].at] < WorkerLeft[worker[w].at]
         /\ accepting' # accepting => AcceptLeft[accepting'] < AcceptLeft[accepting]]_vars

(* SccServerIOCP.h, of RemoveClient: "Remove client content from           *)
(* _clientsMap and clear all information about client": the context that   *)
(* goes is the one of the connection that ended, never another one's.      *)
RemovesOwnContext ==
    [][\A c \in Client : context[c] = "alive" /\ context'[c] = "freed" =>
          \/ main = "cleaning"
          \/ \E w \in Worker : Uses(w, c)]_vars

(* Whatever the hash does, a context goes only at the end of Stop, by a    *)
(* worker that handles a connection with the same id, because a connection *)
(* with the same id could not be accepted, or because its own id is taken. *)
RemovesSameId ==
    [][\A c \in Client : context[c] = "alive" /\ context'[c] = "freed" =>
          \/ main = "cleaning"
          \/ \E w \in Worker, b \in Client : Uses(w, b) /\ IdOf[b] = IdOf[c]
          \/ \E b \in Client : /\ accepting = "poll" /\ net[b] = "asking"
                               /\ net'[b] = "lost" /\ IdOf[b] = IdOf[c]
          \/ acceptor = c /\ clientsMap[IdOf[c]] # NoClient]_vars

(* A connection that is well is not dropped while the server runs: one     *)
(* that is dropped has been lost, or has sent Disconnect or a command that *)
(* nobody knows, or a worker takes the old error of another connection for *)
(* its own, or another connection has its id.  Never is it dropped because *)
(* its next receive is pending, or for a completion of long ago.           *)
DroppedForAReason ==
    [][\A c \in Client : context[c] = "alive" /\ context'[c] = "freed" =>
          \/ main = "cleaning"
          \/ net[c] = "lost"
          \/ request[c] \in {"wrong", "Disconnect"}
          \/ \E w \in Worker : Mistakes(w, c)
          \/ Shares(c)]_vars

(* SccServerIOCP.cpp, when the next receive seems to have failed: "Client  *)
(* unexpectedly closed the connection."  A client that has sent nothing    *)
(* but good commands and is dropped by the worker that serves it has       *)
(* really lost its connection.                                             *)
DroppedWhenLost ==
    [][\A w \in Worker, c \in Client :
          /\ Uses(w, c) /\ request[c] = "command"
          /\ context[c] = "alive" /\ context'[c] = "freed"
          => net[c] = "lost"]_vars

(* SccServerIOCP.h, of DeInitialize: "Close open sockets and handles".     *)
ClosesAll ==
    main = "failed" => open \intersect {"port", "shutdownEvent", "udpStream",
                                        "listenSocket", "acceptEvent"} = {}

(* Stop returns, whatever the clients and the workers were doing when it   *)
(* was called.                                                             *)
StopCompletes == (main = "joinAccept") ~> (main = "stopped")
=============================================================================
