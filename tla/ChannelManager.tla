--------------------------- MODULE ChannelManager ---------------------------
(***************************************************************************)
(* The channel manager of the SCC TCP service: the device map with the    *)
(* owner of every channel, the readers registered on the input channels,  *)
(* and the connections whose commands act on them.                         *)
(*                                                                         *)
(* One step is one critical section of the server (_devicesMapMutex, or    *)
(* _clientMutex and _devicesMapMutex together in RemoveClient) or one      *)
(* library call made outside every lock, so that the steps of two workers  *)
(* serving two clients interleave as they do in the program.  A client has *)
(* one overlapped operation outstanding at any time, so at most one worker *)
(* handles it: task[c] is what that worker, or the operation, is doing.    *)
(*                                                                         *)
(* A client is one TCP connection, with an id of its own; two connections  *)
(* whose ids collide are outside this module.                              *)
(***************************************************************************)
EXTENDS Naturals, FiniteSets

CONSTANTS
    Client,       \* connections, named by their client id
    NoOwner,      \* the NULL owner id of a free channel
    Device,       \* serial numbers
    InChannel,    \* the Arinc429In and Arinc708In channels of a device
    OutChannel,   \* the Arinc429Out and Arinc708Out channels of a device
    BadChannel,   \* any channel number past the last one of its type
    Nothing,      \* no target, and no client being accepted
    Forceable,    \* channels on which some client sends ConnectForced
    Unpluggable   \* devices that may be unplugged while the server runs

Channel == InChannel \cup OutChannel

ASSUME Distinct ==
    /\ NoOwner \notin Client
    /\ Nothing \notin Client
    /\ BadChannel \notin Channel
    /\ InChannel \cap OutChannel = {}

ASSUME Environment ==
    /\ Forceable \subseteq Channel
    /\ Unpluggable \subseteq Device

VARIABLES
    session,      \* life of the connection's context
    clientsMap,   \* keys of _clientsMap
    acceptor,     \* client between WSARecv and AddToClientList in the accept thread
    gone,         \* clients whose peer has closed or lost the connection
    devices,      \* keys of _devicesMap
    owner,        \* _ownerId of every channel
    recipients,   \* keys of _ownersOffsetsMap of every input channel
    task,         \* what the server is doing for the client
    doomed        \* clients that a worker is about to remove by mistake

\* For stating properties only; no action reads it.
VARIABLE
    voided        \* clients whose command under way has lost its channel

vars == <<session, clientsMap, acceptor, gone, devices, owner, recipients, task,
          doomed, voided>>
clientVars == <<session, clientsMap, acceptor, gone, doomed>>

-----------------------------------------------------------------------------
(* Answers: the BOOL/INT that SetBufferT puts into the reply.  "FALSE" is  *)
(* the integer 0, "LIB" whatever SccLib returned, "EMPTY" a reply of no    *)
(* bytes at all.                                                           *)
ErrorCode == {"DEVICE_NOT_AVAILABLE", "INVALID_CHANNEL_NUMBER", "ACCESS_DENIED"}
Answer == ErrorCode \cup {"TRUE", "FALSE", "LIB", "STATES", "EMPTY", "NONE"}

(* idle: WSARecv outstanding.  check, connect, call: the three parts of a  *)
(* premoderated command.  write: between the check of Send*WordsRaw and    *)
(* its library call.  reply: WSASend outstanding.  late: the client has    *)
(* been removed, but a packet with its context is still in the port.       *)
Step == {"idle", "check", "connect", "call", "write", "reply", "late"}

Task == [step : Step, dev : Device \cup {Nothing},
         chan : Channel \cup {BadChannel}, answer : Answer]

At(step, d, ch, res) == [step |-> step, dev |-> d, chan |-> ch, answer |-> res]
Idle == At("idle", Nothing, BadChannel, "NONE")
Reply(res) == At("reply", Nothing, BadChannel, res)
Late == At("late", Nothing, BadChannel, "NONE")

(* c is between its availability check and the end of its library call.    *)
Uses(c, d, ch) ==
    /\ task[c].dev = d
    /\ task[c].chan = ch
    /\ \/ task[c].step \in {"connect", "call"}
       \/ task[c].step = "write" /\ task[c].answer = "TRUE"

Users(d, ch) == {c \in Client : Uses(c, d, ch)}
UsersOf(d) == {c \in Client : \E ch \in Channel : Uses(c, d, ch)}

\* Fault: InitializeChannels forgets the output vectors.
FreshOwnersInOnly == [ch \in InChannel |-> NoOwner]

FreshOwners == [ch \in Channel |-> NoOwner]
FreshRecipients == [ch \in InChannel |-> {}]

TypeOK ==
    /\ session \in [Client -> {"new", "open", "removed"}]
    /\ clientsMap \subseteq Client
    /\ acceptor \in Client \cup {Nothing}
    /\ gone \subseteq Client
    /\ devices \subseteq Device
    /\ owner \in [Device -> [Channel -> Client \cup {NoOwner}]]
    /\ recipients \in [Device -> [InChannel -> SUBSET Client]]
    /\ task \in [Client -> Task]
    /\ doomed \subseteq Client
    /\ voided \subseteq {c \in Client : task[c].step \in {"connect", "call", "write"}}

Init ==
    /\ session = [c \in Client |-> "new"]
    /\ clientsMap = {}
    /\ acceptor = Nothing
    /\ gone = {}
    /\ devices = {}
    /\ owner = [d \in Device |-> FreshOwners]
    /\ recipients = [d \in Device |-> FreshRecipients]
    /\ task = [c \in Client |-> Idle]
    /\ doomed = {}
    /\ voided = {}

-----------------------------------------------------------------------------
(* VirtualDevice: every operation below runs under _devicesMapMutex.       *)

(* IsAvaliableFor returns this ...                                         *)
Available(c, d, ch) ==
    IF d \notin devices THEN "DEVICE_NOT_AVAILABLE"
    ELSE IF ch \notin Channel THEN "INVALID_CHANNEL_NUMBER"
    ELSE IF owner[d][ch] \in {NoOwner, c} THEN "TRUE"
    ELSE "FALSE"

(* ... and gives the channels asked about to c when they are free.         *)
\* Fault: the owner is overwritten without the test for NULL.
ClaimAnyway(c, d, chans) ==
    IF d \in devices
      THEN [owner EXCEPT ![d] = [ch \in Channel |-> IF ch \in chans THEN c ELSE @[ch]]]
      ELSE owner

Claim(c, d, chans) ==
    IF d \in devices
      THEN [owner EXCEPT ![d] =
              [ch \in Channel |-> IF ch \in chans /\ owner[d][ch] = NoOwner
                                    THEN c ELSE owner[d][ch]]]
      ELSE owner

(* SetOwner: result and effect.                                            *)
SetOwnerResult(d, ch) ==
    IF d \notin devices THEN "DEVICE_NOT_AVAILABLE"
    ELSE IF ch \notin Channel THEN "INVALID_CHANNEL_NUMBER"
    ELSE "TRUE"

SetOwner(d, ch, id) ==
    IF d \in devices /\ ch \in Channel
      THEN [owner EXCEPT ![d][ch] = id]
      ELSE owner

(* RemoveClient strips the client from every channel of every device and   *)
(* erases its context.                                                     *)
OwnersWithout(c) ==
    [d \in Device |-> [ch \in Channel |->
        IF owner[d][ch] = c THEN NoOwner ELSE owner[d][ch]]]

\* Fault: VirtualDevice::RemoveClient forgets RemoveRecipient.
RecipientsKept(c) == recipients

RecipientsWithout(c) ==
    [d \in Device |-> [ch \in InChannel |-> recipients[d][ch] \ {c}]]

RemoveClient(c) ==
    /\ owner' = OwnersWithout(c)
    /\ recipients' = RecipientsWithout(c)
    /\ clientsMap' = clientsMap \ {c}

(* ... when nothing of the client is outstanding.                          *)
EndClient(c) ==
    /\ RemoveClient(c)
    /\ session' = [session EXCEPT ![c] = "removed"]
    /\ task' = [task EXCEPT ![c] = Idle]
    /\ voided' = voided \ {c}
    /\ UNCHANGED <<acceptor, gone, devices, doomed>>

-----------------------------------------------------------------------------
(* Connections.                                                            *)

(* The accept thread posts the first WSARecv before the context is in      *)
(* _clientsMap; from here on workers may serve the client.                 *)
Accept(c) ==
    /\ session[c] = "new"
    /\ acceptor = Nothing
    /\ session' = [session EXCEPT ![c] = "open"]
    /\ acceptor' = c
    /\ UNCHANGED <<clientsMap, gone, devices, owner, recipients, task, doomed, voided>>

(* CreateIoCompletionPort fails (RemoveClient) or WSARecv fails (the       *)
(* unique_ptr destroys the context).                                       *)
AcceptFails(c) ==
    /\ session[c] = "new"
    /\ acceptor = Nothing
    /\ \/ EndClient(c)
       \/ /\ session' = [session EXCEPT ![c] = "removed"]
          /\ UNCHANGED <<clientsMap, acceptor, gone, devices, owner, recipients,
                         task, doomed, voided>>

\* Fault: the context is moved into a pair that is never inserted.
NotAddedToClientList(c) ==
    /\ acceptor = c
    /\ acceptor' = Nothing
    /\ UNCHANGED <<session, clientsMap, gone, devices, owner, recipients, task,
                   doomed, voided>>

AddToClientList(c) ==
    /\ acceptor = c
    /\ clientsMap' = clientsMap \cup {c}
    /\ acceptor' = Nothing
    /\ UNCHANGED <<session, gone, devices, owner, recipients, task, doomed, voided>>

(* The close or the reset of the connection by the peer reaches the        *)
(* server.  A connection that the network loses without a trace is one of  *)
(* a client that sends nothing more: the sockets have no keep-alive.       *)
PeerLeaves(c) ==
    /\ session[c] = "open"
    /\ c \notin gone
    /\ gone' = gone \cup {c}
    /\ UNCHANGED <<session, clientsMap, acceptor, devices, owner, recipients, task,
                   doomed, voided>>

\* Fault: a failed completion is skipped without RemoveClient.
DropOnReplyOnly(c) ==
    /\ task[c].step = "reply"
    /\ EndClient(c)

(* A completion the worker answers with RemoveClient and after which       *)
(* nothing of the client is outstanding: an error or zero bytes on the     *)
(* receive of a client whose end has come, or of one removed before; on    *)
(* the reply also a failed WSASend, an empty reply, or a next WSARecv that *)
(* fails.                                                                  *)
DropClient(c) ==
    /\ \/ task[c].step = "idle" /\ session[c] = "open" /\ c \in gone
       \/ task[c].step \in {"late", "reply"}
    /\ EndClient(c)

(* The reply has been sent whole and the next WSARecv is posted.           *)
ReplySent(c) ==
    /\ session[c] = "open"
    /\ task[c].step = "reply"
    /\ task[c].answer # "EMPTY"
    /\ task' = [task EXCEPT ![c] = Idle]
    /\ UNCHANGED <<clientVars, devices, owner, recipients, voided>>

(* The next WSARecv completes at once and leaves the last error as it was. *)
(* If that is a WSAECONNABORTED the worker met with a client it served     *)
(* before, it goes on to remove c; meanwhile the packet is in the port and *)
(* another worker may take it.                                             *)
ReplySentMistaken(c) ==
    /\ session[c] = "open"
    /\ task[c].step = "reply"
    /\ task[c].answer # "EMPTY"
    /\ task' = [task EXCEPT ![c] = Idle]
    /\ doomed' = doomed \cup {c}
    /\ UNCHANGED <<session, clientsMap, acceptor, gone, devices, owner, recipients, voided>>

(* RemoveClient of a worker that took an old error for one of c, whatever  *)
(* is being done for c.  A context that the accept thread has not yet put  *)
(* into the map is neither freed nor its socket closed.  The receive that  *)
(* is outstanding, or its packet in the port, is left behind; another      *)
(* worker may be about to remove c too.                                    *)
RemoveDoomed(c) ==
    /\ c \in doomed
    /\ RemoveClient(c)
    /\ session' = IF c \in clientsMap THEN [session EXCEPT ![c] = "removed"] ELSE session
    /\ task' = IF c \in clientsMap /\ session[c] = "open" /\ task[c].step = "idle"
                 THEN [task EXCEPT ![c] = Late] ELSE task
    /\ doomed' \in {doomed, doomed \ {c}}
    /\ voided' = IF \E d \in Device, ch \in Channel : Uses(c, d, ch)
                   THEN voided \cup {c} ELSE voided
    /\ UNCHANGED <<acceptor, gone, devices>>

-----------------------------------------------------------------------------
(* Commands.  A command of a peer that closed after sending it is the same *)
(* run as one processed before the close, so a command starts only while   *)
(* the peer is there; or it is the one command that was in the port when   *)
(* the client was removed, and is executed for the removed client.         *)
Receives(c) ==
    \/ session[c] = "open" /\ task[c].step = "idle" /\ c \notin gone
    \/ task[c].step = "late"

Disconnect(c) ==
    /\ Receives(c)
    /\ EndClient(c)

(* GetAvalibleChannelsIn and GetAvalibleChannelsOut.                       *)
GetChannelStates(c, d, chans) ==
    /\ Receives(c)
    /\ owner' = Claim(c, d, chans)
    /\ task' = [task EXCEPT ![c] =
                  Reply(IF d \in devices THEN "STATES"
                        ELSE "DEVICE_NOT_AVAILABLE")]
    /\ UNCHANGED <<clientVars, devices, recipients, voided>>

\* Fault: the channel is released whoever owns it.
ReleaseUnchecked(c, d, ch) ==
    /\ Receives(c)
    /\ owner' = SetOwner(d, ch, NoOwner)
    /\ task' = [task EXCEPT ![c] = Reply(SetOwnerResult(d, ch))]
    /\ UNCHANGED <<clientVars, devices, recipients, voided>>

ReleaseChannel(c, d, ch) ==
    /\ Receives(c)
    /\ owner' = IF Available(c, d, ch) = "TRUE" THEN SetOwner(d, ch, NoOwner)
                ELSE owner
    /\ task' = [task EXCEPT ![c] = Reply(Available(c, d, ch))]
    /\ UNCHANGED <<clientVars, devices, recipients, voided>>

ConnectForced(c, d, ch) ==
    /\ Receives(c)
    /\ ch \in Forceable \cup {BadChannel}
    /\ owner' = SetOwner(d, ch, c)
    /\ task' = [task EXCEPT ![c] = Reply(SetOwnerResult(d, ch))]
    /\ voided' = IF SetOwnerResult(d, ch) = "TRUE"
                   THEN voided \cup (Users(d, ch) \ {c}) ELSE voided
    /\ UNCHANGED <<clientVars, devices, recipients>>

(* Set429*Params, Set*InputBufferLength and ResetOut*Channel: the command  *)
(* is parsed.                                                              *)
Configure(c, d, ch) ==
    /\ Receives(c)
    /\ task' = [task EXCEPT ![c] = At("check", d, ch, "NONE")]
    /\ UNCHANGED <<clientVars, devices, owner, recipients, voided>>

(* ResetIn*Channel calls ResetBuffer first, a critical section of its own; *)
(* the read positions it moves belong to ChannelIn.                        *)
ResetIn(c, d, ch) ==
    /\ Receives(c)
    /\ owner' = Claim(c, d, {ch})
    /\ task' = [task EXCEPT ![c] = At("check", d, ch, "NONE")]
    /\ UNCHANGED <<clientVars, devices, recipients, voided>>

(* First critical section of a premoderated command.                       *)
Check(c) ==
    LET d == task[c].dev
        ch == task[c].chan
    IN  /\ task[c].step = "check"
        /\ owner' = Claim(c, d, {ch})
        /\ task' = [task EXCEPT ![c] =
                      IF Available(c, d, ch) = "TRUE"
                        THEN At("connect", d, ch, "TRUE")
                        ELSE Reply(Available(c, d, ch))]
        /\ UNCHANGED <<clientVars, devices, recipients, voided>>

(* Second critical section: ConnectForced whatever happened in between.    *)
Connect(c) ==
    LET d == task[c].dev
        ch == task[c].chan
    IN  /\ task[c].step = "connect"
        /\ owner' = SetOwner(d, ch, c)
        /\ task' = [task EXCEPT ![c] =
                      IF SetOwnerResult(d, ch) = "TRUE"
                        THEN At("call", d, ch, "TRUE")
                        ELSE Reply(SetOwnerResult(d, ch))]
        /\ voided' = IF SetOwnerResult(d, ch) # "TRUE" THEN voided \ {c}
                     ELSE IF c \in voided THEN voided \cup Users(d, ch)
                     ELSE voided
        /\ UNCHANGED <<clientVars, devices, recipients>>

(* The library call of a premoderated or sending command, under no lock.   *)
CallLibrary(c) ==
    /\ task[c].step \in {"call", "write"}
    /\ task' = [task EXCEPT ![c] = Reply("LIB")]
    /\ voided' = voided \ {c}
    /\ UNCHANGED <<clientVars, devices, owner, recipients>>

(* Send429WordsRaw and Send708WordsRaw test the BOOL for non-zero, so an   *)
(* error code lets the words through.                                      *)
SendWords(c, d, ch) ==
    /\ Receives(c)
    /\ owner' = Claim(c, d, {ch})
    /\ task' = [task EXCEPT ![c] =
                  IF Available(c, d, ch) = "FALSE"
                    THEN Reply("ACCESS_DENIED")
                    ELSE At("write", d, ch, Available(c, d, ch))]
    /\ UNCHANGED <<clientVars, devices, recipients, voided>>

(* Receive*WordsRaw: one critical section, library call included; it needs *)
(* no ownership and leaves the client registered as a reader.              *)
ReceiveWords(c, d, ch) ==
    /\ Receives(c)
    /\ recipients' = IF d \in devices /\ ch \in InChannel
                       THEN [recipients EXCEPT ![d][ch] = @ \cup {c}]
                       ELSE recipients
    /\ task' = [task EXCEPT ![c] =
                  Reply(IF d \notin devices THEN "DEVICE_NOT_AVAILABLE"
                        ELSE IF ch \notin InChannel THEN "INVALID_CHANNEL_NUMBER"
                        ELSE "LIB")]
    /\ UNCHANGED <<clientVars, devices, owner, voided>>

(* Ping, the device list, versions and the unmoderated library calls.      *)
PlainCommand(c) ==
    /\ Receives(c)
    /\ task' = [task EXCEPT ![c] = Reply("LIB")]
    /\ UNCHANGED <<clientVars, devices, owner, recipients, voided>>

(* An unknown command leaves totalbytes at zero: the reply is empty.       *)
WrongCommand(c) ==
    /\ Receives(c)
    /\ task' = [task EXCEPT ![c] = Reply("EMPTY")]
    /\ UNCHANGED <<clientVars, devices, owner, recipients, voided>>

-----------------------------------------------------------------------------
(* Devices.  emplace keeps the VirtualDevice that is already there.        *)
AddDevice(d) ==
    /\ devices' = devices \cup {d}
    /\ owner' = IF d \in devices THEN owner
                ELSE [owner EXCEPT ![d] = FreshOwners]
    /\ recipients' = IF d \in devices THEN recipients
                     ELSE [recipients EXCEPT ![d] = FreshRecipients]
    /\ UNCHANGED <<clientVars, task, voided>>

RemoveDevice(d) ==
    /\ d \in Unpluggable
    /\ devices' = devices \ {d}
    /\ owner' = [owner EXCEPT ![d] = FreshOwners]
    /\ recipients' = [recipients EXCEPT ![d] = FreshRecipients]
    /\ voided' = voided \cup UsersOf(d)
    /\ UNCHANGED <<clientVars, task>>

-----------------------------------------------------------------------------
(* What the server does once it has something to do for c.                 *)
Serve(c) ==
    \/ Check(c)
    \/ Connect(c)
    \/ CallLibrary(c)
    \/ ReplySent(c)
    \/ ReplySentMistaken(c)
    \/ DropClient(c)
    \/ RemoveDoomed(c)

(* What c asks for.                                                        *)
Request(c) ==
    \/ Disconnect(c)
    \/ PlainCommand(c)
    \/ WrongCommand(c)
    \/ \E d \in Device :
         \/ GetChannelStates(c, d, InChannel)
         \/ GetChannelStates(c, d, OutChannel)
         \/ \E ch \in Channel \cup {BadChannel} :
              \/ ReleaseChannel(c, d, ch)
              \/ ConnectForced(c, d, ch)
              \/ Configure(c, d, ch)
         \/ \E ch \in InChannel \cup {BadChannel} :
              \/ ResetIn(c, d, ch)
              \/ ReceiveWords(c, d, ch)
         \/ \E ch \in OutChannel \cup {BadChannel} :
              SendWords(c, d, ch)

Next ==
    \/ \E c \in Client :
         \/ Accept(c)
         \/ AcceptFails(c)
         \/ AddToClientList(c)
         \/ PeerLeaves(c)
         \/ Serve(c)
         \/ Request(c)
    \/ \E d \in Device : AddDevice(d) \/ RemoveDevice(d)

Spec == Init /\ [][Next]_vars

(* Workers run, take every packet that is in the port, and return from     *)
(* every library call; operations on the socket of a removed client fail,  *)
(* and those of a client whose end has reached the server complete.        *)
(* Nothing is assumed of a client that is there, not even that it reads    *)
(* its reply, of the devices, or of when a mistaken removal strikes.       *)
Fairness ==
    \A c \in Client :
        /\ WF_vars(Check(c) \/ Connect(c) \/ CallLibrary(c))
        /\ WF_vars(task[c].step = "late" /\ (Request(c) \/ DropClient(c)))
        /\ WF_vars(session[c] = "removed" /\ DropClient(c))
        /\ WF_vars(c \in gone /\ (ReplySent(c) \/ ReplySentMistaken(c) \/ DropClient(c)))

FairSpec == Spec /\ Fairness

-----------------------------------------------------------------------------
(* Safety.                                                                 *)

(* The context of a connection that is being served belongs to _clientsMap *)
(* or to the accept thread, whichever of the two the first completions     *)
(* overtake: RemoveClient or the clean-up at the end finds it, and no      *)
(* connection is served that nobody could remove.                          *)
ContextOwned ==
    \A c \in Client :
        session[c] = "open" => c \in clientsMap \/ acceptor = c

(* A channel is owned, and read, only by clients being served and by       *)
(* clients that were removed by mistake while a command of theirs was in   *)
(* the port or under way: such a command may take a channel back, and its  *)
(* reply, which fails, ends in RemoveClient once more.  Nothing rests on a *)
(* client for which no worker is acting.                                   *)
Acting(c) == session[c] = "open" \/ task[c].step \notin {"idle", "late"}

NoOrphanLease ==
    \A d \in Device :
        /\ \A ch \in Channel : owner[d][ch] # NoOwner => Acting(owner[d][ch])
        /\ \A ch \in InChannel : \A c \in recipients[d][ch] : Acting(c)

(* The check, ConnectForced and the library call of a command are separate *)
(* critical sections, yet the client owns the channel through all of them. *)
(* It loses it only when its device is unplugged, when it is itself        *)
(* removed, when another client sends ConnectForced, or when a command     *)
(* that has lost its own channel in one of these ways goes on with the     *)
(* unconditional ConnectForced inside it.                                  *)
ExclusiveUse ==
    \A c \in Client \ voided, d \in Device, ch \in Channel :
        Uses(c, d, ch) => owner[d][ch] = c

(* Owners change only as leases do.                                        *)
Lease == INSTANCE ChannelLease WITH
            live <- {c \in Client : session[c] = "open" \/ task[c].step # "idle"},
            overtaken <- voided,
            lease <- owner

(* The server implements the lease specification: in particular the        *)
(* unconditional ConnectForced inside a premoderated command takes an      *)
(* unforceable channel from another client only when the command itself    *)
(* has been overtaken by the loss of its channel.                          *)
LeaseRefinement == Lease!LeaseSpec

-----------------------------------------------------------------------------
(* Liveness.                                                               *)

(* Every channel of a client whose end has reached the server, or that was *)
(* removed for whatever reason, becomes available to others and stays so,  *)
(* whatever the server was doing for the client at that moment.            *)
LeasesReclaimed ==
    \A c \in Client :
        c \in gone \/ session[c] = "removed" ~>
            [](\A d \in Device :
                 /\ \A ch \in Channel : owner[d][ch] # c
                 /\ \A ch \in InChannel : c \notin recipients[d][ch])

-----------------------------------------------------------------------------
(* What the comments of the code say and the code does not do.             *)

(* SccServerIOCP.h: _clientsMap is the "Map with connected and working     *)
(* clients".                                                               *)
MapHoldsWorking == \A c \in clientsMap : session[c] = "open"

(* SccTcpMediator.h, of the commands Set* and Reset*: "If the function     *)
(* fails, the return value is negative error code.  If the function        *)
(* succeeds, the return value is zero."  A command that is answered        *)
(* without the library having been called has failed.                      *)
DeniedIsError ==
    [][\A c \in Client :
          task[c].step = "check" /\ task'[c].step = "reply"
            => task'[c].answer \in ErrorCode]_vars

(* SccServerIOCP.h, of IsChannelAvaliableFor: "Return TRUE on success,     *)
(* error code on failure".  Words go to the library only on success.       *)
SendIsModerated ==
    \A c \in Client : task[c].step = "write" => task[c].answer = "TRUE"

(* SccServerIOCP.h, of GetChannelSatesIn and GetChannelSatesOut: the       *)
(* functions return which channels are available or in use; asking is not  *)
(* using, so the answer to a question leaves every owner as it was.        *)
QueryOnlyReports ==
    [][\A c \in Client :
          task[c].step = "idle" /\ task'[c].answer = "STATES" => owner' = owner]_vars
=============================================================================
