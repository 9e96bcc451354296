------------------------------ MODULE Mediator ------------------------------
(***************************************************************************)
(* SccMediator, the client library: its two reconnection threads, the      *)
(* thread that listens for device notifications, the three manual reset    *)
(* events they wait on, the program's threads that call the server, and    *)
(* Stop.  The events and the online flags are written without a lock, so   *)
(* every write of one is a step of its own.                                *)
(*                                                                         *)
(* What travels over a stream is in RequestReply.                          *)
(***************************************************************************)
EXTENDS Naturals, FiniteSets

CONSTANTS
    Thread,     \* threads of the program that call the server
    NoThread,   \* the mutex _iostreamMapMutex is free
    Handler,    \* functions the program sets for the notifications
    NoHandler,
    Mishap,     \* what may end the notification thread: a subset of Mishaps
    Flaky       \* the server may be unreachable

\* A host name too long to be converted; a datagram shorter than its header; one
\* with another command.
Mishaps == {"longName", "shortDatagram", "otherCommand"}

ASSUME NoThreadAssumption == NoThread \notin Thread
ASSUME NoHandlerAssumption == NoHandler \notin Handler
ASSUME EnvironmentAssumption == Mishap \subseteq Mishaps /\ Flaky \in BOOLEAN

VARIABLES
    main,          \* progress of Start and Stop
    shutdown,      \* _shutdownEvent
    offlineTcp,    \* _offlineTcpEvent
    offlineUdp,    \* _offlineUdpEvent
    tcpOnline,     \* _isTcpOnline
    udpOnline,     \* _isUdpOnline
    tcp,           \* progress of ReconnectTcp
    udp,           \* progress of ReconnectUdp
    notifier,      \* progress of DeviceNotificationThread
    listener,      \* udpListener is not null
    caller,        \* progress of each calling thread
    mutex,         \* holder of _iostreamMapMutex
    streams,       \* keys of _iostreamMap
    handler,       \* deviceAddedHandlers
    wanted         \* history: the handler each thread has set last

events == <<shutdown, offlineTcp, offlineUdp>>
udpVars == <<udp, udpOnline, notifier, listener>>
callVars == <<caller, mutex, streams, handler, wanted>>
vars == <<main, events, tcpOnline, tcp, udpVars, callVars>>

Loop == {"none", "outer", "inner", "check", "online", "reset", "spawn", "done"}

TypeOK ==
    /\ main \in {"new", "running", "setTcp", "setUdp", "joinNotifier", "joinTcp",
                 "joinUdp", "stopped", "crashed"}
    /\ {shutdown, offlineTcp, offlineUdp, tcpOnline, udpOnline, listener} \subseteq BOOLEAN
    /\ tcp \in Loop /\ udp \in Loop
    /\ notifier \in {"none", "listening", "closed", "offline", "ended", "joined"}
    /\ caller \in [Thread -> {"idle", "connect", "failed"}]
    /\ mutex \in Thread \cup {NoThread}
    /\ streams \subseteq Thread
    /\ handler \in [Thread -> Handler \cup {NoHandler}]
    /\ wanted \in [Thread -> Handler \cup {NoHandler}]

Init ==
    /\ main = "new"
    /\ shutdown = FALSE
    /\ offlineTcp = TRUE
    /\ offlineUdp = TRUE
    /\ tcpOnline = FALSE
    /\ udpOnline = FALSE
    /\ tcp = "none"
    /\ udp = "none"
    /\ notifier = "none"
    /\ listener = FALSE
    /\ caller = [t \in Thread |-> "idle"]
    /\ mutex = NoThread
    /\ streams = {}
    /\ handler = [t \in Thread |-> NoHandler]
    /\ wanted = [t \in Thread |-> NoHandler]

(* A thread object that still has its thread to be joined.                 *)
Joinable == notifier \in {"listening", "closed", "offline", "ended"}

-----------------------------------------------------------------------------
Start ==
    /\ main = "new"
    /\ main' = "running"
    /\ tcp' = "outer"
    /\ udp' = "outer"
    /\ UNCHANGED <<events, tcpOnline, udpOnline, notifier, listener, callVars>>

(* Stop: three events, then the joins.                                     *)
StopShutdown ==
    /\ main = "running"
    /\ shutdown' = TRUE
    /\ main' = "setTcp"
    /\ UNCHANGED <<offlineTcp, offlineUdp, tcpOnline, tcp, udpVars, callVars>>

\* Fault: the thread is left to find the shutdown event by itself.
StopTcpUnset ==
    /\ main = "setTcp"
    /\ main' = "setUdp"
    /\ UNCHANGED <<events, tcpOnline, tcp, udpVars, callVars>>

StopTcp ==
    /\ main = "setTcp"
    /\ offlineTcp' = TRUE
    /\ main' = "setUdp"
    /\ UNCHANGED <<shutdown, offlineUdp, tcpOnline, tcp, udpVars, callVars>>

StopUdp ==
    /\ main = "setUdp"
    /\ offlineUdp' = TRUE
    /\ main' = "joinNotifier"
    /\ UNCHANGED <<shutdown, offlineTcp, tcpOnline, tcp, udpVars, callVars>>

(* A notification thread that is not there yet is not waited for.          *)
JoinNotifier ==
    /\ main = "joinNotifier"
    /\ notifier \in {"none", "ended"}
    /\ notifier' = IF notifier = "ended" THEN "joined" ELSE notifier
    /\ main' = "joinTcp"
    /\ UNCHANGED <<events, tcpOnline, tcp, udp, udpOnline, listener, callVars>>

JoinTcp ==
    /\ main = "joinTcp"
    /\ tcp = "done"
    /\ main' = "joinUdp"
    /\ UNCHANGED <<events, tcpOnline, tcp, udpVars, callVars>>

(* The last join.  Stop is called by the destructor: the streams go        *)
(* without _iostreamMapMutex, then the thread objects, and one that has    *)
(* not been joined ends the program.                                       *)
JoinUdp ==
    /\ main = "joinUdp"
    /\ udp = "done"
    /\ main' = IF Joinable THEN "crashed" ELSE "stopped"
    /\ streams' = {}
    /\ UNCHANGED <<events, tcpOnline, tcp, udpVars, caller, mutex, handler, wanted>>

-----------------------------------------------------------------------------
(* ReconnectTcp and ReconnectUdp have the same two loops.                  *)
LoopStep(pc, offline, next) ==
    \/ pc = "outer" /\ next = (IF shutdown THEN "done" ELSE "inner")
    \/ pc = "inner" /\ offline /\ next = "check"
    \/ pc = "check" /\ shutdown /\ next = "outer"

Steps == {"outer", "inner", "check", "done"}

TcpLoop ==
    /\ main # "crashed"
    /\ \E next \in Steps : LoopStep(tcp, offlineTcp, next) /\ tcp' = next
    /\ UNCHANGED <<main, events, tcpOnline, udpVars, callVars>>

(* The event has not been set for 300 ms: connect, and then two writes.    *)
TcpConnect ==
    /\ main # "crashed"
    /\ tcp = "check"
    /\ ~shutdown
    /\ tcp' = "online"
    /\ UNCHANGED <<main, events, tcpOnline, udpVars, callVars>>

TcpConnectFails ==
    /\ main # "crashed"
    /\ Flaky
    /\ tcp = "check"
    /\ ~shutdown
    /\ tcp' = "inner"
    /\ UNCHANGED <<main, events, tcpOnline, udpVars, callVars>>

TcpOnline ==
    /\ main # "crashed"
    /\ tcp = "online"
    /\ tcpOnline' = TRUE
    /\ tcp' = "reset"
    /\ UNCHANGED <<main, events, udpVars, callVars>>

TcpReset ==
    /\ main # "crashed"
    /\ tcp = "reset"
    /\ offlineTcp' = FALSE
    /\ tcp' = "inner"
    /\ UNCHANGED <<main, shutdown, offlineUdp, tcpOnline, udpVars, callVars>>

UdpLoop ==
    /\ main # "crashed"
    /\ \E next \in Steps : LoopStep(udp, offlineUdp, next) /\ udp' = next
    /\ UNCHANGED <<main, events, tcpOnline, tcp, udpOnline, notifier, listener, callVars>>

UdpConnect ==
    /\ main # "crashed"
    /\ udp = "check"
    /\ ~shutdown
    /\ listener' = TRUE
    /\ udp' = "online"
    /\ UNCHANGED <<main, events, tcpOnline, tcp, udpOnline, notifier, callVars>>

UdpConnectFails ==
    /\ main # "crashed"
    /\ Flaky
    /\ udp = "check"
    /\ ~shutdown
    /\ listener' = FALSE
    /\ udp' = "inner"
    /\ UNCHANGED <<main, events, tcpOnline, tcp, udpOnline, notifier, callVars>>

UdpOnline ==
    /\ main # "crashed"
    /\ udp = "online"
    /\ udpOnline' = TRUE
    /\ udp' = "reset"
    /\ UNCHANGED <<main, events, tcpOnline, tcp, notifier, listener, callVars>>

\* Fault: the event stays set.
UdpResetForgotten ==
    /\ main # "crashed"
    /\ udp = "reset"
    /\ udp' = "spawn"
    /\ UNCHANGED <<main, events, tcpOnline, tcp, udpOnline, notifier, listener, callVars>>

UdpReset ==
    /\ main # "crashed"
    /\ udp = "reset"
    /\ offlineUdp' = FALSE
    /\ udp' = "spawn"
    /\ UNCHANGED <<main, shutdown, offlineTcp, tcpOnline, tcp, udpOnline, notifier,
                   listener, callVars>>

(* A thread is assigned to _deviceNotificationThread; if that still holds  *)
(* one that has not been joined, std::terminate ends the program.          *)
UdpSpawn ==
    /\ main # "crashed"
    /\ udp = "spawn"
    /\ udp' = "inner"
    /\ IF Joinable THEN main' = "crashed" /\ UNCHANGED notifier
                   ELSE notifier' = "listening" /\ UNCHANGED main
    /\ UNCHANGED <<events, tcpOnline, tcp, udpOnline, listener, callVars>>

-----------------------------------------------------------------------------
\* Fault: the stream is left to the next connection.
NotifierClosesNothing ==
    /\ main # "crashed"
    /\ notifier = "listening"
    /\ notifier' = "closed"
    /\ UNCHANGED <<main, events, tcpOnline, tcp, udp, udpOnline, listener, callVars>>

(* DeviceNotificationThread: the end of it, with its stream, ...           *)
NotifierCloses ==
    /\ main # "crashed"
    /\ notifier = "listening"
    /\ listener' = FALSE
    /\ notifier' = "closed"
    /\ UNCHANGED <<main, events, tcpOnline, tcp, udp, udpOnline, callVars>>

(* ... which comes with the shutdown event, ...                            *)
NotifierStops == shutdown /\ NotifierCloses

(* ... or before: at once, if the text of the host name does not fit, or   *)
(* at a datagram with too few bytes to copy or with another command.       *)
NotifierFails == Mishap # {} /\ NotifierCloses

NotifierOffline ==
    /\ main # "crashed"
    /\ notifier = "closed"
    /\ udpOnline' = FALSE
    /\ notifier' = "offline"
    /\ UNCHANGED <<main, events, tcpOnline, tcp, udp, listener, callVars>>

\* Fault: the thread leaves without a word when the shutdown event is set.
NotifierSilent ==
    /\ main # "crashed"
    /\ notifier = "offline"
    /\ notifier' = "ended"
    /\ offlineUdp' = (offlineUdp \/ ~shutdown)
    /\ UNCHANGED <<main, shutdown, offlineTcp, tcpOnline, tcp, udp, udpOnline, listener, callVars>>

NotifierEnds ==
    /\ main # "crashed"
    /\ notifier = "offline"
    /\ offlineUdp' = TRUE
    /\ notifier' = "ended"
    /\ UNCHANGED <<main, shutdown, offlineTcp, tcpOnline, tcp, udp, udpOnline, listener, callVars>>

-----------------------------------------------------------------------------
(* A calling thread.                                                       *)

(* Send under the mutex, with no stream yet and the flag saying online;    *)
(* with a stream, or offline, nothing of this module changes.              *)
CallConnects(t) ==
    /\ main # "crashed"
    /\ caller[t] = "idle"
    /\ mutex = NoThread
    /\ t \notin streams
    /\ tcpOnline
    /\ mutex' = t
    /\ caller' = [caller EXCEPT ![t] = "connect"]
    /\ UNCHANGED <<main, events, tcpOnline, tcp, udpVars, streams, handler, wanted>>

\* Fault: the stream is kept under the id of no thread.
ConnectedNoId(t) ==
    /\ main # "crashed"
    /\ caller[t] = "connect"
    /\ streams' = streams \cup {NoThread}
    /\ mutex' = NoThread
    /\ caller' = [caller EXCEPT ![t] = "idle"]
    /\ UNCHANGED <<main, events, tcpOnline, tcp, udpVars, handler, wanted>>

(* CreateStreamIfNotExist succeeds ...                                     *)
Connected(t) ==
    /\ main # "crashed"
    /\ caller[t] = "connect"
    /\ streams' = streams \cup {t}
    /\ mutex' = NoThread
    /\ caller' = [caller EXCEPT ![t] = "idle"]
    /\ UNCHANGED <<main, events, tcpOnline, tcp, udpVars, handler, wanted>>

(* ... or fails: the flag first, then the event.                           *)
ConnectFails(t) ==
    /\ main # "crashed"
    /\ Flaky
    /\ caller[t] = "connect"
    /\ tcpOnline' = FALSE
    /\ caller' = [caller EXCEPT ![t] = "failed"]
    /\ UNCHANGED <<main, events, tcp, udpVars, mutex, streams, handler, wanted>>

ReportOffline(t) ==
    /\ main # "crashed"
    /\ caller[t] = "failed"
    /\ offlineTcp' = TRUE
    /\ mutex' = NoThread
    /\ caller' = [caller EXCEPT ![t] = "idle"]
    /\ UNCHANGED <<main, shutdown, offlineUdp, tcpOnline, tcp, udpVars, streams,
                   handler, wanted>>

(* A call that times out or finds the connection closed: the stream goes,  *)
(* and with it the thread's handlers.                                      *)
RemoveIOThread(t) ==
    /\ main # "crashed"
    /\ caller[t] = "idle"
    /\ mutex = NoThread
    /\ t \in streams
    /\ streams' = streams \ {t}
    /\ handler' = [handler EXCEPT ![t] = NoHandler]
    /\ UNCHANGED <<main, events, tcpOnline, tcp, udpVars, caller, mutex, wanted>>

(* Disconnect, asked for by the program.                                   *)
Disconnect(t) ==
    /\ main # "crashed"
    /\ caller[t] = "idle"
    /\ mutex = NoThread
    /\ t \in streams
    /\ streams' = streams \ {t}
    /\ handler' = [handler EXCEPT ![t] = NoHandler]
    /\ wanted' = [wanted EXCEPT ![t] = NoHandler]
    /\ UNCHANGED <<main, events, tcpOnline, tcp, udpVars, caller, mutex>>

(* SetDeviceAttachedHandler: insert keeps a handler that is there.         *)
SetHandler(t, h) ==
    /\ main # "crashed"
    /\ caller[t] = "idle"
    /\ handler' = [handler EXCEPT ![t] = IF @ = NoHandler THEN h ELSE @]
    /\ wanted' = [wanted EXCEPT ![t] = h]
    /\ UNCHANGED <<main, events, tcpOnline, tcp, udpVars, caller, mutex, streams>>

-----------------------------------------------------------------------------
StopStep == StopTcp \/ StopUdp \/ JoinNotifier \/ JoinTcp \/ JoinUdp

TcpStep == TcpLoop \/ TcpConnect \/ TcpConnectFails \/ TcpOnline \/ TcpReset

UdpStep == UdpLoop \/ UdpConnect \/ UdpConnectFails \/ UdpOnline \/ UdpReset \/ UdpSpawn

NotifierRuns == NotifierStops \/ NotifierOffline \/ NotifierEnds

NotifierStep == NotifierRuns \/ NotifierFails

CallStep(t) == Connected(t) \/ ConnectFails(t) \/ ReportOffline(t)

Next ==
    \/ Start
    \/ StopShutdown
    \/ StopStep
    \/ TcpStep
    \/ UdpStep
    \/ NotifierStep
    \/ \E t \in Thread :
         \/ CallStep(t)
         \/ CallConnects(t) \/ RemoveIOThread(t) \/ Disconnect(t)
         \/ \E h \in Handler : SetHandler(t, h)

Spec == Init /\ [][Next]_vars

(* The library's threads run, a call that is under way comes to its end,   *)
(* and Stop goes on once it is called; no mishap ever has to happen.       *)
Fairness ==
    /\ WF_vars(StopStep)
    /\ WF_vars(TcpStep)
    /\ WF_vars(UdpStep)
    /\ WF_vars(NotifierRuns)
    /\ \A t \in Thread : WF_vars(CallStep(t))

FairSpec == Spec /\ Fairness

-----------------------------------------------------------------------------
(* A notification thread that will still set the event.                    *)
Live == notifier \in {"listening", "closed", "offline"}

(* When ReconnectUdp sleeps, somebody will wake it: there is a thread that *)
(* listens, and that will set the event when it ends.                      *)
SomebodyListens ==
    main # "crashed" /\ udp = "inner" /\ ~offlineUdp => Live

(* udpListener is used, and deleted, by one thread at a time: while the    *)
(* notification thread listens it is there, and otherwise nobody but       *)
(* ReconnectUdp on its way to start that thread has one.                   *)
ListenerOwned ==
    main # "crashed" =>
        /\ notifier = "listening" => listener
        /\ listener => notifier = "listening" \/ udp \in {"online", "reset", "spawn"}

(* A std::thread that still has its thread to be joined is overwritten, or *)
(* destroyed by the destructor, never while ReconnectUdp is at work and    *)
(* that thread listens: the thread has ended, or Stop has overtaken it.    *)
OverwritesOnlyEnded == main = "crashed" => notifier = "ended" \/ udp = "done"

(* A ReconnectTcp that sleeps when Stop comes to its event ends (one that  *)
(* is connecting may not); so does a thread that listens, and ReconnectUdp *)
(* in every case.                                                          *)
SleepersWake ==
    /\ (main = "setTcp" /\ tcp = "inner") ~> (tcp = "done" \/ main = "crashed")
    /\ (shutdown /\ Live) ~> (~Live \/ main = "crashed")
    /\ shutdown ~> (udp = "done" \/ main = "crashed")

(* What Stop waits for goes on: the thread it joins can take a step, or    *)
(* sleeps for a notification thread that can.  ReconnectTcp alone has      *)
(* nobody to wake it once it has reset the event after Stop set it.        *)
Asleep(pc, offline) == pc \in {"none", "done"} \/ (pc = "inner" /\ ~offline)

StopNeverStuck ==
    /\ main = "joinNotifier" => shutdown /\ (notifier \in {"none", "ended"} \/ Live)
    /\ main = "joinTcp" /\ Asleep(tcp, offlineTcp) => tcp \in {"inner", "done"}
    /\ main = "joinUdp" /\ Asleep(udp, offlineUdp) => shutdown /\ (udp = "done" \/ Live)

(* And the threads run down: once the shutdown event is set it stays set,  *)
(* every step of a reconnection thread brings it nearer to its end, and so *)
(* does every step of the notification thread, but that ReconnectUdp may   *)
(* still start one on its own way there.  A ReconnectTcp with no reset of  *)
(* the event before it never sleeps again.                                 *)
LoopLeft == [none |-> 7, online |-> 6, reset |-> 5, spawn |-> 4, inner |-> 3,
             check |-> 2, outer |-> 1, done |-> 0]
NotifierLeft == [none |-> 5, listening |-> 4, closed |-> 3, offline |-> 2,
                 ended |-> 1, joined |-> 0]

RunsDown ==
    [][shutdown =>
         /\ shutdown'
         /\ tcp' # tcp => LoopLeft[tcp'] < LoopLeft[tcp]
         /\ udp' # udp => LoopLeft[udp'] < LoopLeft[udp]
         /\ notifier' # notifier =>
              \/ NotifierLeft[notifier'] < NotifierLeft[notifier]
              \/ LoopLeft[udp'] < LoopLeft[udp]
         /\ offlineTcp /\ LoopLeft[tcp] < LoopLeft["reset"] => offlineTcp']_vars

(* One calling thread at a time is between taking and releasing            *)
(* _iostreamMapMutex, and only the one that holds it: a failed connection  *)
(* writes the flag and the event with no other call in between.            *)
CallersTakeTurns == \A t \in Thread : caller[t] # "idle" <=> mutex = t

(* The program does not end in std::terminate.                             *)
NeverTerminates == main # "crashed"

(* SccMediator.cpp, before the loop that tests the shutdown event: "On     *)
(* client shutdown".  When the shutdown event is set ReconnectTcp ends.    *)
TcpEndsOnShutdown == shutdown ~> (tcp = "done" \/ main = "crashed")

(* SccMediator.cpp, in the loop that waits for the offline event: "Try to  *)
(* connect to server using TCP".  A library that is offline tries again.   *)
OfflineTriesAgain ==
    ~tcpOnline ~> (tcpOnline \/ tcp = "check" \/ shutdown \/ main \in {"new", "crashed"})

(* SccMediator.cpp, of the notification thread: "Listen untill client      *)
(* raise shutdown event".                                                  *)
ListensUntilShutdown == notifier \in {"closed", "offline", "ended"} => shutdown

(* SccMediator.h, of SetDeviceDetachedHandler and its fellow: it "sets the *)
(* function to handle the event".  The function set last is the one that   *)
(* is called, until the thread disconnects.                                *)
HandlerInForce == \A t \in Thread : handler[t] = wanted[t]
=============================================================================
