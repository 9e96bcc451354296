---------------------------- MODULE Mediator_proofs ----------------------------
(***************************************************************************)
(* Theorems about Mediator, for any number of calling threads and          *)
(* handlers, with or without mishaps of the notification thread and a      *)
(* server that comes and goes.                                             *)
(***************************************************************************)
EXTENDS Mediator, TLAPS

-----------------------------------------------------------------------------
(* Types                                                                   *)

LEMMA InitTypes == Init => TypeOK
BY DEF Init, TypeOK, Loop

LEMMA TypeStep == TypeOK /\ [Next]_vars => TypeOK'
<1> SUFFICES ASSUME TypeOK, [Next]_vars PROVE TypeOK'
  OBVIOUS
<1> USE DEF TypeOK, events, udpVars, callVars
<1>1. CASE Start
  BY <1>1 DEF Start, Loop
<1>2. CASE StopShutdown
  BY <1>2 DEF StopShutdown
<1>3. CASE StopStep
  <2>1. CASE StopTcp \/ StopUdp
    BY <2>1 DEF StopTcp, StopUdp
  <2>2. CASE JoinNotifier
    BY <2>2 DEF JoinNotifier
  <2>3. CASE JoinTcp
    BY <2>3 DEF JoinTcp
  <2>4. CASE JoinUdp
    BY <2>4 DEF JoinUdp
  <2>5. QED
    BY <1>3, <2>1, <2>2, <2>3, <2>4 DEF StopStep
<1>4. CASE TcpStep
  <2>1. CASE TcpLoop
    BY <2>1 DEF TcpLoop, Steps, Loop
  <2>2. CASE TcpConnect \/ TcpConnectFails
    BY <2>2 DEF TcpConnect, TcpConnectFails, Loop
  <2>3. CASE TcpOnline \/ TcpReset
    BY <2>3 DEF TcpOnline, TcpReset, Loop
  <2>4. QED
    BY <1>4, <2>1, <2>2, <2>3 DEF TcpStep
<1>5. CASE UdpStep
  <2>1. CASE UdpLoop
    BY <2>1 DEF UdpLoop, Steps, Loop
  <2>2. CASE UdpConnect \/ UdpConnectFails
    BY <2>2 DEF UdpConnect, UdpConnectFails, Loop
  <2>3. CASE UdpOnline \/ UdpReset
    BY <2>3 DEF UdpOnline, UdpReset, Loop
  <2>4. CASE UdpSpawn
    BY <2>4 DEF UdpSpawn, Loop
  <2>5. QED
    BY <1>5, <2>1, <2>2, <2>3, <2>4 DEF UdpStep
<1>6. CASE NotifierStep
  BY <1>6 DEF NotifierStep, NotifierRuns, NotifierStops, NotifierFails, NotifierCloses,
      NotifierOffline, NotifierEnds
<1>7. ASSUME NEW t \in Thread, CallStep(t)
      PROVE  TypeOK'
  BY <1>7 DEF CallStep, Connected, ConnectFails, ReportOffline
<1>8. ASSUME NEW t \in Thread,
             CallConnects(t) \/ RemoveIOThread(t) \/ Disconnect(t)
      PROVE  TypeOK'
  BY <1>8 DEF CallConnects, RemoveIOThread, Disconnect
<1>9. ASSUME NEW t \in Thread, NEW h \in Handler, SetHandler(t, h)
      PROVE  TypeOK'
  BY <1>9 DEF SetHandler
<1>10. CASE UNCHANGED vars
  BY <1>10 DEF vars
<1>11. QED
  BY <1>1, <1>2, <1>3, <1>4, <1>5, <1>6, <1>7, <1>8, <1>9, <1>10 DEF Next

(* The variables of the client library keep their types.                   *)
THEOREM TypeCorrect == Spec => []TypeOK
BY InitTypes, TypeStep, PTL DEF Spec

-----------------------------------------------------------------------------
(* ReconnectUdp and the notification thread                                *)

(* The threads begin with Start, and Stop begins with the shutdown         *)
(* event.                                                                  *)
ShutdownFirst ==
    /\ main = "new" => udp = "none"
    /\ main \in {"setTcp", "setUdp", "joinNotifier", "joinTcp", "joinUdp", "stopped"}
       => shutdown

(* The offline event is reset once a connection, just before the new       *)
(* notification thread is made, and after that only the end of that        *)
(* thread or Stop sets it: so nobody listens while the event is set,       *)
(* unless Stop has set it, and nobody listens while ReconnectUdp has a     *)
(* new connection at hand.                                                 *)
TakesTurns ==
    main # "crashed" =>
        /\ ~offlineUdp => udp = "spawn" \/ (udp = "inner" /\ Live)
        /\ udp \in {"online", "reset", "spawn"} => listener /\ ~Live
        /\ udp # "spawn" /\ offlineUdp /\ ~shutdown => ~Live
        /\ udp = "spawn" /\ offlineUdp => shutdown

NotifierInv == ShutdownFirst /\ TakesTurns /\ ListenerOwned /\ OverwritesOnlyEnded

LEMMA InitNotifier == Init => NotifierInv
BY DEF Init, NotifierInv, ShutdownFirst, TakesTurns, Live, ListenerOwned, OverwritesOnlyEnded

LEMMA NotifierInvStep == TypeOK /\ NotifierInv /\ [Next]_vars => NotifierInv'
<1> SUFFICES ASSUME TypeOK, NotifierInv, [Next]_vars PROVE NotifierInv'
  OBVIOUS
<1> USE DEF TypeOK, NotifierInv, ShutdownFirst, TakesTurns, Live, ListenerOwned,
            OverwritesOnlyEnded, events, udpVars
<1>1. CASE Start
  BY <1>1 DEF Start
<1>2. CASE StopShutdown
  BY <1>2 DEF StopShutdown
<1>3. CASE StopStep
  <2>1. CASE StopTcp \/ StopUdp
    BY <2>1 DEF StopTcp, StopUdp
  <2>2. CASE JoinNotifier \/ JoinTcp
    BY <2>2 DEF JoinNotifier, JoinTcp
  <2>3. CASE JoinUdp
    BY <2>3 DEF JoinUdp
  <2>4. QED
    BY <1>3, <2>1, <2>2, <2>3 DEF StopStep
<1>4. CASE TcpStep
  BY <1>4 DEF TcpStep, TcpLoop, TcpConnect, TcpConnectFails, TcpOnline, TcpReset
<1>5. CASE UdpStep
  <2>1. CASE UdpLoop
    BY <2>1 DEF UdpLoop, LoopStep
  <2>2. CASE UdpConnect \/ UdpConnectFails
    BY <2>2 DEF UdpConnect, UdpConnectFails
  <2>3. CASE UdpOnline \/ UdpReset
    BY <2>3 DEF UdpOnline, UdpReset
  <2>4. CASE UdpSpawn
    BY <2>4 DEF UdpSpawn, Joinable
  <2>5. QED
    BY <1>5, <2>1, <2>2, <2>3, <2>4 DEF UdpStep
<1>6. CASE NotifierStep
  BY <1>6 DEF NotifierStep, NotifierRuns, NotifierStops, NotifierFails, NotifierCloses,
      NotifierOffline, NotifierEnds
<1>7. ASSUME NEW t \in Thread,
             \/ CallStep(t) \/ CallConnects(t) \/ RemoveIOThread(t) \/ Disconnect(t)
             \/ \E h \in Handler : SetHandler(t, h)
      PROVE  NotifierInv'
  <2>1. UNCHANGED <<main, shutdown, offlineUdp, udp, notifier, listener>>
    BY <1>7 DEF CallStep, Connected, ConnectFails, ReportOffline, CallConnects,
                RemoveIOThread, Disconnect, SetHandler
  <2>2. QED
    BY <2>1
<1>8. CASE UNCHANGED vars
  BY <1>8 DEF vars
<1>9. QED
  BY <1>1, <1>2, <1>3, <1>4, <1>5, <1>6, <1>7, <1>8 DEF Next

LEMMA NotifierAlways == Spec => []NotifierInv
BY InitTypes, TypeStep, InitNotifier, NotifierInvStep, PTL DEF Spec

(* A ReconnectUdp that sleeps has a thread that will wake it.              *)
THEOREM SomebodyIsListening == Spec => []SomebodyListens
<1>1. NotifierInv => SomebodyListens
  BY DEF NotifierInv, TakesTurns, SomebodyListens
<1>2. QED
  BY <1>1, NotifierAlways, PTL

(* One thread at a time uses, and deletes, the UDP stream.                 *)
THEOREM ListenerHasOwner == Spec => []ListenerOwned
<1>1. NotifierInv => ListenerOwned
  BY DEF NotifierInv
<1>2. QED
  BY <1>1, NotifierAlways, PTL

(* A thread object that is overwritten holds a thread that has ended.      *)
THEOREM OnlyEndedOverwritten == Spec => []OverwritesOnlyEnded
<1>1. NotifierInv => OverwritesOnlyEnded
  BY DEF NotifierInv
<1>2. QED
  BY <1>1, NotifierAlways, PTL

-----------------------------------------------------------------------------
(* Stop                                                                    *)

(* The threads that Stop joins have been started, and it joins the         *)
(* notification thread once.                                               *)
Begun ==
    /\ main = "new" => udp = "none" /\ ~shutdown
    /\ main # "new" => tcp # "none" /\ udp # "none"
    /\ notifier = "joined" => main \in {"joinTcp", "joinUdp", "stopped", "crashed"}

LEMMA InitBegun == Init => Begun
BY DEF Init, Begun

LEMMA BegunStep == TypeOK /\ Begun /\ [Next]_vars => Begun'
<1> SUFFICES ASSUME TypeOK, Begun, [Next]_vars PROVE Begun'
  OBVIOUS
<1> USE DEF TypeOK, Begun, udpVars, events
<1>1. CASE Start
  BY <1>1 DEF Start
<1>2. CASE StopShutdown \/ StopStep
  BY <1>2 DEF StopShutdown, StopStep, StopTcp, StopUdp, JoinNotifier, JoinTcp, JoinUdp
<1>3. CASE TcpStep
  BY <1>3 DEF TcpStep, TcpLoop, Steps, TcpConnect, TcpConnectFails, TcpOnline, TcpReset
<1>4. CASE UdpStep
  <2>1. CASE UdpSpawn
    BY <2>1 DEF UdpSpawn
  <2>2. CASE UdpStep /\ ~UdpSpawn
    BY <2>2 DEF UdpStep, UdpLoop, LoopStep, UdpConnect, UdpConnectFails, UdpOnline, UdpReset
  <2>3. QED
    BY <1>4, <2>1, <2>2
<1>5. CASE NotifierStep
  BY <1>5 DEF NotifierStep, NotifierRuns, NotifierStops, NotifierFails, NotifierCloses,
      NotifierOffline, NotifierEnds
<1>6. ASSUME NEW t \in Thread,
             \/ CallStep(t) \/ CallConnects(t) \/ RemoveIOThread(t) \/ Disconnect(t)
             \/ \E h \in Handler : SetHandler(t, h)
      PROVE  Begun'
  BY <1>6 DEF CallStep, Connected, ConnectFails, ReportOffline, CallConnects,
              RemoveIOThread, Disconnect, SetHandler
<1>7. CASE UNCHANGED vars
  BY <1>7 DEF vars
<1>8. QED
  BY <1>1, <1>2, <1>3, <1>4, <1>5, <1>6, <1>7 DEF Next

LEMMA BegunAlways == Spec => []Begun
BY InitTypes, TypeStep, InitBegun, BegunStep, PTL DEF Spec

(* What Stop joins can go on, but for a ReconnectTcp that has reset the    *)
(* event after Stop set it.                                                *)
THEOREM StopIsNeverStuck == Spec => []StopNeverStuck
<1>1. TypeOK /\ NotifierInv /\ Begun => StopNeverStuck
  BY DEF TypeOK, NotifierInv, ShutdownFirst, TakesTurns, Begun, StopNeverStuck, Asleep, Live
<1>2. QED
  BY <1>1, TypeCorrect, NotifierAlways, BegunAlways, PTL

LEMMA LoopLeftIs ==
    /\ LoopLeft["online"] = 6 /\ LoopLeft["reset"] = 5 /\ LoopLeft["spawn"] = 4
    /\ LoopLeft["inner"] = 3 /\ LoopLeft["check"] = 2 /\ LoopLeft["outer"] = 1
    /\ LoopLeft["done"] = 0
BY DEF LoopLeft

LEMMA NotifierLeftIs ==
    /\ NotifierLeft["listening"] = 4 /\ NotifierLeft["closed"] = 3
    /\ NotifierLeft["offline"] = 2 /\ NotifierLeft["ended"] = 1
    /\ NotifierLeft["joined"] = 0
BY DEF NotifierLeft

(* ReconnectTcp, once the event is set.                                    *)
TcpDown ==
    /\ tcp' # tcp => LoopLeft[tcp'] < LoopLeft[tcp]
    /\ offlineTcp /\ LoopLeft[tcp] < LoopLeft["reset"] => offlineTcp'

(* ReconnectUdp and the notification thread.                               *)
UdpDown ==
    /\ udp' # udp => LoopLeft[udp'] < LoopLeft[udp]
    /\ notifier' # notifier =>
         \/ NotifierLeft[notifier'] < NotifierLeft[notifier]
         \/ LoopLeft[udp'] < LoopLeft[udp]

LEMMA TcpRunsDown == ASSUME shutdown, TcpStep PROVE TcpDown
<1> USE LoopLeftIs DEF TcpDown
<1>1. CASE TcpLoop
  <2>1. \/ tcp = "outer" /\ tcp' = "done"
        \/ tcp = "inner" /\ tcp' = "check"
        \/ tcp = "check" /\ tcp' = "outer"
    BY <1>1 DEF TcpLoop, LoopStep
  <2>2. offlineTcp' = offlineTcp
    BY <1>1 DEF TcpLoop, events
  <2>3. QED
    BY <2>1, <2>2
<1>2. CASE TcpConnect \/ TcpConnectFails
  BY <1>2 DEF TcpConnect, TcpConnectFails
<1>3. CASE TcpOnline
  BY <1>3 DEF TcpOnline, events
<1>4. CASE TcpReset
  BY <1>4 DEF TcpReset
<1>5. QED
  BY <1>1, <1>2, <1>3, <1>4 DEF TcpStep

LEMMA UdpRunsDown == ASSUME shutdown, UdpStep PROVE UdpDown
<1> USE LoopLeftIs DEF UdpDown
<1>1. CASE UdpLoop
  <2>1. \/ udp = "outer" /\ udp' = "done"
        \/ udp = "inner" /\ udp' = "check"
        \/ udp = "check" /\ udp' = "outer"
    BY <1>1 DEF UdpLoop, LoopStep
  <2>2. QED
    BY <1>1, <2>1 DEF UdpLoop
<1>2. CASE UdpConnect \/ UdpConnectFails
  BY <1>2 DEF UdpConnect, UdpConnectFails
<1>3. CASE UdpOnline
  BY <1>3 DEF UdpOnline
<1>4. CASE UdpReset
  BY <1>4 DEF UdpReset
<1>5. CASE UdpSpawn
  BY <1>5 DEF UdpSpawn
<1>6. QED
  BY <1>1, <1>2, <1>3, <1>4, <1>5 DEF UdpStep

LEMMA NotifierRunsDown == ASSUME NotifierStep PROVE UdpDown
BY NotifierLeftIs
   DEF NotifierStep, NotifierRuns, NotifierStops, NotifierFails, NotifierCloses,
      NotifierOffline, NotifierEnds, UdpDown

LEMMA JoinRunsDown == ASSUME JoinNotifier PROVE UdpDown
BY NotifierLeftIs DEF JoinNotifier, UdpDown

(* Stop's event is for good, and from then on every step of the three      *)
(* threads is one of the few they have left.  With StopIsNeverStuck this   *)
(* is the safety part of SleepersWake.                                     *)
THEOREM ThreadsRunDown == Spec => RunsDown
<1>1. Begun /\ [Next]_vars =>
        [shutdown => shutdown' /\ TcpDown /\ UdpDown]_vars
  <2> SUFFICES ASSUME Begun, [Next]_vars, shutdown
               PROVE  shutdown' /\ TcpDown /\ UdpDown
    OBVIOUS
  <2>1. UNCHANGED <<tcp, offlineTcp>> => TcpDown
    BY DEF TcpDown
  <2>2. UNCHANGED <<udp, notifier>> => UdpDown
    BY DEF UdpDown
  <2>3. CASE Start
    BY <2>3 DEF Start, Begun
  <2>4. CASE StopShutdown \/ StopStep
    <3>1. CASE JoinNotifier
      BY <2>1, <3>1, JoinRunsDown DEF JoinNotifier, events
    <3>2. CASE StopShutdown \/ StopUdp \/ JoinTcp \/ JoinUdp
      BY <2>1, <2>2, <3>2 DEF StopShutdown, StopUdp, JoinTcp, JoinUdp, events, udpVars
    <3>3. CASE StopTcp
      BY <2>2, <3>3 DEF StopTcp, TcpDown, udpVars
    <3>4. QED
      BY <2>4, <3>1, <3>2, <3>3 DEF StopStep
  <2>5. CASE TcpStep
    <3>1. shutdown' /\ UNCHANGED udpVars
      BY <2>5 DEF TcpStep, TcpLoop, TcpConnect, TcpConnectFails, TcpOnline, TcpReset, events
    <3>2. QED
      BY <2>2, <2>5, <3>1, TcpRunsDown DEF udpVars
  <2>6. CASE UdpStep
    <3>1. shutdown' /\ UNCHANGED <<tcp, offlineTcp>>
      BY <2>6 DEF UdpStep, UdpLoop, UdpConnect, UdpConnectFails, UdpOnline, UdpReset,
                  UdpSpawn, events
    <3>2. QED
      BY <2>1, <2>6, <3>1, UdpRunsDown
  <2>7. CASE NotifierStep
    <3>1. shutdown' /\ UNCHANGED <<tcp, offlineTcp>>
      BY <2>7 DEF NotifierStep, NotifierRuns, NotifierStops, NotifierFails, NotifierCloses,
      NotifierOffline, NotifierEnds, events
    <3>2. QED
      BY <2>1, <2>7, <3>1, NotifierRunsDown
  <2>8. ASSUME NEW t \in Thread,
               \/ CallStep(t) \/ CallConnects(t) \/ RemoveIOThread(t) \/ Disconnect(t)
               \/ \E h \in Handler : SetHandler(t, h)
        PROVE  shutdown' /\ TcpDown /\ UdpDown
    <3>1. UNCHANGED <<shutdown, tcp, udp, notifier>> /\ (offlineTcp' = offlineTcp \/ offlineTcp')
      BY <2>8 DEF CallStep, Connected, ConnectFails, ReportOffline, CallConnects,
                  RemoveIOThread, Disconnect, SetHandler, events, udpVars
    <3>2. QED
      BY <2>2, <3>1 DEF TcpDown
  <2>9. CASE UNCHANGED vars
    BY <2>1, <2>2, <2>9 DEF vars, events, udpVars
  <2>10. QED
    BY <2>3, <2>4, <2>5, <2>6, <2>7, <2>8, <2>9 DEF Next
<1>2. Begun /\ [Next]_vars =>
        [shutdown =>
           /\ shutdown'
           /\ tcp' # tcp => LoopLeft[tcp'] < LoopLeft[tcp]
           /\ udp' # udp => LoopLeft[udp'] < LoopLeft[udp]
           /\ notifier' # notifier =>
                \/ NotifierLeft[notifier'] < NotifierLeft[notifier]
                \/ LoopLeft[udp'] < LoopLeft[udp]
           /\ offlineTcp /\ LoopLeft[tcp] < LoopLeft["reset"] => offlineTcp']_vars
  BY <1>1 DEF TcpDown, UdpDown
<1>3. QED
  BY <1>2, BegunAlways, PTL DEF Spec, RunsDown

-----------------------------------------------------------------------------
(* The calling threads                                                     *)

(* Calls that connect exclude one another.                                 *)
THEOREM CallsExclude == Spec => []CallersTakeTurns
<1>1. Init => CallersTakeTurns
  BY NoThreadAssumption DEF Init, CallersTakeTurns
<1>2. TypeOK /\ CallersTakeTurns /\ [Next]_vars => CallersTakeTurns'
  <2> SUFFICES ASSUME TypeOK, CallersTakeTurns, [Next]_vars PROVE CallersTakeTurns'
    OBVIOUS
  <2>1. CASE Start \/ StopShutdown \/ StopStep
    BY <2>1 DEF Start, StopShutdown, StopStep, StopTcp, StopUdp, JoinNotifier, JoinTcp,
                JoinUdp, callVars, CallersTakeTurns
  <2>2. CASE TcpStep
    BY <2>2 DEF TcpStep, TcpLoop, TcpConnect, TcpConnectFails, TcpOnline, TcpReset,
                callVars, CallersTakeTurns
  <2>3. CASE UdpStep
    BY <2>3 DEF UdpStep, UdpLoop, UdpConnect, UdpConnectFails, UdpOnline, UdpReset,
                UdpSpawn, callVars, CallersTakeTurns
  <2>4. CASE NotifierStep
    BY <2>4 DEF NotifierStep, NotifierRuns, NotifierStops, NotifierFails, NotifierCloses,
      NotifierOffline, NotifierEnds, callVars,
                CallersTakeTurns
  <2>5. ASSUME NEW t \in Thread, CallStep(t) PROVE CallersTakeTurns'
    BY <2>5, NoThreadAssumption
       DEF CallStep, Connected, ConnectFails, ReportOffline, TypeOK, CallersTakeTurns
  <2>6. ASSUME NEW t \in Thread, CallConnects(t) PROVE CallersTakeTurns'
    BY <2>6, NoThreadAssumption DEF CallConnects, TypeOK, CallersTakeTurns
  <2>7. ASSUME NEW t \in Thread,
               RemoveIOThread(t) \/ Disconnect(t) \/ \E h \in Handler : SetHandler(t, h)
        PROVE  CallersTakeTurns'
    BY <2>7 DEF RemoveIOThread, Disconnect, SetHandler, CallersTakeTurns
  <2>8. CASE UNCHANGED vars
    BY <2>8 DEF vars, callVars, CallersTakeTurns
  <2>9. QED
    BY <2>1, <2>2, <2>3, <2>4, <2>5, <2>6, <2>7, <2>8 DEF Next
<1>3. QED
  BY <1>1, <1>2, InitTypes, TypeStep, PTL DEF Spec
=============================================================================
