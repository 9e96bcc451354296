------------------------- MODULE ServiceConsole_proofs -------------------------
(***************************************************************************)
(* Theorems about ServiceConsole and ServiceControl, for any number of     *)
(* administrators, starts of the service and dependent services.           *)
(***************************************************************************)
EXTENDS ServiceConsole, TLAPS

-----------------------------------------------------------------------------
(* The service                                                             *)

(* The process of the service keeps the types.                             *)
LEMMA ReportTypes ==
    ASSUME ServiceTypeOK, NEW i \in Instance, NEW state \in State,
           ReportSvcStatus(i, state)
    PROVE  status' \in Status /\ dwCheckPoint' \in [Instance -> Nat]
<1>1. \/ /\ status' = [state |-> state, checkPoint |-> 0, hinted |-> FALSE]
         /\ dwCheckPoint' = dwCheckPoint
      \/ /\ status' = [state |-> state, checkPoint |-> dwCheckPoint[i], hinted |-> FALSE]
         /\ dwCheckPoint' = [dwCheckPoint EXCEPT ![i] = @ + 1]
  BY DEF ReportSvcStatus
<1>2. dwCheckPoint \in [Instance -> Nat] /\ dwCheckPoint[i] \in Nat
  BY DEF ServiceTypeOK
<1>3. status' \in Status
  <2>1. \A n \in Nat : [state |-> state, checkPoint |-> n, hinted |-> FALSE] \in Status
    BY DEF Status
  <2>2. QED
    BY <1>1, <1>2, <2>1
<1>4. dwCheckPoint' \in [Instance -> Nat]
  BY <1>1, <1>2
<1>5. QED
  BY <1>3, <1>4

LEMMA ReportState ==
    ASSUME NEW i \in Instance, NEW state \in State, ReportSvcStatus(i, state)
    PROVE  status'.state = state
BY DEF ReportSvcStatus

LEMMA ProcessTypes ==
    ASSUME ServiceTypeOK, NEW i \in Instance, Progress(i) \/ ServerThread(i)
    PROVE  ServiceTypeOK'
<1> USE DEF ServiceTypeOK
<1>1. CASE SvcMain(i) \/ Started(i)
  BY <1>1, ReportTypes DEF SvcMain, Started, State
<1>2. CASE SvcMainThrows(i)
  BY <1>2 DEF SvcMainThrows, Stopped, Status, State
<1>3. CASE OnStart(i)
  BY <1>3 DEF OnStart
<1>4. CASE OnStartThrows(i)
  BY <1>4, ReportTypes DEF OnStartThrows, State
<1>5. CASE StopPending(i) \/ StopDone(i)
  BY <1>5, ReportTypes DEF StopPending, StopDone, State
<1>6. CASE OnStop(i)
  BY <1>6 DEF OnStop
<1>7. CASE MainReturns(i)
  BY <1>7 DEF MainReturns
<1>8. CASE ProcessExits(i)
  BY <1>8 DEF ProcessExits
<1>9. CASE ServerStarts(i) \/ ServerWakes(i) \/ ServerStopped(i)
  BY <1>9 DEF ServerStarts, ServerWakes, ServerStopped
<1>10. CASE ServerStartFails(i)
  BY <1>10 DEF ServerStartFails
<1>11. QED
  BY <1>1, <1>2, <1>3, <1>4, <1>5, <1>6, <1>7, <1>8, <1>9, <1>10
     DEF Progress, ServerThread

LEMMA LaunchTypes ==
    ASSUME ServiceTypeOK, NEW i \in Instance, Launch(i)
    PROVE  ServiceTypeOK'
BY DEF ServiceTypeOK, Launch, Status, State

LEMMA DeliverTypes ==
    ASSUME ServiceTypeOK, NEW i \in Instance, Deliver(i)
    PROVE  ServiceTypeOK'
BY DEF ServiceTypeOK, Deliver

-----------------------------------------------------------------------------
(* The calls                                                               *)

(* A step of a call: its new state l, and the handles h it has open then.  *)
Moves(c, l, h) ==
    /\ call' = [call EXCEPT ![c] = l]
    /\ handles' = [handles EXCEPT ![c] = h]
    /\ h = IF l.at = "idle" THEN {} ELSE Handle
    /\ l.at \in StopLabel => call[c].at \in StopLabel \/ status.state # "STOPPED"

LEMMA ReturnMoves ==
    ASSUME NEW c \in Console, NEW op, NEW result, NEW opened, NEW closed,
           Return(c, op, result, opened, closed),
           (handles[c] \union opened) \ closed = {}
    PROVE  \E l \in Call, h \in SUBSET Handle : Moves(c, l, h)
<1>1. Idle \in Call
  BY DEF Idle, Call
<1>2. handles' = [handles EXCEPT ![c] = {}]
  BY DEF Return
<1>3. Moves(c, Idle, {})
  BY <1>2 DEF Return, Moves, Idle, StopLabel
<1>4. QED
  BY <1>1, <1>3

(* The exits of a call that has just begun close what it has opened, ...   *)
LEMMA FirstExits ==
    ASSUME HandlesClosed, NEW c \in Console, call[c].at = "idle",
           NEW op, NEW result, NEW opened, Return(c, op, result, opened, opened)
    PROVE  \E l \in Call, h \in SUBSET Handle : Moves(c, l, h)
<1>1. (handles[c] \union opened) \ opened = {}
  BY DEF HandlesClosed
<1>2. QED
  BY <1>1, ReturnMoves

(* ... and the exits of one under way both handles.                        *)
LEMMA LaterExits ==
    ASSUME HandlesClosed, NEW c \in Console, call[c].at # "idle",
           NEW op, NEW result, Return(c, op, result, {}, Handle)
    PROVE  \E l \in Call, h \in SUBSET Handle : Moves(c, l, h)
<1>1. (handles[c] \union {}) \ Handle = {}
  BY DEF HandlesClosed
<1>2. QED
  BY <1>1, ReturnMoves

LEMMA StayMoves ==
    ASSUME TypeOK, HandlesClosed, NEW c \in Console, NEW l \in Call,
           call' = [call EXCEPT ![c] = l], UNCHANGED handles,
           call[c].at # "idle", l.at # "idle",
           l.at \in StopLabel => call[c].at \in StopLabel
    PROVE  \E k \in Call, h \in SUBSET Handle : Moves(c, k, h)
<1>1. handles[c] = Handle
  BY DEF HandlesClosed
<1>2. handles' = [handles EXCEPT ![c] = handles[c]]
  BY DEF TypeOK
<1>3. QED
  BY <1>1, <1>2 DEF Moves

LEMMA OpenMoves ==
    ASSUME NEW c \in Console, NEW l \in Call,
           call' = [call EXCEPT ![c] = l], Open(c), l.at # "idle",
           l.at \in StopLabel => status.state # "STOPPED"
    PROVE  \E k \in Call, h \in SUBSET Handle : Moves(c, k, h)
BY DEF Moves, Open, Handle

LEMMA BeginMoves ==
    ASSUME TypeOK, HandlesClosed, NEW c \in Console, Begin(c)
    PROVE  \E l \in Call, h \in SUBSET Handle : Moves(c, l, h)
<1>0. call[c] \in Call /\ call[c].at = "idle" /\ status.checkPoint \in Nat
  BY DEF TypeOK, ServiceTypeOK, Status, Begin, InstallCreates, DeleteSvc,
         GetServiceStatus, StopBegins, StartBegins
<1>1. CASE \E op, result, opened : Return(c, op, result, opened, opened)
  BY <1>0, <1>1, FirstExits
<1>2. ASSUME NEW at \in StopLabel \union {"created"}, Open(c), Goto(c, at),
             at \in StopLabel => status.state # "STOPPED"
      PROVE  \E l \in Call, h \in SUBSET Handle : Moves(c, l, h)
  <2> DEFINE l == [call[c] EXCEPT !.at = at]
  <2>1. l \in Call /\ l.at = at
    BY <1>0 DEF Call
  <2>2. call' = [call EXCEPT ![c] = l]
    BY <1>2 DEF Goto
  <2>3. at # "idle"
    BY DEF StopLabel
  <2> HIDE DEF l
  <2>4. QED
    BY <1>2, <2>1, <2>2, <2>3, OpenMoves
<1>3. CASE InstallCreates(c)
  BY <1>1, <1>2, <1>3 DEF InstallCreates, StopLabel
<1>4. CASE DeleteSvc(c)
  BY <1>1, <1>4 DEF DeleteSvc
<1>5. CASE GetServiceStatus(c)
  BY <1>1, <1>5 DEF GetServiceStatus
<1>6. CASE StopBegins(c)
  <2>1. StopGoesOn \in StopLabel
    BY DEF StopGoesOn, StopLabel
  <2>2. QED
    BY <1>1, <1>2, <1>6, <2>1 DEF StopBegins
<1>7. CASE StartBegins(c)
  <2>1. CASE Open(c)
    <3> DEFINE label == IF status.state = "STOPPED" THEN "start_call" ELSE "start_wait"
               l == [call[c] EXCEPT !.at = label, !.oldCheckPoint = status.checkPoint]
    <3>1. label \in StartLabel
      BY DEF StartLabel
    <3>2. l \in Call /\ l.at = label
      BY <1>0, <3>1 DEF Call
    <3>3. (\E op, result, opened : Return(c, op, result, opened, opened))
          \/ call' = [call EXCEPT ![c] = l]
      BY <1>7 DEF StartBegins
    <3>4. l.at # "idle" /\ l.at \notin StopLabel
      BY <3>1, <3>2 DEF StartLabel, StopLabel
    <3> HIDE DEF l
    <3>5. QED
      BY <1>1, <2>1, <3>2, <3>3, <3>4, OpenMoves
  <2>2. CASE ~Open(c)
    BY <1>1, <1>7, <2>2 DEF StartBegins
  <2>3. QED
    BY <2>1, <2>2
<1>8. QED
  BY <1>3, <1>4, <1>5, <1>6, <1>7 DEF Begin

LEMMA CallMoves ==
    ASSUME TypeOK, HandlesClosed, NEW c \in Console, CallStep(c) \/ Elapse(c)
    PROVE  \E l \in Call, h \in SUBSET Handle : Moves(c, l, h)
<1> USE DEF StopLabel, StartLabel
<1>1. call[c] \in Call /\ dependents \in SUBSET Dependent /\ status.checkPoint \in Nat
  BY DEF TypeOK, ServiceTypeOK, Status
<1>0. call[c].at # "idle"
  BY DEF CallStep, InstallDescribes, StopWaits, StopEnumerates, StopLists, StopDependent,
         StopSends, StopSent, StopPolls, StartWaits, StartCalls, StartChecks, StartPolls,
         Elapse
<1>2. ASSUME NEW op, NEW result, Return(c, op, result, {}, Handle)
      PROVE  \E l \in Call, h \in SUBSET Handle : Moves(c, l, h)
  BY <1>0, <1>2, LaterExits
<1>3. CASE InstallDescribes(c)
  BY <1>2, <1>3 DEF InstallDescribes
<1>4. CASE StopWaits(c)
  <2>1. CASE Return(c, "stop", 0, {}, Handle)
    BY <1>2, <2>1
  <2>2. CASE ~(Return(c, "stop", 0, {}, Handle))
    <3> DEFINE l == [call[c] EXCEPT !.at = StopGoesOn]
    <3>1. StopGoesOn \in StopLabel
      BY DEF StopGoesOn
    <3>2. l \in Call /\ l.at = StopGoesOn
      BY <1>1, <3>1 DEF Call
    <3>3. call' = [call EXCEPT ![c] = l] /\ UNCHANGED handles
      BY <1>4, <2>2 DEF StopWaits, Goto
    <3>4. call[c].at # "idle" /\ (StopGoesOn \in StopLabel => call[c].at \in StopLabel)
      BY <1>4, <3>1 DEF StopWaits
    <3> HIDE DEF l
    <3>5. QED
      BY <3>1, <3>2, <3>3, <3>4, StayMoves
  <2>3. QED
    BY <2>1, <2>2
<1>5. CASE \E d \in Dependent : StopDependent(c, d)
  <2>1. PICK d \in Dependent : StopDependent(c, d)
    BY <1>5
  <2>2. PICK todo \in SUBSET Dependent :
          /\ call' = [call EXCEPT ![c].todo = todo,
                         ![c].at = IF todo = {} THEN "stop_send" ELSE "stop_dependents"]
          /\ call[c].at = "stop_dependents" /\ UNCHANGED handles
    <3>1. call[c].todo \ {d} \in SUBSET Dependent /\ {} \in SUBSET Dependent
      BY <1>1 DEF Call
    <3>2. QED
      BY <2>1, <3>1 DEF StopDependent
  <2> DEFINE label == IF todo = {} THEN "stop_send" ELSE "stop_dependents"
             l == [call[c] EXCEPT !.todo = todo, !.at = label]
  <2>3. l \in Call /\ l.at = label
    BY <1>1 DEF Call
  <2>4. call' = [call EXCEPT ![c] = l]
    BY <2>2
  <2>5. label \in StopLabel /\ label # "idle"
    OBVIOUS
  <2> HIDE DEF l, label
  <2>6. QED
    BY <2>2, <2>3, <2>4, <2>5, StayMoves
<1>6. CASE StopSends(c)
  <2>1. CASE Return(c, "stop", 0, {}, Handle)
    BY <1>2, <2>1
  <2>2. CASE ~(Return(c, "stop", 0, {}, Handle))
    <3> DEFINE l == [call[c] EXCEPT !.at = "stop_sent", !.asked = current]
    <3>1. "stop_sent" \in StopLabel
      OBVIOUS
    <3>2. l \in Call /\ l.at = "stop_sent"
      BY <1>1, <3>1 DEF Call, TypeOK, ServiceTypeOK
    <3>3. call' = [call EXCEPT ![c] = l] /\ UNCHANGED handles
      BY <1>6, <2>2 DEF StopSends
    <3>4. call[c].at # "idle" /\ ("stop_sent" \in StopLabel => call[c].at \in StopLabel)
      BY <1>6, <3>1 DEF StopSends
    <3> HIDE DEF l
    <3>5. QED
      BY <3>1, <3>2, <3>3, <3>4, StayMoves
  <2>3. QED
    BY <2>1, <2>2
<1>7. CASE StopSent(c)
  <2>1. CASE \E r : Return(c, "stop", r, {}, Handle)
    BY <1>2, <2>1
  <2>2. CASE ~(\E r : Return(c, "stop", r, {}, Handle))
    <3> DEFINE l == [call[c] EXCEPT !.at = "stop_poll"]
    <3>1. "stop_poll" \in StopLabel
      OBVIOUS
    <3>2. l \in Call /\ l.at = "stop_poll"
      BY <1>1, <3>1 DEF Call
    <3>3. call' = [call EXCEPT ![c] = l] /\ UNCHANGED handles
      BY <1>7, <2>2 DEF StopSent, Goto
    <3>4. call[c].at # "idle" /\ ("stop_poll" \in StopLabel => call[c].at \in StopLabel)
      BY <1>7, <3>1 DEF StopSent, Goto
    <3> HIDE DEF l
    <3>5. QED
      BY <3>1, <3>2, <3>3, <3>4, StayMoves
  <2>3. QED
    BY <2>1, <2>2
<1>8. CASE StopPolls(c)
  <2>1. CASE \E r : Return(c, "stop", r, {}, Handle)
    BY <1>2, <2>1
  <2>2. CASE UNCHANGED <<call, handles>>
    BY <1>1, <1>8, <2>2, StayMoves DEF StopPolls, TypeOK
  <2>3. QED
    BY <1>8, <2>1, <2>2 DEF StopPolls
<1>9. ASSUME NEW label \in StartLabel, Reads(c, label), call[c].at # "idle", UNCHANGED handles
      PROVE  \E l \in Call, h \in SUBSET Handle : Moves(c, l, h)
  <2> DEFINE n == IF MadeProgress(c) THEN status.checkPoint ELSE call[c].oldCheckPoint
             late == IF MadeProgress(c) THEN FALSE ELSE call[c].late
             l == [call[c] EXCEPT !.at = label, !.oldCheckPoint = n, !.late = late]
  <2>1. n \in Nat /\ late \in BOOLEAN
    BY <1>1 DEF Call
  <2>2. call' = [call EXCEPT ![c] = l]
    BY <1>9 DEF Reads
  <2> HIDE DEF n, late
  <2>3. l \in Call /\ l.at = label
    BY <1>1, <2>1 DEF Call
  <2> HIDE DEF l
  <2>4. QED
    BY <1>9, <2>2, <2>3, StayMoves
<1>10. CASE StartWaits(c)
  <2>1. CASE Return(c, "start", 0, {}, Handle)
    BY <1>2, <2>1
  <2>2. CASE ~Return(c, "start", 0, {}, Handle)
    <3> DEFINE label == IF status.state = "STOP_PENDING" THEN "start_wait" ELSE "start_call"
    <3>1. Reads(c, label) /\ call[c].at # "idle" /\ UNCHANGED handles
      BY <1>10, <2>2 DEF StartWaits
    <3>2. label \in StartLabel
      OBVIOUS
    <3> HIDE DEF label
    <3>3. QED
      BY <1>9, <3>1, <3>2
  <2>3. QED
    BY <2>1, <2>2
<1>11. CASE StartCalls(c)
  <2>1. CASE Return(c, "start", 0, {}, Handle)
    BY <1>2, <2>1
  <2>2. CASE ~(Return(c, "start", 0, {}, Handle))
    <3> DEFINE l == [call[c] EXCEPT !.at = "start_check"]
    <3>1. "start_check" \in StartLabel
      OBVIOUS
    <3>2. l \in Call /\ l.at = "start_check"
      BY <1>1, <3>1 DEF Call
    <3>3. call' = [call EXCEPT ![c] = l] /\ UNCHANGED handles
      BY <1>11, <2>2 DEF StartCalls, Goto
    <3>4. call[c].at # "idle" /\ ("start_check" \in StopLabel => call[c].at \in StopLabel)
      BY <1>11, <3>1 DEF StartCalls, Goto
    <3> HIDE DEF l
    <3>5. QED
      BY <3>1, <3>2, <3>3, <3>4, StayMoves
  <2>3. QED
    BY <2>1, <2>2
<1>12. CASE StartChecks(c)
  <2>1. CASE \E r : Return(c, "start", r, {}, Handle)
    BY <1>2, <2>1
  <2>2. CASE ~(\E r : Return(c, "start", r, {}, Handle))
    <3> DEFINE l == [call[c] EXCEPT !.at = "start_poll", !.late = FALSE, !.oldCheckPoint = status.checkPoint]
    <3>1. "start_poll" \in StartLabel
      OBVIOUS
    <3>2. l \in Call /\ l.at = "start_poll"
      BY <1>1, <3>1 DEF Call
    <3>3. call' = [call EXCEPT ![c] = l] /\ UNCHANGED handles
      BY <1>12, <2>2 DEF StartChecks
    <3>4. call[c].at # "idle" /\ ("start_poll" \in StopLabel => call[c].at \in StopLabel)
      BY <1>12, <3>1 DEF StartChecks
    <3> HIDE DEF l
    <3>5. QED
      BY <3>1, <3>2, <3>3, <3>4, StayMoves
  <2>3. QED
    BY <2>1, <2>2
<1>13. CASE StartPolls(c)
  <2>1. CASE Return(c, "start", 1, {}, Handle)
    BY <1>2, <2>1
  <2>2. CASE ~Return(c, "start", 1, {}, Handle)
    <3>1. Reads(c, "start_poll") /\ call[c].at # "idle" /\ UNCHANGED handles
      BY <1>13, <2>2 DEF StartPolls
    <3>2. QED
      BY <1>9, <3>1
  <2>3. QED
    BY <2>1, <2>2
<1>14. CASE Elapse(c)
  <2> DEFINE l == [call[c] EXCEPT !.late = TRUE]
  <2>1. l \in Call /\ l.at = call[c].at
    BY <1>1 DEF Call
  <2>2. call' = [call EXCEPT ![c] = l] /\ UNCHANGED handles /\ call[c].at # "idle"
    BY <1>14 DEF Elapse
  <2> HIDE DEF l
  <2>3. QED
    BY <2>1, <2>2, StayMoves
<1>15. CASE StopEnumerates(c) \/ StopLists(c)
  <2>1. PICK label \in {"stop_send", "stop_list", "stop_dependents"},
             todo \in SUBSET Dependent :
          call' = [call EXCEPT ![c].at = label, ![c].todo = todo]
    <3>1. CASE Goto(c, "stop_send")
      <4>1. call' = [call EXCEPT ![c].at = "stop_send", ![c].todo = call[c].todo]
        BY <1>1, <3>1 DEF Goto, Call, TypeOK
      <4>2. QED
        BY <1>1, <4>1 DEF Call
    <3>2. QED
      BY <1>1, <1>15, <3>1 DEF StopEnumerates, StopLists
  <2> DEFINE l == [call[c] EXCEPT !.at = label, !.todo = todo]
  <2>2. l \in Call /\ l.at = label
    BY <1>1 DEF Call
  <2>3. call' = [call EXCEPT ![c] = l]
    BY <2>1
  <2>4. UNCHANGED handles /\ call[c].at \in StopLabel
    BY <1>15 DEF StopEnumerates, StopLists
  <2> HIDE DEF l
  <2>5. QED
    BY <1>0, <2>2, <2>3, <2>4, StayMoves
<1>16. QED
  BY <1>3, <1>4, <1>5, <1>6, <1>7, <1>8, <1>10, <1>11, <1>12, <1>13, <1>14, <1>15 DEF CallStep

(* What StopSvc returns is TRUE or FALSE, whichever path it takes.         *)
LEMMA ReturnedTypes ==
    ASSUME TypeOK, NEW c \in Console, Begin(c) \/ CallStep(c) \/ Elapse(c)
    PROVE  returned' \in Returned \union {NotReturned}
<1>1. ASSUME NEW op, NEW result, NEW opened, NEW closed,
             Return(c, op, result, opened, closed),
             op = "stop" => result \in 0 .. 1
      PROVE  returned' \in Returned \union {NotReturned}
  BY <1>1 DEF Return, Returned
<1>2. ASSUME Silent
      PROVE  returned' \in Returned \union {NotReturned}
  BY <1>2 DEF Silent
<1>3. CASE InstallCreates(c) \/ DeleteSvc(c)
  BY <1>1, <1>2, <1>3 DEF InstallCreates, DeleteSvc
<1>4. CASE StopBegins(c) \/ StartBegins(c)
  BY <1>1, <1>2, <1>4 DEF StopBegins, StartBegins
<1>5. CASE GetServiceStatus(c)
  BY <1>1, <1>5 DEF GetServiceStatus
<1>6. CASE InstallDescribes(c) \/ StopWaits(c) \/ StopSends(c)
  BY <1>1, <1>2, <1>6 DEF InstallDescribes, StopWaits, StopSends
<1>7. CASE StopSent(c) \/ StopPolls(c)
  BY <1>1, <1>2, <1>7 DEF StopSent, StopPolls
<1>8. CASE StopEnumerates(c) \/ StopLists(c) \/ \E d \in Dependent : StopDependent(c, d)
  BY <1>2, <1>8 DEF StopEnumerates, StopLists, StopDependent
<1>9. CASE StartWaits(c) \/ StartCalls(c) \/ StartChecks(c) \/ StartPolls(c)
  BY <1>1, <1>2, <1>9 DEF StartWaits, StartCalls, StartChecks, StartPolls
<1>10. CASE Elapse(c)
  BY <1>2, <1>10 DEF Elapse
<1>11. QED
  BY <1>3, <1>4, <1>5, <1>6, <1>7, <1>8, <1>9, <1>10 DEF Begin, CallStep

(* What a call changes of the service: it starts a process, it stops one,  *)
(* or it creates or deletes the entry.                                     *)
LEMMA CallEffects ==
    ASSUME NEW c \in Console, Begin(c) \/ CallStep(c) \/ Elapse(c)
    PROVE  /\ \/ UNCHANGED serviceVars
              \/ \E i \in Instance : status.state = "STOPPED" /\ Launch(i)
              \/ AcceptsStop /\ Deliver(current)
              \/ /\ entry' \in {"present", "marked"}
                 /\ UNCHANGED <<current, status, process, svcMain, handler, stopEvent,
                                server, dwCheckPoint>>
           /\ dependents' \subseteq dependents
           /\ stoppedDuring' \in {stoppedDuring, stoppedDuring \ {c}}
<1>1. CASE Begin(c)
  <2>1. stoppedDuring' = stoppedDuring \ {c}
    BY <1>1 DEF Begin
  <2>2. CASE InstallCreates(c)
    BY <2>1, <2>2 DEF InstallCreates, serviceVars
  <2>3. CASE DeleteSvc(c)
    BY <2>1, <2>3 DEF DeleteSvc, serviceVars
  <2>4. CASE GetServiceStatus(c) \/ StopBegins(c) \/ StartBegins(c)
    BY <2>1, <2>4 DEF GetServiceStatus, StopBegins, StartBegins
  <2>5. QED
    BY <1>1, <2>2, <2>3, <2>4 DEF Begin
<1>2. CASE InstallDescribes(c) \/ StopWaits(c) \/ StopSent(c) \/ StopPolls(c)
  BY <1>2 DEF InstallDescribes, StopWaits, StopSent, StopPolls
<1>3. CASE StopSends(c)
  BY <1>3 DEF StopSends
<1>4. CASE StopEnumerates(c) \/ StopLists(c) \/ \E d \in Dependent : StopDependent(c, d)
  BY <1>4 DEF StopEnumerates, StopLists, StopDependent
<1>5. CASE StartCalls(c)
  BY <1>5 DEF StartCalls
<1>6. CASE StartWaits(c) \/ StartChecks(c) \/ StartPolls(c) \/ Elapse(c)
  BY <1>6 DEF StartWaits, StartChecks, StartPolls, Elapse
<1>7. QED
  BY <1>1, <1>2, <1>3, <1>4, <1>5, <1>6 DEF CallStep

LEMMA ConsoleTypes ==
    ASSUME TypeOK, HandlesClosed, NEW c \in Console, NEW l \in Call, NEW h \in SUBSET Handle,
           Moves(c, l, h)
    PROVE  /\ call' \in [Console -> Call]
           /\ handles' \in [Console -> SUBSET Handle]
           /\ HandlesClosed'
<1>1. /\ call' \in [Console -> Call]
      /\ handles' \in [Console -> SUBSET Handle]
  BY DEF Moves, TypeOK
<1>2. call'[c] = l /\ handles'[c] = h
  BY DEF Moves, TypeOK
<1>3. \A b \in Console \ {c} : call'[b] = call[b] /\ handles'[b] = handles[b]
  BY DEF Moves, TypeOK
<1>4. HandlesClosed'
  BY <1>2, <1>3 DEF Moves, HandlesClosed
<1>5. QED
  BY <1>1, <1>4

LEMMA TypeStep ==
    ASSUME TypeOK, HandlesClosed, [Next]_vars
    PROVE  TypeOK' /\ HandlesClosed'
<1>1. ASSUME NEW c \in Console, Begin(c) \/ CallStep(c) \/ Elapse(c)
      PROVE  TypeOK' /\ HandlesClosed'
  <2>1. PICK l \in Call, h \in SUBSET Handle : Moves(c, l, h)
    BY <1>1, BeginMoves, CallMoves
  <2>2. /\ call' \in [Console -> Call]
        /\ handles' \in [Console -> SUBSET Handle]
        /\ HandlesClosed'
    BY <2>1, ConsoleTypes
  <2>3. returned' \in Returned \union {NotReturned}
    BY <1>1, ReturnedTypes
  <2>4. dependents' \subseteq Dependent /\ stoppedDuring' \subseteq Console
    BY <1>1, CallEffects DEF TypeOK
  <2>5. ServiceTypeOK'
    <3>1. CASE UNCHANGED serviceVars
      BY <3>1 DEF TypeOK, ServiceTypeOK, serviceVars
    <3>2. CASE \E i \in Instance : Launch(i)
      BY <3>2, LaunchTypes DEF TypeOK
    <3>3. CASE AcceptsStop /\ Deliver(current)
      <4>1. CASE current \in Instance
        BY <3>3, <4>1, DeliverTypes DEF TypeOK
      <4>2. CASE current \notin Instance
        BY <3>3, <4>2 DEF TypeOK, ServiceTypeOK, Deliver
      <4>3. QED
        BY <4>1, <4>2
    <3>4. CASE /\ entry' \in {"present", "marked"}
               /\ UNCHANGED <<current, status, process, svcMain, handler, stopEvent,
                              server, dwCheckPoint>>
      BY <3>4 DEF TypeOK, ServiceTypeOK
    <3>5. QED
      BY <1>1, <3>1, <3>2, <3>3, <3>4, CallEffects
  <2>6. QED
    BY <2>2, <2>3, <2>4, <2>5 DEF TypeOK
<1>2. ASSUME NEW i \in Instance, ServiceStep(i)
      PROVE  TypeOK' /\ HandlesClosed'
  <2>1. ServiceTypeOK'
    BY <1>2, ProcessTypes DEF TypeOK, ServiceStep
  <2>2. /\ UNCHANGED consoleVars /\ returned' = NotReturned
        /\ stoppedDuring' \subseteq Console
    BY <1>2 DEF TypeOK, ServiceStep, Silent
  <2>3. QED
    BY <2>1, <2>2 DEF TypeOK, HandlesClosed, consoleVars
<1>3. ASSUME NEW d \in Dependent, DependentStarts(d)
      PROVE  TypeOK' /\ HandlesClosed'
  BY <1>3 DEF DependentStarts, Silent, TypeOK, ServiceTypeOK, HandlesClosed, serviceVars
<1>4. CASE Removed
  BY <1>4 DEF Removed, Silent, TypeOK, ServiceTypeOK, HandlesClosed, consoleVars
<1>5. CASE UNCHANGED vars
  BY <1>5 DEF vars, serviceVars, consoleVars, TypeOK, ServiceTypeOK, HandlesClosed
<1>6. QED
  BY <1>1, <1>2, <1>3, <1>4, <1>5 DEF Next

LEMMA TypesAlways == Spec => [](TypeOK /\ HandlesClosed)
<1>1. Init => TypeOK
  BY DEF Init, TypeOK, ServiceInit, ServiceTypeOK, Idle, Call, Stopped, Status, State
<1>2. Init => HandlesClosed
  BY DEF Init, HandlesClosed, Idle
<1>3. QED
  BY <1>1, <1>2, TypeStep, PTL DEF Spec

(* Every variable keeps its type; above all a call always knows where it   *)
(* goes on.                                                                *)
THEOREM TypeCorrect == Spec => []TypeOK
BY TypesAlways, PTL

(* No exit of a call forgets a handle, whichever request of it fails, and  *)
(* no call goes on without both of them.                                   *)
THEOREM HandlesAreClosed == Spec => []HandlesClosed
BY TypesAlways, PTL

-----------------------------------------------------------------------------
(* What TRUE of StopSvc means                                              *)

(* Whoever is stopping the service has seen it run, or seen it stop.       *)
Seen ==
    \A c \in Console : call[c].at \in StopLabel =>
        status.state # "STOPPED" \/ c \in stoppedDuring

(* What a call returns as TRUE it returns with the service stopped.        *)
LEMMA StopReturnsTrue ==
    ASSUME NEW c \in Console, Begin(c) \/ CallStep(c) \/ Elapse(c),
           NEW b \in Console, returned' = [by |-> b, op |-> "stop", result |-> 1]
    PROVE  /\ b = c
           /\ call[c].at \in StopLabel
           /\ status.state = "STOPPED"
           /\ UNCHANGED stoppedDuring
<1>1. ASSUME NEW op, NEW result, NEW opened, NEW closed,
             Return(c, op, result, opened, closed)
      PROVE  op = "stop" /\ result = 1 /\ b = c
  <2>1. returned' # NotReturned
    BY DEF NotReturned
  <2>2. [by |-> c, op |-> op, result |-> result] = [by |-> b, op |-> "stop", result |-> 1]
    BY <1>1, <2>1 DEF Return
  <2>3. QED
    BY <2>2
<1>2. ~Silent
  BY DEF Silent, NotReturned
<1>3. ASSUME Begin(c)
      PROVE  FALSE
  <2>1. ~InstallCreates(c) /\ ~DeleteSvc(c) /\ ~StartBegins(c) /\ ~StopBegins(c)
    BY <1>1, <1>2 DEF InstallCreates, DeleteSvc, StartBegins, StopBegins
  <2>2. ~GetServiceStatus(c)
    BY <1>1 DEF GetServiceStatus
  <2>3. QED
    BY <1>3, <2>1, <2>2 DEF Begin
<1>4. ~Elapse(c) /\ ~InstallDescribes(c) /\ ~\E d \in Dependent : StopDependent(c, d)
  <2>1. ~Elapse(c)
    BY <1>2 DEF Elapse
  <2>2. ~InstallDescribes(c)
    BY <1>1 DEF InstallDescribes
  <2>3. ~\E d \in Dependent : StopDependent(c, d)
    BY <1>2 DEF StopDependent
  <2>4. QED
    BY <2>1, <2>2, <2>3
<1>5. ~StartWaits(c) /\ ~StartCalls(c) /\ ~StartChecks(c) /\ ~StartPolls(c)
  BY <1>1, <1>2 DEF StartWaits, StartCalls, StartChecks, StartPolls
<1>6. ~StopWaits(c) /\ ~StopSends(c)
  BY <1>1, <1>2 DEF StopWaits, StopSends
<1>7. ~StopEnumerates(c) /\ ~StopLists(c)
  BY <1>2 DEF StopEnumerates, StopLists
<1>8. StopSent(c) \/ StopPolls(c)
  BY <1>3, <1>4, <1>5, <1>6, <1>7 DEF CallStep
<1>9. /\ call[c].at \in StopLabel
      /\ status.state = "STOPPED"
      /\ UNCHANGED stoppedDuring
      /\ Return(c, "stop", 1, {}, Handle)
  <2>1. CASE StopSent(c)
    <3>1. ~Return(c, "stop", 0, {}, Handle)
      BY <1>1
    <3>2. QED
      BY <1>2, <2>1, <3>1 DEF StopSent, StopLabel
  <2>2. CASE StopPolls(c)
    <3>1. ~Return(c, "stop", 0, {}, Handle)
      BY <1>1
    <3>2. QED
      BY <1>2, <2>2, <3>1 DEF StopPolls, StopLabel
  <2>3. QED
    BY <1>8, <2>1, <2>2
<1>10. QED
  BY <1>1, <1>9

(* While a call is stopping the service its history is kept.               *)
LEMMA StopUnderWay ==
    ASSUME NEW c \in Console, Begin(c) \/ CallStep(c) \/ Elapse(c),
           call[c].at \in StopLabel
    PROVE  stoppedDuring' = stoppedDuring
<1>1. ~Begin(c)
  BY DEF Begin, InstallCreates, DeleteSvc, GetServiceStatus, StopBegins, StartBegins,
         StopLabel
<1>2. CASE InstallDescribes(c) \/ StopWaits(c) \/ StopSent(c) \/ StopPolls(c) \/ StopSends(c)
  BY <1>2 DEF InstallDescribes, StopWaits, StopSent, StopPolls, StopSends
<1>3. CASE StopEnumerates(c) \/ StopLists(c) \/ \E d \in Dependent : StopDependent(c, d)
  BY <1>3 DEF StopEnumerates, StopLists, StopDependent
<1>4. CASE StartCalls(c) \/ StartWaits(c) \/ StartChecks(c) \/ StartPolls(c) \/ Elapse(c)
  BY <1>4 DEF StartCalls, StartWaits, StartChecks, StartPolls, Elapse
<1>5. QED
  BY <1>1, <1>2, <1>3, <1>4 DEF CallStep

LEMMA SeenStep ==
    ASSUME TypeOK, HandlesClosed, Seen, StopTrueMeansStopped, [Next]_vars
    PROVE  Seen' /\ StopTrueMeansStopped'
<1>1. ASSUME NEW c \in Console, Begin(c) \/ CallStep(c) \/ Elapse(c)
      PROVE  Seen' /\ StopTrueMeansStopped'
  <2>1. PICK l \in Call, h \in SUBSET Handle : Moves(c, l, h)
    BY <1>1, BeginMoves, CallMoves
  <2>2. call'[c] = l /\ \A b \in Console \ {c} : call'[b] = call[b]
    BY <2>1 DEF Moves, TypeOK
  <2>3. call'[c].at \in StopLabel => call[c].at \in StopLabel \/ status.state # "STOPPED"
    BY <2>1, <2>2 DEF Moves
  <2>4. \/ status' = status
        \/ status.state = "STOPPED" /\ status'.state # "STOPPED"
    BY <1>1, CallEffects DEF serviceVars, Launch, Deliver
  <2>5. \A b \in Console \ {c} : b \in stoppedDuring' <=> b \in stoppedDuring
    BY <1>1, CallEffects
  <2>6. call[c].at \in StopLabel => stoppedDuring' = stoppedDuring
    BY <1>1, StopUnderWay
  <2>7. Seen'
    BY <2>2, <2>3, <2>4, <2>5, <2>6 DEF Seen
  <2>8. StopTrueMeansStopped'
    <3>1. SUFFICES ASSUME NEW b \in Console,
                          returned' = [by |-> b, op |-> "stop", result |-> 1]
                   PROVE  b \in stoppedDuring'
      BY DEF StopTrueMeansStopped
    <3>2. QED
      BY <1>1, <3>1, StopReturnsTrue DEF Seen
  <2>9. QED
    BY <2>7, <2>8
<1>2. ASSUME Silent, UNCHANGED <<call, stoppedDuring>>, status' = status
      PROVE  Seen' /\ StopTrueMeansStopped'
  BY <1>2 DEF Silent, NotReturned, Seen, StopTrueMeansStopped
<1>3. ASSUME NEW i \in Instance, ServiceStep(i)
      PROVE  Seen' /\ StopTrueMeansStopped'
  <2>1. UNCHANGED call /\ Silent
    BY <1>3 DEF ServiceStep, consoleVars
  <2>2. StopTrueMeansStopped'
    BY <2>1 DEF Silent, NotReturned, StopTrueMeansStopped
  <2>3. CASE status.state # "STOPPED" /\ status'.state = "STOPPED"
    <3>1. stoppedDuring' = {c \in Console : call[c].at \in StopLabel}
      BY <1>3, <2>3 DEF ServiceStep
    <3>2. QED
      BY <2>1, <2>2, <3>1 DEF Seen
  <2>4. CASE ~(status.state # "STOPPED" /\ status'.state = "STOPPED")
    <3>1. stoppedDuring' = stoppedDuring
      BY <1>3, <2>4 DEF ServiceStep
    <3>2. QED
      BY <2>1, <2>2, <2>4, <3>1 DEF Seen
  <2>5. QED
    BY <2>3, <2>4
<1>4. ASSUME (\E d \in Dependent : DependentStarts(d)) \/ Removed
      PROVE  Seen' /\ StopTrueMeansStopped'
  BY <1>2, <1>4 DEF DependentStarts, Removed, serviceVars, consoleVars
<1>5. CASE UNCHANGED vars
  BY <1>5 DEF vars, serviceVars, consoleVars, Seen, StopTrueMeansStopped
<1>6. QED
  BY <1>1, <1>3, <1>4, <1>5 DEF Next

(* StopSvc returns TRUE only if the service was reported stopped while the *)
(* call was under way: it begins only while the service is not stopped,    *)
(* so that seeing it stopped is seeing it stop.                            *)
THEOREM StopTrueHolds == Spec => []StopTrueMeansStopped
<1>1. Init => Seen /\ StopTrueMeansStopped
  BY DEF Init, Idle, StopLabel, Seen, NotReturned, StopTrueMeansStopped
<1>2. QED
  BY <1>1, TypesAlways, SeenStep, PTL DEF Spec

-----------------------------------------------------------------------------
(* The states of the service                                               *)

(* What a process still has to report follows from the last status.        *)
Cycle ==
    /\ \A i \in Instance : i # current =>
         svcMain[i] \in {"none", "ended"} /\ handler[i] \in {"idle", "done"}
    /\ \A i \in Instance : process[i] = "none" => i # current /\ handler[i] = "idle"
    /\ current \notin Instance => status.state = "STOPPED"
    /\ \A i \in Instance : i = current =>
         /\ svcMain[i] \in {"begun", "started", "queued"} =>
              status.state = "START_PENDING" /\ handler[i] = "idle"
         /\ svcMain[i] \notin {"begun", "started", "queued"} =>
              CASE handler[i] = "idle" -> status.state \in {"RUNNING", "STOPPED"}
                [] handler[i] = "called" -> status.state = "RUNNING"
                [] handler[i] = "pending" -> status.state = "STOP_PENDING"
                [] handler[i] = "signalled" -> status.state = "STOP_PENDING"
                [] handler[i] = "done" -> status.state = "STOPPED"

Legal(old, new) ==
    new # old =>
      \/ old = "STOPPED" /\ new = "START_PENDING"
      \/ old = "START_PENDING" /\ new \in {"RUNNING", "STOPPED"}
      \/ old = "RUNNING" /\ new = "STOP_PENDING"
      \/ old = "STOP_PENDING" /\ new = "STOPPED"

(* A report only moves the service on, and only its last process reports.  *)
LEMMA CycleService ==
    ASSUME TypeOK, Cycle, NEW i \in Instance, Progress(i) \/ ServerThread(i)
    PROVE  Cycle' /\ Legal(status.state, status'.state)
<1> USE DEF Cycle, Legal, TypeOK, ServiceTypeOK
<1>1. ASSUME UNCHANGED <<current, status, svcMain, handler>>,
             \A j \in Instance : process'[j] = "none" => process[j] = "none"
      PROVE  Cycle' /\ Legal(status.state, status'.state)
  BY <1>1
<1>2. CASE OnStart(i)
  BY <1>2 DEF OnStart
<1>3. CASE SvcMain(i)
  <2>1. status'.state = "START_PENDING"
    BY <1>3, ReportState DEF SvcMain, State
  <2>2. QED
    BY <1>3, <2>1 DEF SvcMain
<1>4. CASE SvcMainThrows(i)
  BY <1>4 DEF SvcMainThrows, Stopped
<1>5. CASE OnStartThrows(i)
  <2>1. status'.state = "STOPPED"
    BY <1>5, ReportState DEF OnStartThrows, State
  <2>2. QED
    BY <1>5, <2>1 DEF OnStartThrows
<1>6. CASE Started(i)
  <2>1. status'.state = "RUNNING"
    BY <1>6, ReportState DEF Started, State
  <2>2. QED
    BY <1>6, <2>1 DEF Started
<1>7. CASE StopPending(i)
  <2>1. status'.state = "STOP_PENDING"
    BY <1>7, ReportState DEF StopPending, State
  <2>2. QED
    BY <1>7, <2>1 DEF StopPending
<1>8. CASE OnStop(i)
  BY <1>8 DEF OnStop
<1>9. CASE StopDone(i)
  <2>1. status'.state = "STOPPED"
    BY <1>9, ReportState DEF StopDone, State
  <2>2. QED
    BY <1>9, <2>1 DEF StopDone
<1>10. CASE MainReturns(i)
  BY <1>1, <1>10 DEF MainReturns
<1>11. CASE ProcessExits(i)
  BY <1>1, <1>11 DEF ProcessExits
<1>12. CASE ServerStarts(i) \/ ServerWakes(i) \/ ServerStopped(i) \/ ServerStartFails(i)
  BY <1>1, <1>12 DEF ServerStarts, ServerWakes, ServerStopped, ServerStartFails
<1>13. QED
  BY <1>2, <1>3, <1>4, <1>5, <1>6, <1>7, <1>8, <1>9, <1>10, <1>11, <1>12
     DEF Progress, ServerThread

LEMMA CycleStep ==
    ASSUME TypeOK, Cycle, [Next]_vars
    PROVE  Cycle' /\ Legal(status.state, status'.state)
<1>1. ASSUME UNCHANGED <<current, status, process, svcMain, handler>>
      PROVE  Cycle' /\ Legal(status.state, status'.state)
  BY <1>1 DEF Cycle, Legal
<1>2. ASSUME NEW i \in Instance, status.state = "STOPPED", Launch(i)
      PROVE  Cycle' /\ Legal(status.state, status'.state)
  <2>1. /\ current' = i /\ status'.state = "START_PENDING"
        /\ svcMain'[i] = "begun" /\ process'[i] = "running" /\ handler' = handler
        /\ \A j \in Instance \ {i} : svcMain'[j] = svcMain[j] /\ process'[j] = process[j]
    BY <1>2 DEF Launch, TypeOK, ServiceTypeOK
  <2>2. i # current /\ handler[i] = "idle"
    BY <1>2 DEF Launch, Cycle
  <2>3. \A j \in Instance : j = current =>
          svcMain[j] \in {"none", "ended"} /\ handler[j] \in {"idle", "done"}
    BY <1>2 DEF Cycle, TypeOK, ServiceTypeOK
  <2>4. QED
    BY <1>2, <2>1, <2>2, <2>3 DEF Cycle, Legal
<1>3. ASSUME AcceptsStop, Deliver(current)
      PROVE  Cycle' /\ Legal(status.state, status'.state)
  <2>1. current \in Instance /\ status.state = "RUNNING"
    BY <1>3 DEF AcceptsStop, Cycle
  <2>2. /\ UNCHANGED <<current, status, process, svcMain>>
        /\ handler'[current] = "called"
        /\ \A j \in Instance \ {current} : handler'[j] = handler[j]
    BY <1>3, <2>1 DEF Deliver, TypeOK, ServiceTypeOK
  <2>3. QED
    BY <2>1, <2>2 DEF Cycle, Legal
<1>4. ASSUME NEW c \in Console, Begin(c) \/ CallStep(c) \/ Elapse(c)
      PROVE  Cycle' /\ Legal(status.state, status'.state)
  BY <1>1, <1>2, <1>3, <1>4, CallEffects DEF serviceVars
<1>5. ASSUME NEW i \in Instance, ServiceStep(i)
      PROVE  Cycle' /\ Legal(status.state, status'.state)
  BY <1>5, CycleService DEF ServiceStep
<1>6. CASE (\E d \in Dependent : DependentStarts(d)) \/ Removed
  BY <1>1, <1>6 DEF DependentStarts, Removed, serviceVars
<1>7. CASE UNCHANGED vars
  BY <1>1, <1>7 DEF vars, serviceVars
<1>8. QED
  BY <1>4, <1>5, <1>6, <1>7 DEF Next

LEMMA CycleAlways == Spec => [](TypeOK /\ Cycle)
<1>1. Init => Cycle
  BY NoInstanceAssumption DEF Init, ServiceInit, Stopped, Cycle
<1>2. TypeOK /\ Cycle /\ [Next]_vars => Cycle'
  BY CycleStep
<1>3. QED
  BY <1>1, <1>2, TypesAlways, PTL DEF Spec

(* The states the service shows follow each other as the SCM prescribes:   *)
(* a process that has reported STOPPED has nothing left to report, and the *)
(* next one starts only then.                                              *)
THEOREM MovesAreLegal == Spec => LegalMoves
<1>1. TypeOK /\ Cycle /\ [Next]_vars => [Legal(status.state, status'.state)]_vars
  BY CycleStep
<1>2. QED
  BY <1>1, CycleAlways, PTL DEF Spec, LegalMoves, Legal

(* Only the process started last reports.                                  *)
THEOREM OneProcessReports == Spec => []OneReporter
<1>1. Cycle => OneReporter
  BY DEF Cycle, OneReporter
<1>2. QED
  BY <1>1, CycleAlways, PTL

-----------------------------------------------------------------------------
(* A stop under way                                                        *)

(* A process lives as long as its service is not reported stopped, and a   *)
(* call in ControlService has had its control delivered.                   *)
Attended ==
    /\ \A i \in Instance : svcMain[i] = "none" => process[i] = "none"
    /\ current \in Instance /\ status.state # "STOPPED" => process[current] = "running"
    /\ \A c \in Console : call[c].at = "stop_sent" =>
         call[c].asked \in Instance /\ handler[call[c].asked] # "idle"

(* Only StopSends brings a call into ControlService.                       *)
LEMMA EntersControl ==
    ASSUME TypeOK, NEW c \in Console, Begin(c) \/ CallStep(c) \/ Elapse(c)
    PROVE  /\ \A b \in Console \ {c} : call'[b] = call[b]
           /\ call'[c].at = "stop_sent" =>
                \/ call[c].at = "stop_sent" /\ call'[c].asked = call[c].asked
                \/ AcceptsStop /\ Deliver(current) /\ call'[c].asked = current
<1> USE DEF TypeOK, Call
<1>1. ASSUME NEW op, NEW result, NEW opened, NEW closed,
             Return(c, op, result, opened, closed)
      PROVE  /\ \A b \in Console \ {c} : call'[b] = call[b]
             /\ call'[c].at = "idle"
  BY <1>1 DEF Return, Idle
<1>2. CASE Begin(c)
  <2>1. CASE InstallCreates(c)
    BY <1>1, <2>1 DEF InstallCreates, Goto
  <2>2. CASE DeleteSvc(c) \/ GetServiceStatus(c)
    BY <1>1, <2>2 DEF DeleteSvc, GetServiceStatus
  <2>3. CASE StopBegins(c)
    BY <1>1, <2>3 DEF StopBegins, StopGoesOn, Goto
  <2>4. CASE StartBegins(c)
    BY <1>1, <2>4 DEF StartBegins
  <2>5. QED
    BY <1>2, <2>1, <2>2, <2>3, <2>4 DEF Begin
<1>3. CASE InstallDescribes(c)
  BY <1>1, <1>3 DEF InstallDescribes
<1>4. CASE StopWaits(c)
  BY <1>1, <1>4 DEF StopWaits, StopGoesOn, Goto
<1>5. CASE StopSends(c)
  BY <1>1, <1>5 DEF StopSends
<1>6. CASE StopSent(c)
  BY <1>1, <1>6 DEF StopSent, Goto
<1>7. CASE StopPolls(c)
  BY <1>1, <1>7 DEF StopPolls
<1>8. ASSUME NEW d \in Dependent, StopDependent(c, d)
      PROVE  /\ \A b \in Console \ {c} : call'[b] = call[b]
             /\ call'[c].at # "stop_sent"
  <2>1. PICK todo : call' = [call EXCEPT ![c].todo = todo,
                      ![c].at = IF todo = {} THEN "stop_send" ELSE "stop_dependents"]
    BY <1>8 DEF StopDependent
  <2>2. QED
    BY <2>1
<1>9. ASSUME NEW label \in StartLabel, Reads(c, label)
      PROVE  /\ \A b \in Console \ {c} : call'[b] = call[b]
             /\ call'[c].at # "stop_sent"
  <2> DEFINE n == IF MadeProgress(c) THEN status.checkPoint ELSE call[c].oldCheckPoint
             late == IF MadeProgress(c) THEN FALSE ELSE call[c].late
             l == [call[c] EXCEPT !.at = label, !.oldCheckPoint = n, !.late = late]
  <2>1. call' = [call EXCEPT ![c] = l]
    BY <1>9 DEF Reads
  <2>2. l.at = label
    OBVIOUS
  <2> HIDE DEF l
  <2>3. QED
    BY <1>9, <2>1, <2>2 DEF StartLabel
<1>10. CASE StartCalls(c)
  BY <1>1, <1>10 DEF StartCalls, Goto
<1>11. CASE StartChecks(c)
  BY <1>1, <1>11 DEF StartChecks
<1>12. CASE StartWaits(c) \/ StartPolls(c)
  <2>1. \/ Return(c, "start", 0, {}, Handle) \/ Return(c, "start", 1, {}, Handle)
        \/ \E label \in StartLabel : Reads(c, label)
    BY <1>12 DEF StartWaits, StartPolls, StartLabel
  <2>2. QED
    BY <1>1, <1>9, <2>1
<1>13. CASE Elapse(c)
  BY <1>13 DEF Elapse
<1>14. CASE StopEnumerates(c) \/ StopLists(c)
  BY <1>14 DEF StopEnumerates, StopLists, Goto
<1>15. QED
  BY <1>2, <1>3, <1>4, <1>5, <1>6, <1>7, <1>8, <1>10, <1>11, <1>12, <1>13, <1>14 DEF CallStep

(* What a process does by itself: its start and its handler go on, or it   *)
(* ends, of its own only when the service is stopped.                      *)
Starting(i) == SvcMain(i) \/ OnStart(i) \/ OnStartThrows(i) \/ Started(i)
Handling(i) == StopPending(i) \/ OnStop(i) \/ StopDone(i)

LEMMA StartingSteps ==
    ASSUME TypeOK, NEW i \in Instance, Starting(i)
    PROVE  /\ UNCHANGED <<current, handler, process>>
           /\ svcMain[i] \in {"begun", "started", "queued"} /\ svcMain'[i] # "none"
           /\ \A j \in Instance \ {i} : svcMain'[j] = svcMain[j]
<1> USE DEF TypeOK, ServiceTypeOK
<1>1. CASE SvcMain(i)
  BY <1>1 DEF SvcMain
<1>2. CASE OnStart(i)
  BY <1>2 DEF OnStart
<1>3. CASE OnStartThrows(i)
  BY <1>3 DEF OnStartThrows
<1>4. CASE Started(i)
  BY <1>4 DEF Started
<1>5. QED
  BY <1>1, <1>2, <1>3, <1>4 DEF Starting

LEMMA ThrowingSteps ==
    ASSUME TypeOK, NEW i \in Instance, SvcMainThrows(i)
    PROVE  /\ UNCHANGED <<current, handler>> /\ status'.state = "STOPPED"
           /\ svcMain[i] = "begun" /\ svcMain'[i] # "none"
           /\ process[i] = "running" /\ process'[i] = "gone"
           /\ \A j \in Instance \ {i} : svcMain'[j] = svcMain[j] /\ process'[j] = process[j]
BY DEF TypeOK, ServiceTypeOK, SvcMainThrows, Stopped

LEMMA HandlingSteps ==
    ASSUME TypeOK, NEW i \in Instance, Handling(i)
    PROVE  /\ UNCHANGED <<current, svcMain, process>>
           /\ \/ handler[i] = "called" /\ handler'[i] = "pending"
              \/ handler[i] = "pending" /\ handler'[i] = "signalled"
              \/ handler[i] = "signalled" /\ handler'[i] = "done"
           /\ \A j \in Instance \ {i} : handler'[j] = handler[j]
<1> USE DEF TypeOK, ServiceTypeOK
<1>1. CASE StopPending(i)
  BY <1>1 DEF StopPending
<1>2. CASE OnStop(i)
  BY <1>2 DEF OnStop
<1>3. CASE StopDone(i)
  BY <1>3 DEF StopDone
<1>4. QED
  BY <1>1, <1>2, <1>3 DEF Handling

LEMMA EndingSteps ==
    ASSUME TypeOK, NEW i \in Instance, MainReturns(i) \/ ProcessExits(i)
    PROVE  /\ UNCHANGED <<current, status, svcMain, handler>>
           /\ \/ /\ process[i] = "running" /\ process'[i] = "destroyed"
                 /\ ReportedStopped(i)
              \/ process[i] = "destroyed" /\ process'[i] = "gone"
           /\ \A j \in Instance \ {i} : process'[j] = process[j]
BY DEF TypeOK, ServiceTypeOK, MainReturns, ProcessExits

LEMMA ServingSteps ==
    ASSUME NEW i \in Instance, ServerThread(i)
    PROVE  UNCHANGED <<current, status, process, svcMain, handler>>
BY DEF ServerThread, ServerStarts, ServerStartFails, ServerWakes, ServerStopped

LEMMA ProcessSteps ==
    ASSUME NEW i \in Instance, ServiceStep(i)
    PROVE  /\ \/ Starting(i) \/ SvcMainThrows(i) \/ Handling(i)
              \/ MainReturns(i) \/ ProcessExits(i) \/ ServerThread(i)
           /\ call' = call
BY DEF ServiceStep, Progress, Starting, Handling, consoleVars

(* A step of a process keeps every process alive that has more to report.  *)
LEMMA AttendedService ==
    ASSUME TypeOK, Cycle, Attended, NEW i \in Instance, ServiceStep(i)
    PROVE  Attended'
<1> DEFINE Lives(j) == svcMain[j] = "none" => process[j] = "none"
           Runs == current \in Instance /\ status.state # "STOPPED" => process[current] = "running"
<1>1. call' = call
  BY ProcessSteps
<1>2. CASE Starting(i)
  <2>1. i = current /\ status.state = "START_PENDING"
    BY <1>2, StartingSteps DEF Cycle
  <2>2. QED
    BY <1>1, <1>2, <2>1, StartingSteps DEF Attended
<1>3. CASE SvcMainThrows(i)
  BY <1>1, <1>3, ThrowingSteps DEF Attended
<1>4. CASE Handling(i)
  <2>1. i = current /\ status.state # "STOPPED"
    BY <1>4, HandlingSteps DEF Cycle
  <2>2. \A j \in Instance : handler[j] # "idle" => handler'[j] # "idle"
    BY <1>4, HandlingSteps
  <2>3. QED
    BY <1>1, <1>4, <2>1, <2>2, HandlingSteps DEF Attended
<1>5. CASE MainReturns(i) \/ ProcessExits(i)
  <2>1. \A j \in Instance : svcMain'[j] = "none" => process'[j] = "none"
    BY <1>5, EndingSteps DEF Attended
  <2>2. current' \in Instance /\ status'.state # "STOPPED" => process'[current'] = "running"
    BY <1>5, EndingSteps DEF Attended, ReportedStopped
  <2>3. QED
    BY <1>1, <1>5, <2>1, <2>2, EndingSteps DEF Attended
<1>6. CASE ServerThread(i)
  BY <1>1, <1>6, ServingSteps DEF Attended
<1>7. QED
  BY <1>2, <1>3, <1>4, <1>5, <1>6, ProcessSteps

(* What a call does to the processes and their handlers.                   *)
LEMMA CallsLeave ==
    ASSUME TypeOK, Cycle, NEW c \in Console, Begin(c) \/ CallStep(c) \/ Elapse(c)
    PROVE  \/ UNCHANGED <<current, status, process, svcMain, handler>>
           \/ \E i \in Instance :
                /\ process[i] = "none" /\ handler[i] = "idle"
                /\ current' = i /\ handler' = handler
                /\ process'[i] = "running" /\ svcMain'[i] = "begun"
                /\ \A j \in Instance \ {i} : svcMain'[j] = svcMain[j] /\ process'[j] = process[j]
           \/ /\ current \in Instance /\ UNCHANGED <<current, status, process, svcMain>>
              /\ handler[current] = "idle" /\ handler'[current] = "called"
              /\ \A j \in Instance \ {current} : handler'[j] = handler[j]
<1>1. CASE UNCHANGED <<current, status, process, svcMain, handler>>
  BY <1>1
<1>2. ASSUME NEW i \in Instance, Launch(i)
      PROVE  /\ process[i] = "none" /\ handler[i] = "idle"
             /\ current' = i /\ handler' = handler
             /\ process'[i] = "running" /\ svcMain'[i] = "begun"
             /\ \A j \in Instance \ {i} : svcMain'[j] = svcMain[j] /\ process'[j] = process[j]
  BY <1>2 DEF Launch, Cycle, TypeOK, ServiceTypeOK
<1>3. CASE AcceptsStop /\ Deliver(current)
  <2>1. current \in Instance
    BY <1>3 DEF AcceptsStop, Cycle
  <2>2. QED
    BY <1>3, <2>1 DEF Deliver, TypeOK, ServiceTypeOK
<1>4. QED
  BY <1>1, <1>2, <1>3, CallEffects DEF serviceVars

LEMMA AttendedStep ==
    ASSUME TypeOK, Cycle, Attended, [Next]_vars
    PROVE  Attended'
<1>1. ASSUME NEW c \in Console, Begin(c) \/ CallStep(c) \/ Elapse(c)
      PROVE  Attended'
  <2>1. \A i \in Instance : handler[i] # "idle" => handler'[i] # "idle"
    BY <1>1, CallsLeave
  <2>2. AcceptsStop /\ Deliver(current) =>
          current \in Instance /\ handler'[current] # "idle"
    BY DEF AcceptsStop, Deliver, Cycle, TypeOK, ServiceTypeOK
  <2>3. \A b \in Console : call'[b].at = "stop_sent" =>
          call'[b].asked \in Instance /\ handler'[call'[b].asked] # "idle"
    BY <1>1, <2>1, <2>2, EntersControl DEF Attended
  <2>4. \A i \in Instance : svcMain'[i] = "none" => process'[i] = "none"
    BY <1>1, CallsLeave DEF Attended
  <2>5. current' \in Instance /\ status'.state # "STOPPED" => process'[current'] = "running"
    BY <1>1, CallsLeave DEF Attended
  <2>6. QED
    BY <2>3, <2>4, <2>5 DEF Attended
<1>2. ASSUME NEW i \in Instance, ServiceStep(i)
      PROVE  Attended'
  BY <1>2, AttendedService
<1>3. CASE (\E d \in Dependent : DependentStarts(d)) \/ Removed \/ UNCHANGED vars
  BY <1>3 DEF DependentStarts, Removed, vars, serviceVars, consoleVars, Attended
<1>4. QED
  BY <1>1, <1>2, <1>3 DEF Next

LEMMA AttendedAlways == Spec => [](TypeOK /\ Cycle /\ Attended)
<1>1. Init => Attended
  BY NoInstanceAssumption DEF Init, ServiceInit, Idle, Attended
<1>2. QED
  BY <1>1, AttendedStep, CycleAlways, PTL DEF Spec

(* Nobody waits in vain for a control: its handler runs to its end in a    *)
(* process that waits for it, and ControlService waits for a handler that  *)
(* has been called.                                                        *)
THEOREM NobodyWaits == Spec => []NobodyWaitsInVain
<1>1. TypeOK /\ Cycle /\ Attended => NobodyWaitsInVain
  <2>1. SUFFICES ASSUME TypeOK, Cycle, Attended
                 PROVE  NobodyWaitsInVain
    OBVIOUS
  <2>2. ASSUME NEW i \in Instance, handler[i] \in {"called", "pending", "signalled"}
        PROVE  process[i] = "running" /\ svcMain[i] = "ended"
    <3>1. i = current
      BY <2>1, <2>2 DEF Cycle
    <3>2. svcMain[i] \notin {"begun", "started", "queued"} /\ status.state # "STOPPED"
      BY <2>1, <2>2, <3>1 DEF Cycle
    <3>3. process[i] = "running"
      BY <2>1, <3>1, <3>2 DEF Attended
    <3>4. svcMain[i] # "none"
      BY <2>1, <3>3 DEF Attended
    <3>5. QED
      BY <2>1, <3>2, <3>3, <3>4 DEF TypeOK, ServiceTypeOK
  <2>3. ASSUME NEW i \in Instance, handler[i] = "done"
        PROVE  ReportedStopped(i)
    BY <2>1, <2>3 DEF Cycle, ReportedStopped
  <2>4. QED
    BY <2>1, <2>2, <2>3 DEF Attended, NobodyWaitsInVain
<1>2. QED
  BY <1>1, AttendedAlways, PTL

(* The ranks of a handler and of a process are numbers that each of their  *)
(* steps lowers.                                                           *)
LEMMA RanksFall ==
    /\ HandlerLeft["pending"] < HandlerLeft["called"]
    /\ HandlerLeft["signalled"] < HandlerLeft["pending"]
    /\ HandlerLeft["done"] < HandlerLeft["signalled"]
    /\ ProcessLeft["destroyed"] < ProcessLeft["running"]
    /\ ProcessLeft["gone"] < ProcessLeft["destroyed"]
BY DEF HandlerLeft, ProcessLeft

(* A process whose handler has been called runs down: nothing is left of   *)
(* its start, and every step of it is one of the last few.                 *)
THEOREM ProcessRunsDown == Spec => RunsDown
<1> DEFINE Falls(i) ==
             handler[i] # "idle" =>
               /\ svcMain'[i] = svcMain[i]
               /\ handler'[i] # handler[i] => HandlerLeft[handler'[i]] < HandlerLeft[handler[i]]
               /\ process'[i] # process[i] => ProcessLeft[process'[i]] < ProcessLeft[process[i]]
<1>1. ASSUME TypeOK, Cycle, [Next]_vars
      PROVE  \A i \in Instance : Falls(i)
  <2>1. ASSUME NEW c \in Console, Begin(c) \/ CallStep(c) \/ Elapse(c), NEW i \in Instance
        PROVE  Falls(i)
    BY <1>1, <2>1, CallsLeave
  <2>2. ASSUME NEW j \in Instance, ServiceStep(j), NEW i \in Instance, handler[i] # "idle"
        PROVE  /\ svcMain'[i] = svcMain[i]
               /\ handler'[i] # handler[i] => HandlerLeft[handler'[i]] < HandlerLeft[handler[i]]
               /\ process'[i] # process[i] => ProcessLeft[process'[i]] < ProcessLeft[process[i]]
    <3>1. handler[j] # "idle" => svcMain[j] \notin {"begun", "started", "queued"}
      BY <1>1 DEF Cycle
    <3>2. CASE Starting(j)
      <4>1. svcMain[j] \in {"begun", "started", "queued"}
        BY <1>1, <3>2, StartingSteps
      <4>2. i # j
        BY <2>2, <3>1, <4>1
      <4>3. QED
        BY <1>1, <3>2, <4>2, StartingSteps
    <3>3. CASE SvcMainThrows(j)
      <4>1. i # j
        BY <1>1, <2>2, <3>1, <3>3, ThrowingSteps
      <4>2. QED
        BY <1>1, <3>3, <4>1, ThrowingSteps
    <3>4. CASE Handling(j)
      BY <1>1, <3>4, HandlingSteps, RanksFall
    <3>5. CASE MainReturns(j) \/ ProcessExits(j)
      BY <1>1, <3>5, EndingSteps, RanksFall
    <3>6. CASE ServerThread(j)
      BY <3>6, ServingSteps
    <3>7. QED
      BY <2>2, <3>2, <3>3, <3>4, <3>5, <3>6, ProcessSteps
  <2>3. CASE (\E d \in Dependent : DependentStarts(d)) \/ Removed \/ UNCHANGED vars
    BY <2>3 DEF DependentStarts, Removed, vars, serviceVars
  <2>4. QED
    BY <1>1, <2>1, <2>2, <2>3 DEF Next
<1>2. TypeOK /\ Cycle /\ [Next]_vars => [\A i \in Instance : Falls(i)]_vars
  BY <1>1
<1>3. QED
  BY <1>2, CycleAlways, PTL DEF Spec, RunsDown
================================================================================
