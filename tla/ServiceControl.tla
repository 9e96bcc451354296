---------------------------- MODULE ServiceControl ----------------------------
(***************************************************************************)
(* The program as a Windows service (ServiceDispatcher, ProxyService,      *)
(* ThreadPool.h, TcpServiceMain.cpp): every start of the service is a      *)
(* process of its own.  In it run the thread of SvcMain, the thread of the *)
(* dispatcher, which also runs the control handler, and one thread of the  *)
(* pool, which owns the TCP server.  Each call of SetServiceStatus is a    *)
(* step, for the service control manager (SCM) shows the reported state to *)
(* everybody.                                                              *)
(*                                                                         *)
(* The SCM is not part of the repository.  Modelled is what src/ relies    *)
(* on: the entry of the service, its last status, a process started for    *)
(* every StartService, controls refused while the service is stopped or    *)
(* pending and delivered one at a time, STOPPED when the process dies.     *)
(* The service only ever accepts STOP (ReportSvcStatus), so the SCM never  *)
(* delivers PAUSE, CONTINUE or SHUTDOWN.                                   *)
(***************************************************************************)
EXTENDS Integers

CONSTANTS
    Instance,   \* processes: a bound on the number of starts
    NoInstance,
    CallsFail   \* may calls of the operating system fail?

ASSUME NoInstanceAssumption == NoInstance \notin Instance
ASSUME CallsFailAssumption == CallsFail \in BOOLEAN

VARIABLES
    entry,      \* the service in the SCM's database: "absent", "present", "marked"
    current,    \* the instance started last
    status,     \* its status as the SCM shows it
    process,    \* [Instance -> "none" .. "gone"]
    svcMain,    \* where SvcMain of an instance is
    handler,    \* where its control handler is
    stopEvent,  \* instances on whose prxSvcStopEvent a wait does not block: it is
                \* set, or there is none to wait for
    server,     \* the pool thread with the TCP server
    dwCheckPoint \* the static counter of ReportSvcStatus, per process

serviceVars == <<entry, current, status, process, svcMain, handler, stopEvent,
                 server, dwCheckPoint>>

State == {"STOPPED", "START_PENDING", "RUNNING", "STOP_PENDING"}
Status == [state : State, checkPoint : Nat, hinted : BOOLEAN]

ServiceTypeOK ==
    /\ entry \in {"absent", "present", "marked"}
    /\ current \in Instance \union {NoInstance}
    /\ status \in Status
    /\ process \in [Instance -> {"none", "running", "destroyed", "gone"}]
    /\ svcMain \in [Instance -> {"none", "begun", "started", "queued", "ended"}]
    /\ handler \in [Instance -> {"idle", "called", "pending", "signalled", "done"}]
    /\ stopEvent \subseteq Instance
    /\ server \in [Instance -> {"none", "queued", "serving", "stopping", "ended"}]
    /\ dwCheckPoint \in [Instance -> Nat]

Stopped == [state |-> "STOPPED", checkPoint |-> 0, hinted |-> FALSE]

ServiceInit ==
    /\ entry = "present"
    /\ current = NoInstance
    /\ status = Stopped
    /\ process = [i \in Instance |-> "none"]
    /\ svcMain = [i \in Instance |-> "none"]
    /\ handler = [i \in Instance |-> "idle"]
    /\ stopEvent = {}
    /\ server = [i \in Instance |-> "none"]
    /\ dwCheckPoint = [i \in Instance |-> 1]

-----------------------------------------------------------------------------
(* The SCM                                                                 *)

\* StartService has launched a process; until its first report the SCM shows
\* START_PENDING with a wait hint of its own.
Launch(i) ==
    /\ process[i] = "none"
    /\ process' = [process EXCEPT ![i] = "running"]
    /\ svcMain' = [svcMain EXCEPT ![i] = "begun"]
    /\ current' = i
    /\ status' = [state |-> "START_PENDING", checkPoint |-> 0, hinted |-> TRUE]
    /\ UNCHANGED <<entry, handler, stopEvent, server, dwCheckPoint>>

\* Would the SCM deliver SERVICE_CONTROL_STOP?
AcceptsStop == status.state = "RUNNING"

Deliver(i) ==
    /\ handler[i] = "idle"
    /\ handler' = [handler EXCEPT ![i] = "called"]
    /\ UNCHANGED <<entry, current, status, process, svcMain, stopEvent, server,
                   dwCheckPoint>>

-----------------------------------------------------------------------------
(* The dispatcher                                                          *)

\* Fault: the counter runs down.
ReportCountsDown(i, state) ==
    IF state \in {"RUNNING", "STOPPED"}
    THEN /\ status' = [state |-> state, checkPoint |-> 0, hinted |-> FALSE]
         /\ UNCHANGED dwCheckPoint
    ELSE /\ status' = [state |-> state, checkPoint |-> dwCheckPoint[i], hinted |-> FALSE]
         /\ dwCheckPoint' = [dwCheckPoint EXCEPT ![i] = @ - 1]

\* ReportSvcStatus: pending states carry a new check point; no caller gives a
\* wait hint.
ReportSvcStatus(i, state) ==
    IF state \in {"RUNNING", "STOPPED"}
    THEN /\ status' = [state |-> state, checkPoint |-> 0, hinted |-> FALSE]
         /\ UNCHANGED dwCheckPoint
    ELSE /\ status' = [state |-> state, checkPoint |-> dwCheckPoint[i], hinted |-> FALSE]
         /\ dwCheckPoint' = [dwCheckPoint EXCEPT ![i] = @ + 1]

\* SvcMain and the first report of Start.
SvcMain(i) ==
    /\ process[i] = "running"
    /\ svcMain[i] = "begun"
    /\ svcMain' = [svcMain EXCEPT ![i] = "started"]
    /\ ReportSvcStatus(i, "START_PENDING")
    /\ UNCHANGED <<entry, current, process, handler, stopEvent, server>>

\* RegisterServiceCtrlHandler fails: nothing catches what SvcMain throws.
SvcMainThrows(i) ==
    /\ CallsFail
    /\ process[i] = "running"
    /\ svcMain[i] = "begun"
    /\ process' = [process EXCEPT ![i] = "gone"]
    /\ svcMain' = [svcMain EXCEPT ![i] = "ended"]
    /\ status' = Stopped
    /\ UNCHANGED <<entry, current, handler, stopEvent, server, dwCheckPoint>>

\* OnStart creates the event and queues ServiceMainThread.  Nobody looks whether
\* CreateEvent has failed: the waits for a null handle then fail, at once.
OnStart(i) ==
    /\ process[i] = "running"
    /\ svcMain[i] = "started"
    /\ svcMain' = [svcMain EXCEPT ![i] = "queued"]
    /\ \/ stopEvent' = stopEvent \ {i}
       \/ CallsFail /\ stopEvent' = stopEvent \union {i}
    /\ server' = [server EXCEPT ![i] = "queued"]
    /\ UNCHANGED <<entry, current, status, process, handler, dwCheckPoint>>

\* Fault: the error of QueueUserWorkItem is not thrown, and Start goes on.
OnStartSwallows(i) ==
    /\ CallsFail
    /\ process[i] = "running"
    /\ svcMain[i] = "started"
    /\ svcMain' = [svcMain EXCEPT ![i] = "queued"]
    /\ ReportSvcStatus(i, "STOPPED")
    /\ UNCHANGED <<entry, current, process, handler, stopEvent, server>>

\* The pool takes no work item: OnStart throws, Start reports STOPPED.
OnStartThrows(i) ==
    /\ CallsFail
    /\ process[i] = "running"
    /\ svcMain[i] = "started"
    /\ svcMain' = [svcMain EXCEPT ![i] = "ended"]
    /\ ReportSvcStatus(i, "STOPPED")
    /\ UNCHANGED <<entry, current, process, handler, stopEvent, server>>

\* Start reports RUNNING whatever has become of the server.
Started(i) ==
    /\ process[i] = "running"
    /\ svcMain[i] = "queued"
    /\ svcMain' = [svcMain EXCEPT ![i] = "ended"]
    /\ ReportSvcStatus(i, "RUNNING")
    /\ UNCHANGED <<entry, current, process, handler, stopEvent, server>>

\* SvcCtrlHandler, SERVICE_CONTROL_STOP: Stop reports STOP_PENDING, ...
StopPending(i) ==
    /\ process[i] = "running"
    /\ handler[i] = "called"
    /\ handler' = [handler EXCEPT ![i] = "pending"]
    /\ ReportSvcStatus(i, "STOP_PENDING")
    /\ UNCHANGED <<entry, current, process, svcMain, stopEvent, server>>

\* ... OnStop sets the event and waits for it, which is over at once, ...
OnStop(i) ==
    /\ process[i] = "running"
    /\ handler[i] = "pending"
    /\ handler' = [handler EXCEPT ![i] = "signalled"]
    /\ stopEvent' = stopEvent \union {i}
    /\ UNCHANGED <<entry, current, status, process, svcMain, server, dwCheckPoint>>

\* Fault: as in the handlers of exceptions, the state is reported again.
StopReportsOld(i) ==
    /\ process[i] = "running"
    /\ handler[i] = "signalled"
    /\ handler' = [handler EXCEPT ![i] = "done"]
    /\ ReportSvcStatus(i, status.state)
    /\ UNCHANGED <<entry, current, process, svcMain, stopEvent, server>>

\* ... and STOPPED is reported, wherever the server thread is.
StopDone(i) ==
    /\ process[i] = "running"
    /\ handler[i] = "signalled"
    /\ handler' = [handler EXCEPT ![i] = "done"]
    /\ ReportSvcStatus(i, "STOPPED")
    /\ UNCHANGED <<entry, current, process, svcMain, stopEvent, server>>

\* Has the dispatcher of i been told that its service is stopped?
ReportedStopped(i) == current # i \/ status.state = "STOPPED"

\* StartServiceCtrlDispatcher returns and main destroys the ProxyService, whose
\* destructor closes the event.
MainReturns(i) ==
    /\ process[i] = "running"
    /\ ReportedStopped(i)
    /\ handler[i] \in {"idle", "done"}
    /\ process' = [process EXCEPT ![i] = "destroyed"]
    /\ UNCHANGED <<entry, current, status, svcMain, handler, stopEvent, server,
                   dwCheckPoint>>

\* The process ends, with every thread that still runs and every socket.
ProcessExits(i) ==
    /\ process[i] = "destroyed"
    /\ process' = [process EXCEPT ![i] = "gone"]
    /\ server' = [server EXCEPT ![i] = "ended"]
    /\ UNCHANGED <<entry, current, status, svcMain, handler, stopEvent,
                   dwCheckPoint>>

-----------------------------------------------------------------------------
(* The server thread: ServiceMainThread                                    *)

HoldsPort(i) == server[i] \in {"serving", "stopping"}

\* The server starts: the port can be bound by one process only.
ServerStarts(i) ==
    /\ process[i] \in {"running", "destroyed"}
    /\ server[i] = "queued"
    /\ \A j \in Instance : ~ HoldsPort(j)
    /\ server' = [server EXCEPT ![i] = "serving"]
    /\ UNCHANGED <<entry, current, status, process, svcMain, handler, stopEvent,
                   dwCheckPoint>>

\* It does not: the thread logs the error, calls OnStop and returns; no status
\* is reported.
ServerStartFails(i) ==
    /\ process[i] \in {"running", "destroyed"}
    /\ server[i] = "queued"
    /\ CallsFail \/ \E j \in Instance : HoldsPort(j)
    /\ server' = [server EXCEPT ![i] = "ended"]
    /\ stopEvent' = stopEvent \union {i}
    /\ UNCHANGED <<entry, current, status, process, svcMain, handler, dwCheckPoint>>

\* The wait for the event ends (on a closed handle it fails at once).
ServerWakes(i) ==
    /\ process[i] \in {"running", "destroyed"}
    /\ server[i] = "serving"
    /\ i \in stopEvent \/ process[i] = "destroyed"
    /\ server' = [server EXCEPT ![i] = "stopping"]
    /\ UNCHANGED <<entry, current, status, process, svcMain, handler, stopEvent,
                   dwCheckPoint>>

\* Stop of the server has joined its threads and closed its sockets.
ServerStopped(i) ==
    /\ process[i] \in {"running", "destroyed"}
    /\ server[i] = "stopping"
    /\ server' = [server EXCEPT ![i] = "ended"]
    /\ UNCHANGED <<entry, current, status, process, svcMain, handler, stopEvent,
                   dwCheckPoint>>

\* What a process does by itself.
Progress(i) ==
    \/ SvcMain(i) \/ SvcMainThrows(i)
    \/ OnStart(i) \/ OnStartThrows(i) \/ Started(i)
    \/ StopPending(i) \/ OnStop(i) \/ StopDone(i)
    \/ MainReturns(i) \/ ProcessExits(i)

ServerThread(i) ==
    \/ ServerStarts(i) \/ ServerStartFails(i)
    \/ ServerWakes(i) \/ ServerStopped(i)
===============================================================================
