---------------------------- MODULE ServiceConsole ----------------------------
(***************************************************************************)
(* The service console manager (ServiceConsoleManager): the calls that     *)
(* install, delete, start, stop and query the service, made by several     *)
(* administrators at once and composed with the service itself             *)
(* (ServiceControl).  A call is a sequence of steps, one per request to    *)
(* the SCM, each of which sees the status of that moment; between two of   *)
(* them the service moves on and the others make their calls.              *)
(*                                                                         *)
(* Time is abstracted to one bit per call: "late" becomes true when the    *)
(* ticks since the saved start tick exceed the limit the loop compares     *)
(* them with.                                                              *)
(***************************************************************************)
EXTENDS ServiceControl

CONSTANTS
    Console,    \* administrators, each with at most one call at a time
    Dependent   \* services that depend on this one

VARIABLES
    call,       \* [Console -> local state of the call]
    handles,    \* [Console -> SCM handles the call has open]
    returned,   \* the StopSvc that has returned in the last step, and its result
    dependents, \* the dependent services that run
    stoppedDuring \* history: consoles whose StopSvc saw a report of STOPPED

consoleVars == <<call, handles, dependents>>
vars == <<serviceVars, consoleVars, returned, stoppedDuring>>

Handle == {"manager", "service"}

StopLabel == {"stop_wait", "stop_enum", "stop_list", "stop_dependents",
              "stop_send", "stop_sent", "stop_poll"}
StartLabel == {"start_wait", "start_call", "start_check", "start_poll"}

Call == [at : StopLabel \union StartLabel \union {"idle", "created"},
         oldCheckPoint : Nat, late : BOOLEAN,
         todo : SUBSET Dependent, asked : Instance \union {NoInstance}]

\* The values getServiceStatus returns for a state; those for a failure are 8 to
\* 15.
StateCode == [STOPPED |-> 1, START_PENDING |-> 2, STOP_PENDING |-> 3, RUNNING |-> 4]

\* Results are numbers, as BOOL is: FALSE is 0, TRUE is 1.  Only that of StopSvc is
\* kept: no property tells the others apart.
Returned == [by : Console, op : {"stop"}, result : 0 .. 1]
NotReturned == [op |-> "none"]

TypeOK ==
    /\ ServiceTypeOK
    /\ call \in [Console -> Call]
    /\ handles \in [Console -> SUBSET Handle]
    /\ returned \in Returned \union {NotReturned}
    /\ dependents \subseteq Dependent
    /\ stoppedDuring \subseteq Console

Idle == [at |-> "idle", oldCheckPoint |-> 0, late |-> FALSE,
         todo |-> {}, asked |-> NoInstance]

Init ==
    /\ ServiceInit
    /\ call = [c \in Console |-> Idle]
    /\ handles = [c \in Console |-> {}]
    /\ returned = NotReturned
    /\ dependents = {}
    /\ stoppedDuring = {}

-----------------------------------------------------------------------------
(* Shared steps of the calls                                               *)

\* The call returns.  Every exit of a function has its own calls of
\* CloseServiceHandle: "opened" is what the step has opened before it gets to the
\* exit, "closed" what the exit closes.
Return(c, op, result, opened, closed) ==
    /\ call' = [call EXCEPT ![c] = Idle]
    /\ handles' = [handles EXCEPT ![c] = (@ \union opened) \ closed]
    /\ returned' = IF op = "stop" THEN [by |-> c, op |-> op, result |-> result]
                                  ELSE NotReturned

\* A step in which no call returns.
Silent == returned' = NotReturned

\* OpenSCManager and OpenService.
Open(c) == handles' = [handles EXCEPT ![c] = Handle]

Goto(c, label) == call' = [call EXCEPT ![c].at = label]

\* GetTickCount64() - dwStartTime passes the limit of the loop.
Elapse(c) ==
    /\ call[c].at \in {"stop_wait", "stop_poll", "start_wait", "start_poll"}
    /\ ~ call[c].late
    /\ call' = [call EXCEPT ![c].late = TRUE]
    /\ Silent
    /\ UNCHANGED <<serviceVars, handles, dependents, stoppedDuring>>

-----------------------------------------------------------------------------
(* InstallSvc, DeleteSvc, getServiceStatus                                 *)

\* CreateService fails when the service exists, marked for deletion included.
InstallCreates(c) ==
    /\ call[c].at = "idle"
    /\ \/ /\ entry = "absent"
          /\ entry' = "present"
          /\ Open(c)
          /\ Goto(c, "created")
          /\ Silent
       \/ /\ \/ CallsFail /\ Return(c, "install", 0, {}, {})
             \/ /\ entry # "absent" \/ CallsFail
                /\ Return(c, "install", 0, {"manager"}, {"manager"})
          /\ UNCHANGED entry
    /\ UNCHANGED <<current, status, process, svcMain, handler, stopEvent, server,
                   dwCheckPoint, dependents>>

\* ChangeServiceConfig2 sets the description; when it fails the call does, and
\* the service stays created.
InstallDescribes(c) ==
    /\ call[c].at = "created"
    /\ \/ entry = "present" /\ Return(c, "install", 1, {}, Handle)
       \/ (entry # "present" \/ CallsFail) /\ Return(c, "install", 0, {}, Handle)
    /\ UNCHANGED <<serviceVars, dependents, stoppedDuring>>

\* OpenSCManager, OpenService and DeleteService, which refuses a second time.
DeleteSvc(c) ==
    /\ call[c].at = "idle"
    /\ \/ /\ entry = "present"
          /\ entry' = "marked"
          /\ Return(c, "delete", 1, Handle, Handle)
       \/ /\ \/ CallsFail /\ Return(c, "delete", 0, {}, {})
             \/ /\ entry = "absent" \/ CallsFail
                /\ Return(c, "delete", 0, {"manager"}, {"manager"})
             \/ /\ entry = "marked" \/ (entry = "present" /\ CallsFail)
                /\ Return(c, "delete", 0, Handle, Handle)
          /\ UNCHANGED entry
    /\ UNCHANGED <<current, status, process, svcMain, handler, stopEvent, server,
                   dwCheckPoint, dependents>>

\* The SCM removes a marked service when it is stopped and nobody has it open.
Removed ==
    /\ entry = "marked"
    /\ status.state = "STOPPED"
    /\ \A c \in Console : handles[c] = {}
    /\ entry' = "absent"
    /\ UNCHANGED <<current, status, process, svcMain, handler, stopEvent, server,
                   dwCheckPoint, consoleVars, stoppedDuring>>
    /\ Silent

\* Each of the three requests has error codes and closes of its own.
GetServiceStatus(c) ==
    /\ call[c].at = "idle"
    /\ \/ /\ CallsFail
          /\ \E code \in {8, 9, 15} : Return(c, "status", code, {}, {})
       \/ /\ CallsFail
          /\ \E code \in 8 .. 10 : Return(c, "status", code, {"manager"}, {"manager"})
       \/ /\ entry = "absent"
          /\ Return(c, "status", 11, {"manager"}, {"manager"})
       \/ /\ entry # "absent" /\ CallsFail
          /\ \E code \in {8, 9, 12, 13, 14} : Return(c, "status", code, Handle, Handle)
       \/ /\ entry # "absent"
          /\ Return(c, "status", StateCode[status.state], Handle, Handle)
    /\ UNCHANGED <<serviceVars, dependents>>

-----------------------------------------------------------------------------
(* StopSvc                                                                 *)

\* Where StopSvc goes with a status it has just read: on to the dependent
\* services unless a stop is pending.
StopGoesOn == IF status.state = "STOP_PENDING" THEN "stop_wait" ELSE "stop_enum"

\* Open, query, and FALSE at once if the service is already stopped.
StopBegins(c) ==
    /\ call[c].at = "idle"
    /\ \/ CallsFail /\ Return(c, "stop", 0, {}, {})
       \/ /\ entry = "absent" \/ CallsFail
          /\ Return(c, "stop", 0, {"manager"}, {"manager"})
       \/ /\ entry # "absent" /\ CallsFail
          /\ Return(c, "stop", 0, Handle, Handle)
       \/ /\ entry # "absent" /\ status.state = "STOPPED"
          /\ Return(c, "stop", 0, Handle, Handle)
       \/ /\ entry # "absent" /\ status.state # "STOPPED"
          /\ Open(c)
          /\ Goto(c, StopGoesOn) /\ Silent
    /\ UNCHANGED <<serviceVars, dependents>>

\* Fault: the exit of a stop that is over closes one handle only.
StopWaitLeaks(c) ==
    /\ call[c].at = "stop_wait"
    /\ \/ CallsFail /\ Return(c, "stop", 0, {}, Handle)
       \/ status.state = "STOPPED" /\ Return(c, "stop", 0, {}, {"manager"})
       \/ /\ status.state # "STOPPED" /\ call[c].late
          /\ Return(c, "stop", 0, {}, Handle)
       \/ /\ status.state # "STOPPED" /\ ~ call[c].late
          /\ Goto(c, StopGoesOn)
          /\ UNCHANGED handles /\ Silent
    /\ UNCHANGED <<serviceVars, dependents, stoppedDuring>>

\* Fault: a call that gives up waiting reports success.
StopWaitsLate(c) ==
    /\ call[c].at = "stop_wait"
    /\ \/ CallsFail /\ Return(c, "stop", 0, {}, Handle)
       \/ status.state = "STOPPED" /\ Return(c, "stop", 0, {}, Handle)
       \/ /\ status.state # "STOPPED" /\ call[c].late
          /\ Return(c, "stop", 1, {}, Handle)
       \/ /\ status.state # "STOPPED" /\ ~ call[c].late
          /\ Goto(c, StopGoesOn)
          /\ UNCHANGED handles /\ Silent
    /\ UNCHANGED <<serviceVars, dependents, stoppedDuring>>

\* A stop is pending: poll until it is over (FALSE), or the call is late.
StopWaits(c) ==
    /\ call[c].at = "stop_wait"
    /\ \/ CallsFail /\ Return(c, "stop", 0, {}, Handle)
       \/ status.state = "STOPPED" /\ Return(c, "stop", 0, {}, Handle)
       \/ /\ status.state # "STOPPED" /\ call[c].late
          /\ Return(c, "stop", 0, {}, Handle)
       \/ /\ status.state # "STOPPED" /\ ~ call[c].late
          /\ Goto(c, StopGoesOn)
          /\ UNCHANGED handles /\ Silent
    /\ UNCHANGED <<serviceVars, dependents, stoppedDuring>>

\* StopDependentServices asks how much room the list of the dependent services
\* that run takes, ...
StopEnumerates(c) ==
    /\ call[c].at = "stop_enum"
    /\ \/ /\ dependents = {} \/ CallsFail
          /\ Goto(c, "stop_send")
       \/ /\ dependents # {}
          /\ call' = [call EXCEPT ![c].at = "stop_list", ![c].todo = dependents]
    /\ Silent
    /\ UNCHANGED <<serviceVars, handles, dependents, stoppedDuring>>

\* ... and then for the list, which no longer fits if others have been started.
StopLists(c) ==
    /\ call[c].at = "stop_list"
    /\ \/ /\ dependents # {}
          /\ dependents = call[c].todo \/ ~ call[c].todo \subseteq dependents
          /\ call' = [call EXCEPT ![c].at = "stop_dependents", ![c].todo = dependents]
       \/ /\ dependents = {} \/ ~ dependents \subseteq call[c].todo \/ CallsFail
          /\ call' = [call EXCEPT ![c].at = "stop_send", ![c].todo = {}]
    /\ Silent
    /\ UNCHANGED <<serviceVars, handles, dependents, stoppedDuring>>

\* StopDependentServices takes the next of its list.  A service that does not
\* take the control ends the function; one that does not stop in time, or cannot
\* be queried, only its own loop.  The result is not looked at.
StopDependent(c, d) ==
    /\ call[c].at = "stop_dependents"
    /\ d \in call[c].todo
    /\ LET rest == call[c].todo \ {d}
           next(todo) == [call EXCEPT ![c].todo = todo,
                          ![c].at = IF todo = {} THEN "stop_send" ELSE "stop_dependents"]
       IN  \/ /\ d \in dependents
              /\ dependents' = dependents \ {d}
              /\ call' = next(rest)
           \/ /\ d \in dependents
              /\ CallsFail
              /\ call' = next(rest)
              /\ UNCHANGED dependents
           \/ /\ d \notin dependents \/ CallsFail
              /\ call' = next({})
              /\ UNCHANGED dependents
    /\ Silent
    /\ UNCHANGED <<serviceVars, handles, stoppedDuring>>

\* ControlService: refused in a pending or stopped state and while a dependent
\* service runs; the SCM waits for a control that is being handled.
StopSends(c) ==
    /\ call[c].at = "stop_send"
    /\ \/ /\ AcceptsStop
          /\ dependents = {}
          /\ Deliver(current)
          /\ call' = [call EXCEPT ![c].at = "stop_sent", ![c].asked = current]
          /\ UNCHANGED handles /\ Silent
       \/ /\ ~ AcceptsStop \/ dependents # {} \/ CallsFail
          /\ Return(c, "stop", 0, {}, Handle)
          /\ UNCHANGED serviceVars
    /\ UNCHANGED <<dependents, stoppedDuring>>

\* ControlService returns with the status once the handler is through.
StopSent(c) ==
    /\ call[c].at = "stop_sent"
    /\ \/ /\ handler[call[c].asked] = "done"
          /\ IF status.state = "STOPPED"
             THEN Return(c, "stop", 1, {}, Handle)
             ELSE /\ Goto(c, "stop_poll")
                  /\ UNCHANGED handles /\ Silent
       \/ CallsFail /\ Return(c, "stop", 0, {}, Handle)
    /\ UNCHANGED <<serviceVars, dependents, stoppedDuring>>

\* Fault: the time is not looked at.
StopPollsOn(c) ==
    /\ call[c].at = "stop_poll"
    /\ IF status.state = "STOPPED"
       THEN Return(c, "stop", 1, {}, Handle)
       ELSE UNCHANGED <<call, handles>> /\ Silent
    /\ UNCHANGED <<serviceVars, dependents, stoppedDuring>>

\* Poll until the service is stopped (TRUE) or the call is late (FALSE).
StopPolls(c) ==
    /\ call[c].at = "stop_poll"
    /\ \/ CallsFail /\ Return(c, "stop", 0, {}, Handle)
       \/ status.state = "STOPPED" /\ Return(c, "stop", 1, {}, Handle)
       \/ /\ status.state # "STOPPED" /\ call[c].late
          /\ Return(c, "stop", 0, {}, Handle)
       \/ /\ status.state # "STOPPED" /\ ~ call[c].late
          /\ UNCHANGED <<call, handles>> /\ Silent
    /\ UNCHANGED <<serviceVars, dependents, stoppedDuring>>

-----------------------------------------------------------------------------
(* StartSvc                                                                *)

\* The next status of a loop: a new check point is progress and restarts the
\* time; without it the loop is given up as soon as more than the wait hint of
\* the status has passed (which is at once unless there is a hint).
MadeProgress(c) == status.checkPoint > call[c].oldCheckPoint
GivesUp(c) == ~ MadeProgress(c) /\ (~ status.hinted \/ call[c].late)

Reads(c, label) ==
    call' = [call EXCEPT ![c].at = label,
             ![c].oldCheckPoint = IF MadeProgress(c) THEN status.checkPoint ELSE @,
             ![c].late = IF MadeProgress(c) THEN FALSE ELSE @]

StartBegins(c) ==
    /\ call[c].at = "idle"
    /\ \/ CallsFail /\ Return(c, "start", 0, {}, {})
       \/ /\ entry = "absent" \/ CallsFail
          /\ Return(c, "start", 0, {"manager"}, {"manager"})
       \/ /\ entry # "absent" /\ CallsFail
          /\ Return(c, "start", 0, Handle, Handle)
       \/ /\ entry # "absent" /\ status.state \notin {"STOPPED", "STOP_PENDING"}
          /\ Return(c, "start", 0, Handle, Handle)
       \/ /\ entry # "absent" /\ status.state \in {"STOPPED", "STOP_PENDING"}
          /\ Open(c)
          /\ call' = [call EXCEPT ![c].at = IF status.state = "STOPPED" THEN "start_call"
                                                                    ELSE "start_wait",
                                  ![c].oldCheckPoint = status.checkPoint]
          /\ Silent
    /\ UNCHANGED <<serviceVars, dependents>>

\* Wait for the service to stop before attempting to start it.
StartWaits(c) ==
    /\ call[c].at = "start_wait"
    /\ \/ CallsFail /\ Return(c, "start", 0, {}, Handle)
       \/ GivesUp(c) /\ Return(c, "start", 0, {}, Handle)
       \/ /\ ~ GivesUp(c)
          /\ Reads(c, IF status.state = "STOP_PENDING" THEN "start_wait" ELSE "start_call")
          /\ UNCHANGED handles /\ Silent
    /\ UNCHANGED <<serviceVars, dependents, stoppedDuring>>

\* StartService: refused unless the service is stopped and not marked.
StartCalls(c) ==
    /\ call[c].at = "start_call"
    /\ \/ /\ status.state = "STOPPED"
          /\ entry = "present"
          /\ \E i \in Instance : Launch(i)
          /\ Goto(c, "start_check")
          /\ UNCHANGED handles /\ Silent
       \/ /\ \/ status.state # "STOPPED"
             \/ entry # "present"
             \/ \A i \in Instance : process[i] # "none"
             \/ CallsFail
          /\ Return(c, "start", 0, {}, Handle)
          /\ UNCHANGED serviceVars
    /\ UNCHANGED <<dependents, stoppedDuring>>

\* The first query after StartService; its failure is the last FALSE.
StartChecks(c) ==
    /\ call[c].at = "start_check"
    /\ \/ /\ status.state = "START_PENDING"
          /\ call' = [call EXCEPT ![c].at = "start_poll", ![c].late = FALSE,
                                  ![c].oldCheckPoint = status.checkPoint]
          /\ UNCHANGED handles /\ Silent
       \/ status.state # "START_PENDING" /\ Return(c, "start", 1, {}, Handle)
       \/ CallsFail /\ Return(c, "start", 0, {}, Handle)
    /\ UNCHANGED <<serviceVars, dependents, stoppedDuring>>

\* However the loop is left, by a failed query or without progress included,
\* the call returns TRUE.
StartPolls(c) ==
    /\ call[c].at = "start_poll"
    /\ \/ /\ status.state # "START_PENDING" \/ GivesUp(c) \/ CallsFail
          /\ Return(c, "start", 1, {}, Handle)
       \/ /\ status.state = "START_PENDING"
          /\ ~ GivesUp(c)
          /\ Reads(c, "start_poll")
          /\ UNCHANGED handles /\ Silent
    /\ UNCHANGED <<serviceVars, dependents, stoppedDuring>>

-----------------------------------------------------------------------------

\* A step of one call.
CallStep(c) ==
    \/ InstallDescribes(c)
    \/ StopWaits(c) \/ StopEnumerates(c) \/ StopLists(c)
    \/ StopSends(c) \/ StopSent(c) \/ StopPolls(c)
    \/ \E d \in Dependent : StopDependent(c, d)
    \/ StartWaits(c) \/ StartCalls(c) \/ StartChecks(c) \/ StartPolls(c)

Begin(c) ==
    /\ \/ InstallCreates(c) \/ DeleteSvc(c) \/ GetServiceStatus(c)
       \/ StopBegins(c) \/ StartBegins(c)
    /\ stoppedDuring' = stoppedDuring \ {c}

\* A step of a process of the service; whoever is stopping it could see it stop.
ServiceStep(i) ==
    /\ Progress(i) \/ ServerThread(i)
    /\ stoppedDuring' = IF status.state # "STOPPED" /\ status'.state = "STOPPED"
                        THEN {c \in Console : call[c].at \in StopLabel}
                        ELSE stoppedDuring
    /\ Silent
    /\ UNCHANGED consoleVars

\* A dependent service is started, which the SCM allows while this one runs.
DependentStarts(d) ==
    /\ status.state = "RUNNING"
    /\ d \notin dependents
    /\ dependents' = dependents \union {d}
    /\ UNCHANGED <<serviceVars, call, handles, stoppedDuring>> /\ Silent

Next ==
    \/ \E i \in Instance : ServiceStep(i)
    \/ \E c \in Console : Begin(c) \/ CallStep(c) \/ Elapse(c)
    \/ \E d \in Dependent : DependentStarts(d)
    \/ Removed

Spec == Init /\ [][Next]_vars

\* Threads and calls run on, time passes, and the SCM removes what it can; nobody
\* has to make a call.
Fairness ==
    /\ \A i \in Instance : WF_vars(ServiceStep(i))
    /\ \A c \in Console : WF_vars(CallStep(c)) /\ WF_vars(Elapse(c))
    /\ WF_vars(Removed)

FairSpec == Spec /\ Fairness

-----------------------------------------------------------------------------
(* Properties                                                              *)

\* StopSvc returns TRUE only if the service was reported stopped while the call
\* was under way, whatever the other consoles have started or stopped meanwhile.
StopTrueMeansStopped ==
    \A c \in Console :
        returned = [by |-> c, op |-> "stop", result |-> 1] => c \in stoppedDuring

\* Each of the exits closes what the call has open when it gets there, and no
\* call goes on with less than both handles.
HandlesClosed ==
    \A c \in Console : handles[c] = IF call[c].at = "idle" THEN {} ELSE Handle

\* So a deleted service goes, and can be installed again, as soon as it is stopped
\* and nobody is calling: no call that is over, or has failed half-way, still
\* holds it.
DeletedGoes ==
    entry = "marked" /\ status.state = "STOPPED"
      ~> entry = "absent" \/ \E c \in Console : call[c].at # "idle"

\* The states the service shows follow each other as the SCM prescribes; above
\* all a process that has reported STOPPED never reports anything else.
LegalMoves ==
    [][status'.state # status.state =>
          \/ status.state = "STOPPED" /\ status'.state = "START_PENDING"
          \/ status.state = "START_PENDING" /\ status'.state \in {"RUNNING", "STOPPED"}
          \/ status.state = "RUNNING" /\ status'.state = "STOP_PENDING"
          \/ status.state = "STOP_PENDING" /\ status'.state = "STOPPED"]_vars

\* A call returns, though others may keep the service busy for ever.
CallsReturn == \A c \in Console : call[c].at # "idle" ~> call[c].at = "idle"

\* The control handler having been called, the process ends.
StopEndsProcess == \A i \in Instance : handler[i] = "called" ~> process[i] = "gone"

\* Nobody waits in vain for a control: the handler runs in a process whose start
\* is over and which lasts until the handler is through, the dispatcher then
\* knows the service to be stopped, and a StopSvc that is in ControlService waits
\* for a handler that has been called.
NobodyWaitsInVain ==
    /\ \A i \in Instance :
         /\ handler[i] \in {"called", "pending", "signalled"} =>
              process[i] = "running" /\ svcMain[i] = "ended"
         /\ handler[i] = "done" /\ process[i] = "running" => ReportedStopped(i)
    /\ \A c \in Console : call[c].at = "stop_sent" =>
         call[c].asked \in Instance /\ handler[call[c].asked] # "idle"

\* And a process runs down: once its handler is called, every step of it is one
\* of the few that are left.
HandlerLeft == [idle |-> 4, called |-> 3, pending |-> 2, signalled |-> 1, done |-> 0]
ProcessLeft == [none |-> 3, running |-> 2, destroyed |-> 1, gone |-> 0]

RunsDown ==
    [][\A i \in Instance : handler[i] # "idle" =>
          /\ svcMain'[i] = svcMain[i]
          /\ handler'[i] # handler[i] => HandlerLeft[handler'[i]] < HandlerLeft[handler[i]]
          /\ process'[i] # process[i] => ProcessLeft[process'[i]] < ProcessLeft[process[i]]]_vars

\* One process reports at a time, the one started last: what a process of an
\* earlier start still does, the administrators never see.
OneReporter ==
    \A i \in Instance \ {current} :
        /\ svcMain[i] \notin {"begun", "started", "queued"}
        /\ handler[i] \notin {"called", "pending", "signalled"}

\* "Wait for the service to stop before attempting to start it."
\* (ServiceConsoleManager.cpp:249): a StartSvc that waits for a pending stop and
\* then sees the service stopped goes on to start it.
StartWaitsForStop ==
    [][\A c \in Console :
          call[c].at = "start_wait" /\ call'[c].at # "start_wait" /\ status.state = "STOPPED"
          => call'[c].at = "start_call"]_vars

\* "Check the status until the service is no longer start pending."
\* (ServiceConsoleManager.cpp:308): StartSvc does not return TRUE while it is.
StartPollsUntilStarted ==
    [][\A c \in Console :
          call[c].at = "start_poll" /\ call'[c].at = "idle" => status.state # "START_PENDING"]_vars

\* A running service serves, or will: its server thread has not ended.
RunningServes ==
    status.state = "RUNNING" => server[current] # "ended"

\* The destructor of ProxyService finds no thread that still uses the object.
NoneUsesDestroyed ==
    \A i \in Instance : process[i] = "destroyed" => server[i] \in {"none", "stopping", "ended"}
===============================================================================
