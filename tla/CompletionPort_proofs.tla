----------------------- MODULE CompletionPort_proofs -----------------------
(***************************************************************************)
(* Theorems about CompletionPort, for any connections, ids and workers.    *)
(***************************************************************************)
EXTENDS CompletionPort, FiniteSetTheorems, TLAPS

(* The calls of InitializeEnvironment.                                     *)
Initializes ==
    \/ InitializeLibrary \/ StartWinsock \/ InitializeIOCP \/ InitHostAddress
    \/ InitializeEvents \/ InitializeDeviceNotificationThread \/ InitializeWSASocket

(* The actions a step may be.                                              *)
LEMMA NextCases ==
    ASSUME [Next]_vars
    PROVE  \/ Initializes
           \/ StartFails \/ StartAccept \/ Started \/ SetShutdown
           \/ \E w \in Worker : StartWorker(w)
           \/ JoinAccept \/ PostNull \/ Posted \/ JoinWorkers \/ Clean
           \/ AcceptTop \/ AcceptTimeout \/ AddToClientList
           \/ \E c \in Client : Accept(c) \/ AcceptFails(c)
           \/ \E w \in Worker : WorkerTop(w) \/ TakeNull(w) \/ Take(w) \/ CheckWoken(w)
           \/ \E w \in Worker, c \in Client : HandleStep(w, c)
           \/ \E c \in Client : PeerConnects(c) \/ PeerLeaves(c)
           \/ \E c \in Client, ok \in BOOLEAN : Complete(c, ok)
           \/ UNCHANGED vars
<1>1. CASE MainStep
  BY <1>1 DEF MainStep, Initializes
<1>2. CASE StopStep
  BY <1>2 DEF StopStep
<1>3. CASE AcceptStep
  BY <1>3 DEF AcceptStep
<1>4. CASE \E w \in Worker : WorkerStep(w)
  BY <1>4 DEF WorkerStep
<1>5. CASE NetStep
  BY <1>5 DEF NetStep
<1>6. QED
  BY <1>1, <1>2, <1>3, <1>4, <1>5 DEF Next

(* Calls of InitializeEnvironment touch only main and open.                *)
LEMMA CallsOnly ==
    ASSUME Initializes
    PROVE  /\ main \in {"new"} \union Initializing
           /\ main' \in {"failed", "failing", "ready"} \union Initializing
           /\ open' \subseteq open \union Resource
           /\ UNCHANGED noThreadVars
BY DEF Initializes, InitializeLibrary, StartWinsock, InitializeIOCP, InitHostAddress,
       InitializeEvents, InitializeDeviceNotificationThread, InitializeWSASocket,
       Calls, Initializing, Resource

-----------------------------------------------------------------------------
(* Types                                                                   *)

Steps == {"none", "top", "wait", "woken", "handle", "posted", "done"}

(* What RemoveClient, CleanClientList and the endings of a handler leave   *)
(* behind has its type.                                                    *)
LEMMA RemovalTypes ==
    ASSUME TypeOK,
           \/ CleanClientList
           \/ \E id \in Id : RemoveClient(id)
    PROVE  /\ context' \in [Client -> {"none", "alive", "freed"}]
           /\ clientsMap' \in [Id -> Client \cup {NoClient}]
<1>1. CASE CleanClientList
  BY <1>1 DEF TypeOK, CleanClientList
<1>2. ASSUME NEW id \in Id, RemoveClient(id)
      PROVE  /\ context' \in [Client -> {"none", "alive", "freed"}]
             /\ clientsMap' \in [Id -> Client \cup {NoClient}]
  BY <1>2 DEF TypeOK, RemoveClient
<1>3. QED
  BY <1>1, <1>2

LEMMA WorkerTypes ==
    ASSUME TypeOK, NEW w \in Worker, NEW s \in {"top", "wait", "woken", "done"},
           worker' = [worker EXCEPT ![w] = At(s)]
    PROVE  worker' \in [Worker -> [at : Steps, client : Client \cup {NoClient}, ok : BOOLEAN]]
BY DEF TypeOK, At, Steps

LEMMA TypeStep ==
    ASSUME TypeOK, [Next]_vars
    PROVE  TypeOK'
<1> USE DEF TypeOK, mainVars, acceptVars, contextVars, portVars, workerVars, errorVars, Steps
<1>1. ASSUME Initializes
      PROVE  TypeOK'
  BY <1>1, CallsOnly DEF noThreadVars
<1>2. ASSUME \/ StartFails \/ StartAccept \/ Started \/ SetShutdown \/ Posted \/ JoinWorkers
      PROVE  TypeOK'
  <2>1. CASE StartFails
    BY <2>1 DEF StartFails, DeInitialized, noThreadVars
  <2>2. CASE StartAccept
    BY <2>2 DEF StartAccept
  <2>3. CASE Started \/ Posted \/ JoinWorkers
    BY <2>3 DEF Started, Posted, JoinWorkers, noThreadVars
  <2>4. CASE SetShutdown
    BY <2>4 DEF SetShutdown
  <2>5. QED
    BY <1>2, <2>1, <2>2, <2>3, <2>4
<1>3. CASE \E w \in Worker : StartWorker(w)
  BY <1>3, WorkerTypes DEF StartWorker
<1>4. CASE JoinAccept
  BY <1>4, WorkerAssumption, FS_CardinalityType DEF JoinAccept
<1>5. CASE PostNull
  BY <1>5 DEF PostNull
<1>6. CASE Clean
  BY <1>6, RemovalTypes DEF Clean, DeInitialized
<1>7. CASE AcceptTop \/ AcceptTimeout
  BY <1>7 DEF AcceptTop, AcceptTimeout
<1>8. CASE AddToClientList
  BY <1>8 DEF AddToClientList
<1>9. ASSUME NEW c \in Client, Accept(c) \/ AcceptFails(c)
      PROVE  TypeOK'
  <2>1. CASE Accept(c)
    BY <2>1 DEF Accept
  <2>2. CASE AcceptFails(c)
    <3>1. /\ \/ \E old : context' = [b \in Client |-> IF b \in {c, old} THEN "freed"
                                                     ELSE context[b]]
             \/ context' = [context EXCEPT ![c] = "freed"]
          /\ clientsMap' \in {clientsMap, [clientsMap EXCEPT ![IdOf[c]] = NoClient]}
      BY <2>2 DEF AcceptFails
    <3>2. context' \in [Client -> {"none", "alive", "freed"}]
      BY <3>1
    <3>3. clientsMap' \in [Id -> Client \cup {NoClient}]
      BY <3>1
    <3>4. /\ accepting' = "top"
          /\ net' = [net EXCEPT ![c] = "lost"]
          /\ UNCHANGED <<mainVars, acceptor, portVars, workerVars>>
      BY <2>2 DEF AcceptFails
    <3>5. QED
      BY <3>2, <3>3, <3>4
  <2>3. QED
    BY <1>9, <2>1, <2>2
<1>10. ASSUME NEW w \in Worker, WorkerTop(w) \/ TakeNull(w)
       PROVE  TypeOK'
  <2>1. worker' \in [Worker -> [at : Steps, client : Client \cup {NoClient}, ok : BOOLEAN]]
    BY <1>10, WorkerTypes DEF WorkerTop, TakeNull
  <2>2. QED
    BY <1>10, <2>1 DEF WorkerTop, TakeNull
<1>11. ASSUME NEW w \in Worker, Take(w)
       PROVE  TypeOK'
  BY <1>11 DEF Take
<1>12. ASSUME NEW w \in Worker, CheckWoken(w)
       PROVE  TypeOK'
  <2>1. worker' = [worker EXCEPT ![w] = At("done")]
        \/ worker' = [worker EXCEPT ![w] = [@ EXCEPT !.at = "handle"]]
    BY <1>12 DEF CheckWoken, TypeOK
  <2>2. worker' \in [Worker -> [at : Steps, client : Client \cup {NoClient}, ok : BOOLEAN]]
    <3>1. CASE worker' = [worker EXCEPT ![w] = At("done")]
      BY <3>1, WorkerTypes
    <3>2. CASE worker' = [worker EXCEPT ![w] = [@ EXCEPT !.at = "handle"]]
      BY <3>2
    <3>3. QED
      BY <2>1, <3>1, <3>2
  <2>3. UNCHANGED <<mainVars, acceptVars, contextVars, portVars, errorVars, net>>
    BY <1>12 DEF CheckWoken
  <2>4. QED
    BY <2>2, <2>3
<1>13. ASSUME NEW w \in Worker, NEW c \in Client,
              \/ HandleFailure(w, c) \/ HandleDisconnect(w, c) \/ SendFails(w, c)
              \/ RemoveMistaken(w, c) \/ NextReceiveFails(w, c)
       PROVE  TypeOK'
  <2>1. IdOf[c] \in Id /\ Remove(w, c)
    BY <1>13, IdAssumption DEF HandleFailure, HandleDisconnect, SendFails,
                               RemoveMistaken, NextReceiveFails
  <2>2. /\ context' \in [Client -> {"none", "alive", "freed"}]
        /\ clientsMap' \in [Id -> Client \cup {NoClient}]
    BY <2>1, RemovalTypes DEF Remove
  <2>3. worker' \in [Worker -> [at : Steps, client : Client \cup {NoClient}, ok : BOOLEAN]]
    BY <2>1, WorkerTypes DEF Remove, Done
  <2>4. stale' \in [Worker -> BOOLEAN]
    BY <1>13 DEF HandleFailure, HandleDisconnect, SendFails,
                 RemoveMistaken, NextReceiveFails
  <2>5. /\ io' \in [Client -> {"OP_READ", "OP_WRITE"}]
        /\ UNCHANGED <<request, operations, packets, nulls, mistaken>>
    BY <1>13 DEF HandleFailure, HandleDisconnect, SendFails,
                 RemoveMistaken, NextReceiveFails
  <2>6. QED
    BY <2>1, <2>2, <2>3, <2>4, <2>5 DEF Remove, Steps
<1>14. ASSUME NEW w \in Worker, NEW c \in Client,
              HandleCommand(w, c) \/ HandleRest(w, c) \/ NextReceive(w, c)
       PROVE  TypeOK'
  <2>1. worker' \in [Worker -> [at : Steps, client : Client \cup {NoClient}, ok : BOOLEAN]]
    BY <1>14, WorkerTypes DEF HandleCommand, HandleRest, NextReceive, Post, Done
  <2>2. stale' \in [Worker -> BOOLEAN]
    BY <1>14 DEF HandleCommand, HandleRest, NextReceive
  <2>3. /\ io' \in [Client -> {"OP_READ", "OP_WRITE"}]
        /\ operations' \in [Client -> Nat]
    <3>1. \E code \in {"OP_READ", "OP_WRITE"} : Post(w, c, code)
      BY <1>14 DEF HandleCommand, HandleRest, NextReceive
    <3>2. QED
      BY <3>1 DEF Post
  <2>4. UNCHANGED <<mainVars, acceptVars, contextVars, request, packets, nulls, net, mistaken>>
    BY <1>14 DEF HandleCommand, HandleRest, NextReceive, Post
  <2>5. QED
    BY <2>1, <2>2, <2>3, <2>4 DEF Steps
<1>19. ASSUME NEW w \in Worker, NEW c \in Client, NextReceiveMistaken(w, c)
       PROVE  TypeOK'
  <2>1. packets' \in [Client -> [BOOLEAN -> Nat]]
    <3>1. packets' = [packets EXCEPT ![c][TRUE] = @ + 1]
      BY <1>19 DEF NextReceiveMistaken
    <3>2. ASSUME NEW ok \in BOOLEAN, packets' = [packets EXCEPT ![c][ok] = @ + 1]
          PROVE  packets' \in [Client -> [BOOLEAN -> Nat]]
      BY <3>2
    <3>3. QED
      BY <3>1, <3>2
  <2>2. request' \in [Client -> Request]
    BY <1>19 DEF NextReceiveMistaken, Receives
  <2>3. worker' \in [Worker -> [at : Steps, client : Client \cup {NoClient}, ok : BOOLEAN]]
    <3>1. worker' = [worker EXCEPT ![w] = [worker[w] EXCEPT !.at = "posted"]]
      BY <1>19 DEF NextReceiveMistaken
    <3>2. QED
      BY <3>1
  <2>4. /\ io' = [io EXCEPT ![c] = "OP_WRITE"]
        /\ mistaken' = mistaken \union {c}
        /\ UNCHANGED <<mainVars, acceptVars, contextVars, operations, nulls, stale, net>>
    BY <1>19 DEF NextReceiveMistaken
  <2>5. QED
    BY <2>1, <2>2, <2>3, <2>4 DEF Steps
<1>15. ASSUME NEW c \in Client, PeerConnects(c) \/ PeerLeaves(c)
       PROVE  TypeOK'
  BY <1>15 DEF PeerConnects, PeerLeaves
<1>16. ASSUME NEW c \in Client, NEW ok \in BOOLEAN, Complete(c, ok)
       PROVE  TypeOK'
  <2>1. request' \in [Client -> Request]
    BY <1>16 DEF Complete, Receives
  <2>2. /\ operations[c] > 0
        /\ operations' = [operations EXCEPT ![c] = @ - 1]
        /\ packets' = [packets EXCEPT ![c][ok] = @ + 1]
        /\ UNCHANGED <<mainVars, acceptVars, contextVars, io, nulls, workerVars, net>>
    BY <1>16 DEF Complete
  <2>3. QED
    BY <2>1, <2>2
<1>17. CASE UNCHANGED vars
  BY <1>17 DEF vars
<1>18. QED
  BY NextCases, <1>1, <1>2, <1>3, <1>4, <1>5, <1>6, <1>7, <1>8, <1>9, <1>10, <1>11,
     <1>12, <1>13, <1>14, <1>15, <1>16, <1>17, <1>19 DEF HandleStep

LEMMA InitTypes == Init => TypeOK
<1>1. At("none") \in [at : Steps, client : Client \cup {NoClient}, ok : BOOLEAN]
  BY DEF At, Steps
<1>2. [ok \in BOOLEAN |-> 0] \in [BOOLEAN -> Nat]
  OBVIOUS
<1>3. ASSUME Init
      PROVE  /\ worker \in [Worker -> [at : Steps, client : Client \cup {NoClient},
                                       ok : BOOLEAN]]
             /\ packets \in [Client -> [BOOLEAN -> Nat]]
  BY <1>1, <1>2, <1>3 DEF Init
<1>4. ASSUME Init
      PROVE  /\ main = "new" /\ open \subseteq Resource
             /\ clientsMap \in [Id -> Client \cup {NoClient}]
             /\ context \in [Client -> {"none", "alive", "freed"}]
             /\ io \in [Client -> {"OP_READ", "OP_WRITE"}]
             /\ request \in [Client -> Request]
             /\ operations \in [Client -> Nat]
             /\ net \in [Client -> {"away", "asking", "up", "lost"}]
             /\ mistaken \subseteq Client
  BY <1>4 DEF Init, Request
<1>5. ASSUME Init
      PROVE  /\ toPost \in Nat /\ nulls \in Nat /\ shutdown \in BOOLEAN
             /\ accepting = "none" /\ acceptor = NoClient
             /\ stale \in [Worker -> BOOLEAN]
  BY <1>5 DEF Init
<1>6. QED
  BY <1>3, <1>4, <1>5 DEF TypeOK, Steps

(* Every variable keeps its type.                                          *)
THEOREM TypeCorrect == Spec => []TypeOK
BY InitTypes, TypeStep, PTL DEF Spec

-----------------------------------------------------------------------------
(* The phases of Start and Stop                                            *)

Unstarted == {"new", "failing", "ready", "failed"} \union Initializing

(* Which threads there are depends on how far Start and Stop have come.    *)
Phase ==
    /\ main \in Unstarted =>
         accepting = "none" /\ \A w \in Worker : worker[w].at = "none"
    /\ main \in {"posting", "joinWorkers", "cleaning", "stopped"} =>
         accepting \in {"none", "done"}
    /\ main \in {"cleaning", "stopped"} =>
         \A w \in Worker : worker[w].at \in {"none", "done"}

(* What InitializeEnvironment has opened by the time it has come so far.   *)
Opened ==
    /\ main = "new" => open = {}
    /\ main \in {"address", "event", "udp", "socket", "listen", "acceptEvent",
                  "select", "ready", "starting"} => "port" \in open
    /\ main \in {"udp", "socket", "listen", "acceptEvent", "select", "ready",
                  "starting"} => "shutdownEvent" \in open
    /\ main \in {"acceptEvent", "select", "ready"} => "listening" \in open
    /\ main \in {"select", "ready"} => "acceptEvent" \in open
    /\ main \in {"failed", "stopped"} =>
         open \intersect {"port", "shutdownEvent", "listenSocket", "listening"} = {}

(* A context that lives is owned: by AcceptConnection or by the map.       *)
Owned ==
    /\ accepting = "list" <=> acceptor # NoClient
    /\ \A c \in Client : context[c] = "alive" =>
         acceptor = c \/ \E i \in Id : clientsMap[i] = c

(* A connection that is not accepted has no context and nothing in flight. *)
Unaccepted(c) == net[c] \in {"away", "asking"}

Good(c) == packets[c][TRUE]
Bad(c) == packets[c][FALSE]
InFlight(c) == operations[c] + Good(c) + Bad(c)

Quiet(c) == InFlight(c) = 0 /\ \A w \in Worker : ~Holds(w, c)

Fresh == \A c \in Client : Unaccepted(c) => Quiet(c)

(* Every context is in the map under its own id.                           *)
Filed == \A i \in Id, c \in Client : clientsMap[i] = c => IdOf[c] = i

Placed ==
    /\ \A i \in Id, c \in Client : clientsMap[i] = c => acceptor # c /\ ~Unaccepted(c)
    /\ \A c \in Client : acceptor = c => ~Unaccepted(c)
    /\ \A c \in Client : context[c] = "none" <=> Unaccepted(c)

(* Once a context is destroyed nothing of it is in flight, but for those   *)
(* dropped by mistake and those that go with another.                      *)
Settled ==
    /\ \A c \in Client :
         context[c] = "freed" /\ c \notin mistaken /\ ~Shares(c) /\ main # "stopped"
           => Quiet(c)
    /\ \A w \in Worker : worker[w].at = "posted" => worker[w].client \in mistaken

(* A completion that failed is that of a lost connection or of an empty    *)
(* reply, as long as the context is there.                                 *)
Failure(c) == Bad(c) > 0 \/ \E w \in Worker : Holds(w, c) /\ ~worker[w].ok

Excused ==
    \A c \in Client : context[c] = "alive" /\ Failure(c) => net[c] = "lost" \/ Empty(c)

-----------------------------------------------------------------------------
(* What the handlers of a completion have in common: the worker lets go of *)
(* its completion, having posted the next operation, or removed the client,*)
(* or found the next receive complete; or it has done so before, and       *)
(* removes the client.                                                     *)
Posts(w, c) ==
    /\ Handles(w, c)
    /\ worker' = [worker EXCEPT ![w] = At("top")]
    /\ UNCHANGED <<contextVars, packets, mistaken>>
    /\ operations' = [operations EXCEPT ![c] = @ + 1]

Removes(w, c) ==
    /\ Uses(w, c)
    /\ worker' = [worker EXCEPT ![w] = At("top")]
    /\ RemoveClient(IdOf[c])
    /\ UNCHANGED <<operations, packets, mistaken>>

FindsMore(w, c) ==
    /\ Handles(w, c)
    /\ worker' = [worker EXCEPT ![w].at = "posted"]
    /\ UNCHANGED <<contextVars, operations>>
    /\ packets' = [packets EXCEPT ![c][TRUE] = @ + 1]
    /\ mistaken' = mistaken \union {c}

LEMMA HandleEffect ==
    ASSUME NEW w \in Worker, NEW c \in Client, HandleStep(w, c)
    PROVE  /\ Uses(w, c)
           /\ UNCHANGED <<mainVars, acceptVars, nulls, net>>
           /\ Posts(w, c) \/ Removes(w, c) \/ FindsMore(w, c)
<1> USE DEF Uses, Posts, Removes, FindsMore
<1>1. CASE HandleCommand(w, c) \/ HandleRest(w, c) \/ NextReceive(w, c)
  <2>1. PICK code \in {"OP_READ", "OP_WRITE"} : Post(w, c, code) /\ UNCHANGED mistaken
    BY <1>1 DEF HandleCommand, HandleRest, NextReceive
  <2>2. Handles(w, c)
    BY <1>1 DEF HandleCommand, HandleRest, NextReceive
  <2>3. QED
    BY <2>1, <2>2 DEF Post, Done
<1>2. CASE HandleFailure(w, c) \/ HandleDisconnect(w, c) \/ RemoveMistaken(w, c)
  BY <1>2 DEF HandleFailure, HandleDisconnect, RemoveMistaken, Remove, Done, portVars,
              errorVars
<1>3. CASE SendFails(w, c) \/ NextReceiveFails(w, c)
  BY <1>3 DEF SendFails, NextReceiveFails, Remove, Done
<1>4. CASE NextReceiveMistaken(w, c)
  BY <1>4 DEF NextReceiveMistaken
<1>5. QED
  BY <1>1, <1>2, <1>3, <1>4 DEF HandleStep

(* Such a step moves one worker, which runs.                               *)
LEMMA HandleMoves ==
    ASSUME TypeOK, NEW w \in Worker, NEW c \in Client, HandleStep(w, c)
    PROVE  /\ worker[w].at \in {"handle", "posted"}
           /\ UNCHANGED <<mainVars, acceptVars, nulls, net>>
           /\ \A v \in Worker \ {w} : worker'[v] = worker[v]
           /\ \/ worker'[w].at = "top"
              \/ worker[w].at = "handle" /\ worker'[w].at = "posted"
           /\ UNCHANGED contextVars \/ RemoveClient(IdOf[c])
<1>1. Posts(w, c) \/ Removes(w, c) \/ FindsMore(w, c)
  BY HandleEffect
<1>2. worker[w].at \in {"handle", "posted"} /\ UNCHANGED <<mainVars, acceptVars, nulls, net>>
  BY HandleEffect DEF Uses, Handles, Mistakes
<1>3. CASE Posts(w, c)
  BY <1>2, <1>3 DEF Posts, TypeOK, At
<1>4. CASE Removes(w, c)
  BY <1>2, <1>4 DEF Removes, TypeOK, At
<1>5. CASE FindsMore(w, c)
  BY <1>2, <1>5 DEF FindsMore, Handles, TypeOK
<1>6. QED
  BY <1>1, <1>3, <1>4, <1>5

(* Every step keeps the threads in phase with Start and Stop.              *)
LEMMA PhaseStep ==
    ASSUME TypeOK, Phase, [Next]_vars
    PROVE  Phase'
<1> USE DEF Phase, Unstarted, Initializing, mainVars, acceptVars, workerVars
<1>1. ASSUME Initializes
      PROVE  Phase'
  BY <1>1, CallsOnly DEF noThreadVars
<1>2. ASSUME \/ StartFails \/ StartAccept \/ Started \/ SetShutdown
             \/ JoinAccept \/ PostNull \/ Posted \/ JoinWorkers \/ Clean
      PROVE  Phase'
  BY <1>2 DEF StartFails, StartAccept, Started, SetShutdown, JoinAccept, PostNull, Posted,
              JoinWorkers, Clean, noThreadVars
<1>3. ASSUME \/ AcceptTop \/ AcceptTimeout \/ AddToClientList
             \/ \E c \in Client : Accept(c) \/ AcceptFails(c)
      PROVE  Phase'
  BY <1>3 DEF AcceptTop, AcceptTimeout, AddToClientList, Accept, AcceptFails
<1>4. ASSUME NEW w \in Worker, StartWorker(w)
      PROVE  Phase'
  BY <1>4 DEF StartWorker
<1>5. ASSUME NEW w \in Worker, worker[w].at \notin {"none", "done"},
             UNCHANGED <<main, accepting>>,
             \A v \in Worker \ {w} : worker'[v] = worker[v]
      PROVE  Phase'
  BY <1>5
<1>6. ASSUME NEW w \in Worker, WorkerTop(w) \/ TakeNull(w) \/ Take(w) \/ CheckWoken(w)
      PROVE  Phase'
  BY <1>5, <1>6 DEF WorkerTop, TakeNull, Take, CheckWoken, TypeOK
<1>7. ASSUME NEW w \in Worker, NEW c \in Client, HandleStep(w, c)
      PROVE  Phase'
  <2>1. worker[w].at \notin {"none", "done"} /\ UNCHANGED <<main, accepting>>
    BY <1>7, HandleMoves
  <2>2. QED
    BY <1>5, <1>7, <2>1, HandleMoves
<1>8. ASSUME UNCHANGED <<main, accepting, worker>>
      PROVE  Phase'
  BY <1>8
<1>9. ASSUME NEW c \in Client,
             PeerConnects(c) \/ PeerLeaves(c) \/ \E ok \in BOOLEAN : Complete(c, ok)
      PROVE  Phase'
  BY <1>8, <1>9 DEF PeerConnects, PeerLeaves, Complete
<1>10. QED
  BY NextCases, <1>1, <1>2, <1>3, <1>4, <1>6, <1>7, <1>8, <1>9 DEF vars

(* Every step keeps open what the stages and the threads need.             *)
LEMMA OpenedStep ==
    ASSUME TypeOK, Phase, Opened, HandlesOpen, [Next]_vars
    PROVE  Opened' /\ HandlesOpen'
<1> USE DEF Opened, HandlesOpen, mainVars, acceptVars, workerVars
<1>1. ASSUME Initializes
      PROVE  Opened' /\ HandlesOpen'
  <2>1. Opened'
    BY <1>1 DEF Initializes, InitializeLibrary, StartWinsock, InitializeIOCP,
                InitHostAddress, InitializeEvents, InitializeDeviceNotificationThread,
                InitializeWSASocket, Calls
  <2>2. QED
    BY <1>1, <2>1, CallsOnly DEF Phase, Unstarted, noThreadVars
<1>2. ASSUME StartFails
      PROVE  Opened' /\ HandlesOpen'
  BY <1>2 DEF StartFails, DeInitialized, Phase, Unstarted, noThreadVars
<1>3. ASSUME Clean
      PROVE  Opened' /\ HandlesOpen'
  BY <1>3 DEF Clean, DeInitialized, Phase
<1>4. ASSUME \/ StartAccept \/ Started \/ SetShutdown
             \/ JoinAccept \/ PostNull \/ Posted \/ JoinWorkers
      PROVE  Opened' /\ HandlesOpen'
  BY <1>4 DEF StartAccept, Started, SetShutdown, JoinAccept, PostNull, Posted,
              JoinWorkers, noThreadVars
<1>5. ASSUME \/ AcceptTop \/ AcceptTimeout \/ AddToClientList
             \/ \E c \in Client : Accept(c) \/ AcceptFails(c)
      PROVE  Opened' /\ HandlesOpen'
  BY <1>5 DEF AcceptTop, AcceptTimeout, AddToClientList, Accept, AcceptFails
<1>6. ASSUME NEW w \in Worker, StartWorker(w)
      PROVE  Opened' /\ HandlesOpen'
  BY <1>6 DEF StartWorker
<1>7. ASSUME NEW w \in Worker, worker[w].at \notin {"none", "done"},
             UNCHANGED <<main, open, accepting>>,
             \A v \in Worker \ {w} : worker'[v] = worker[v]
      PROVE  Opened' /\ HandlesOpen'
  BY <1>7
<1>8. ASSUME NEW w \in Worker, WorkerTop(w) \/ TakeNull(w) \/ Take(w) \/ CheckWoken(w)
      PROVE  Opened' /\ HandlesOpen'
  BY <1>7, <1>8 DEF WorkerTop, TakeNull, Take, CheckWoken, TypeOK
<1>9. ASSUME NEW w \in Worker, NEW c \in Client, HandleStep(w, c)
      PROVE  Opened' /\ HandlesOpen'
  <2>1. worker[w].at \notin {"none", "done"} /\ UNCHANGED <<main, open, accepting>>
    BY <1>9, HandleMoves
  <2>2. QED
    BY <1>7, <1>9, <2>1, HandleMoves
<1>10. ASSUME UNCHANGED <<main, open, accepting, worker>>
       PROVE  Opened' /\ HandlesOpen'
  BY <1>10
<1>11. ASSUME NEW c \in Client,
              PeerConnects(c) \/ PeerLeaves(c) \/ \E ok \in BOOLEAN : Complete(c, ok)
       PROVE  Opened' /\ HandlesOpen'
  BY <1>10, <1>11 DEF PeerConnects, PeerLeaves, Complete
<1>12. QED
  BY NextCases, <1>1, <1>2, <1>3, <1>4, <1>5, <1>6, <1>8, <1>9, <1>10, <1>11 DEF vars

(* Every step keeps the contexts owned.                                    *)
LEMMA OwnedStep ==
    ASSUME TypeOK, Phase, Owned, [Next]_vars
    PROVE  Owned'
<1> USE DEF Owned, mainVars, acceptVars, contextVars, workerVars, portVars
<1>1. ASSUME UNCHANGED <<acceptVars, contextVars>>
      PROVE  Owned'
  BY <1>1
<1>2. ASSUME Initializes
      PROVE  Owned'
  BY <1>1, <1>2, CallsOnly DEF noThreadVars
<1>3. ASSUME \/ StartFails \/ Started \/ SetShutdown \/ JoinAccept
             \/ PostNull \/ Posted \/ JoinWorkers
             \/ \E w \in Worker : StartWorker(w)
      PROVE  Owned'
  BY <1>1, <1>3 DEF StartFails, Started, SetShutdown, JoinAccept, PostNull, Posted,
                    JoinWorkers, StartWorker, noThreadVars
<1>4. ASSUME StartAccept
      PROVE  Owned'
  BY <1>4 DEF StartAccept, Phase, Unstarted
<1>5. ASSUME Clean
      PROVE  Owned'
  <2>1. acceptor = NoClient /\ UNCHANGED acceptVars
    BY <1>5 DEF Clean, Phase
  <2>2. \A c \in Client : context'[c] = "alive" =>
          context[c] = "alive" /\ ~\E i \in Id : clientsMap[i] = c
    BY <1>5 DEF Clean, CleanClientList
  <2>3. QED
    BY <2>1, <2>2, NoClientAssumption
<1>6. ASSUME AcceptTop \/ AcceptTimeout
      PROVE  Owned'
  BY <1>6 DEF AcceptTop, AcceptTimeout
<1>7. ASSUME NEW c \in Client, Accept(c)
      PROVE  Owned'
  <2>1. acceptor = NoClient /\ acceptor' = c /\ accepting' = "list"
    BY <1>7 DEF Accept
  <2>2. \A b \in Client \ {c} : context'[b] = context[b]
    BY <1>7 DEF Accept, TypeOK
  <2>3. clientsMap' = clientsMap
    BY <1>7 DEF Accept
  <2>4. QED
    BY <2>1, <2>2, <2>3, NoClientAssumption
<1>8. ASSUME NEW c \in Client, AcceptFails(c)
      PROVE  Owned'
  <2>1. acceptor = NoClient /\ acceptor' = NoClient /\ accepting' = "top"
    BY <1>8 DEF AcceptFails
  <2>2. \A b \in Client : context'[b] = "alive" => context[b] = "alive"
    BY <1>8 DEF AcceptFails, TypeOK
  <2>3. \A b \in Client : context'[b] = "alive" =>
          \/ clientsMap' = clientsMap
          \/ /\ b # clientsMap[IdOf[c]]
             /\ clientsMap' = [clientsMap EXCEPT ![IdOf[c]] = NoClient]
    BY <1>8 DEF AcceptFails, TypeOK
  <2>4. QED
    BY <2>1, <2>2, <2>3, NoClientAssumption DEF TypeOK
<1>9. ASSUME AddToClientList
      PROVE  Owned'
  <2>1. acceptor \in Client /\ IdOf[acceptor] \in Id
    BY <1>9, IdAssumption DEF AddToClientList, TypeOK
  <2>2. accepting' = "top" /\ acceptor' = NoClient
    BY <1>9 DEF AddToClientList
  <2>3. CASE clientsMap[IdOf[acceptor]] = NoClient
    BY <1>9, <2>1, <2>2, <2>3, NoClientAssumption DEF AddToClientList, TypeOK
  <2>4. CASE clientsMap[IdOf[acceptor]] # NoClient
    BY <1>9, <2>1, <2>2, <2>4, NoClientAssumption DEF AddToClientList, TypeOK
  <2>5. QED
    BY <2>3, <2>4
<1>10. ASSUME NEW id \in Id, RemoveClient(id), UNCHANGED acceptVars
       PROVE  Owned'
  <2>1. \A c \in Client : context'[c] = "alive" =>
          context[c] = "alive" /\ clientsMap[id] # c
    BY <1>10 DEF RemoveClient
  <2>2. \A i \in Id \ {id} : clientsMap'[i] = clientsMap[i]
    BY <1>10 DEF RemoveClient, TypeOK
  <2>3. QED
    BY <1>10, <2>1, <2>2
<1>11. ASSUME NEW w \in Worker, WorkerTop(w) \/ TakeNull(w) \/ Take(w) \/ CheckWoken(w)
       PROVE  Owned'
  BY <1>1, <1>11 DEF WorkerTop, TakeNull, Take, CheckWoken
<1>12. ASSUME NEW w \in Worker, NEW c \in Client, HandleStep(w, c)
       PROVE  Owned'
  <2>1. IdOf[c] \in Id
    BY IdAssumption
  <2>2. UNCHANGED acceptVars /\ (UNCHANGED contextVars \/ RemoveClient(IdOf[c]))
    BY <1>12, HandleMoves
  <2>3. QED
    BY <1>1, <1>10, <2>1, <2>2
<1>13. ASSUME NEW c \in Client,
              PeerConnects(c) \/ PeerLeaves(c) \/ \E ok \in BOOLEAN : Complete(c, ok)
       PROVE  Owned'
  BY <1>1, <1>13 DEF PeerConnects, PeerLeaves, Complete
<1>14. QED
  BY NextCases, <1>1, <1>2, <1>3, <1>4, <1>5, <1>6, <1>7, <1>8, <1>9, <1>11, <1>12,
     <1>13 DEF vars

(* A server that has stopped keeps no context, and gets no new one.        *)
Gone == main = "stopped" => \A c \in Client : context[c] # "alive"

LEMMA GoneStep ==
    ASSUME TypeOK, Phase, Owned, Gone, [Next]_vars
    PROVE  Gone'
<1> USE DEF Gone, mainVars, acceptVars, contextVars, workerVars, portVars
<1>1. ASSUME main' = main, UNCHANGED context
      PROVE  Gone'
  BY <1>1
<1>2. ASSUME main # "stopped", main' # "stopped"
      PROVE  Gone'
  BY <1>2
<1>3. ASSUME Initializes
      PROVE  Gone'
  BY <1>2, <1>3, CallsOnly DEF Initializing
<1>4. ASSUME \/ StartFails \/ StartAccept \/ Started \/ SetShutdown \/ JoinAccept
             \/ PostNull \/ Posted \/ JoinWorkers
      PROVE  Gone'
  BY <1>2, <1>4 DEF StartFails, StartAccept, Started, SetShutdown, JoinAccept, PostNull,
                    Posted, JoinWorkers
<1>5. ASSUME \E w \in Worker : StartWorker(w)
      PROVE  Gone'
  BY <1>1, <1>5 DEF StartWorker
<1>6. ASSUME Clean
      PROVE  Gone'
  <2>1. acceptor = NoClient
    BY <1>6 DEF Clean, Phase, Owned
  <2>2. \A c \in Client : context'[c] = "alive" =>
          context[c] = "alive" /\ ~\E i \in Id : clientsMap[i] = c
    BY <1>6 DEF Clean, CleanClientList
  <2>3. QED
    BY <2>1, <2>2, NoClientAssumption DEF Owned
<1>7. ASSUME accepting \notin {"none", "done"}, main' = main
      PROVE  Gone'
  BY <1>7 DEF Phase
<1>8. ASSUME \/ AcceptTop \/ AcceptTimeout \/ AddToClientList
             \/ \E c \in Client : Accept(c) \/ AcceptFails(c)
      PROVE  Gone'
  BY <1>7, <1>8 DEF AcceptTop, AcceptTimeout, AddToClientList, Accept, AcceptFails
<1>9. ASSUME NEW w \in Worker, worker[w].at \notin {"none", "done"}, main' = main
      PROVE  Gone'
  BY <1>9 DEF Phase
<1>10. ASSUME NEW w \in Worker, WorkerTop(w) \/ TakeNull(w) \/ Take(w) \/ CheckWoken(w)
       PROVE  Gone'
  BY <1>9, <1>10 DEF WorkerTop, TakeNull, Take, CheckWoken
<1>11. ASSUME NEW w \in Worker, NEW c \in Client, HandleStep(w, c)
       PROVE  Gone'
  <2>1. worker[w].at \notin {"none", "done"} /\ main' = main
    BY <1>11, HandleMoves
  <2>2. QED
    BY <1>9, <2>1
<1>12. ASSUME NEW c \in Client,
              PeerConnects(c) \/ PeerLeaves(c) \/ \E ok \in BOOLEAN : Complete(c, ok)
       PROVE  Gone'
  BY <1>1, <1>12 DEF PeerConnects, PeerLeaves, Complete
<1>13. QED
  BY NextCases, <1>1, <1>3, <1>4, <1>5, <1>6, <1>8, <1>10, <1>11, <1>12 DEF vars

Orderly == TypeOK /\ Phase /\ Opened /\ HandlesOpen /\ Owned /\ Gone

LEMMA OrderlyAlways == Spec => []Orderly
<1>1. Init => TypeOK
  BY InitTypes
<1>2. Init => Phase /\ Opened /\ HandlesOpen
  BY DEF Init, Phase, Unstarted, Opened, HandlesOpen, At
<1>3. Init => Owned /\ Gone
  BY DEF Init, Owned, Gone
<1>4. Orderly /\ [Next]_vars => Orderly'
  BY TypeStep, PhaseStep, OpenedStep, OwnedStep, GoneStep DEF Orderly
<1>5. QED
  BY <1>1, <1>2, <1>3, <1>4, PTL DEF Spec, Orderly

(* When Stop has returned no thread runs, and every context is destroyed:  *)
(* CleanClientList destroys those in the map, and by then no other lives.  *)
(* The handles StopReleasesAll names are closed, after a failed Start too. *)
THEOREM StopReleases == Spec => []StopReleasesAll
<1>1. Orderly => StopReleasesAll
  BY DEF Orderly, Phase, Opened, Gone, StopReleasesAll
<1>2. QED
  BY <1>1, OrderlyAlways, PTL

(* A thread that runs never finds the handles it uses closed: no thread    *)
(* runs before InitializeEnvironment is through, nor after the joins.      *)
THEOREM HandlesStayOpen == Spec => []HandlesOpen
<1>1. Orderly => HandlesOpen
  BY DEF Orderly
<1>2. QED
  BY <1>1, OrderlyAlways, PTL

-----------------------------------------------------------------------------
(* One operation per context                                               *)

(* Counts are numbers.                                                     *)
LEMMA Counts ==
    ASSUME TypeOK, NEW c \in Client
    PROVE  operations[c] \in Nat /\ Good(c) \in Nat /\ Bad(c) \in Nat
BY DEF TypeOK, Good, Bad

(* A completion enters the port or leaves it, and no other one does.       *)
LEMMA PacketChange ==
    ASSUME TypeOK, NEW c \in Client, NEW ok \in BOOLEAN, NEW n \in Nat,
           packets' = [packets EXCEPT ![c][ok] = n]
    PROVE  /\ \A b \in Client \ {c} : Good(b)' = Good(b) /\ Bad(b)' = Bad(b)
           /\ ok => Good(c)' = n /\ Bad(c)' = Bad(c) /\ packets[c][ok] = Good(c)
           /\ ~ok => Bad(c)' = n /\ Good(c)' = Good(c) /\ packets[c][ok] = Bad(c)
<1>1. packets \in [Client -> [BOOLEAN -> Nat]]
  BY DEF TypeOK
<1>2. packets'[c] = [packets[c] EXCEPT ![ok] = n]
  BY <1>1
<1>3. \A b \in Client \ {c} : packets'[b] = packets[b]
  BY <1>1
<1>4. packets[c] \in [BOOLEAN -> Nat]
  BY <1>1
<1>5. packets'[c][ok] = n
  BY <1>2, <1>4
<1>6. \A k \in BOOLEAN : k # ok => packets'[c][k] = packets[c][k]
  BY <1>2, <1>4
<1>7. \A b \in Client \ {c} : Good(b)' = Good(b) /\ Bad(b)' = Bad(b)
  BY <1>3 DEF Good, Bad
<1>8. CASE ok = TRUE
  BY <1>5, <1>6, <1>7, <1>8 DEF Good, Bad
<1>9. CASE ok = FALSE
  BY <1>5, <1>6, <1>7, <1>9 DEF Good, Bad
<1>10. QED
  BY <1>8, <1>9

(* How the number of completions of a context changes.                     *)
LEMMA PacketSum ==
    ASSUME TypeOK, NEW c \in Client, NEW ok \in BOOLEAN, NEW n \in Nat,
           packets' = [packets EXCEPT ![c][ok] = n]
    PROVE  /\ Good(c)' + Bad(c)' = Good(c) + Bad(c) + (n - packets[c][ok])
           /\ Good(c)' \in Nat /\ Bad(c)' \in Nat
           /\ packets[c][ok] \in Nat /\ packets[c][ok] <= Good(c) + Bad(c)
<1>1. Good(c) \in Nat /\ Bad(c) \in Nat
  BY Counts
<1>2. CASE ok
  <2>1. Good(c)' = n /\ Bad(c)' = Bad(c) /\ packets[c][ok] = Good(c)
    BY <1>2, PacketChange
  <2>2. QED
    BY <1>1, <2>1
<1>3. CASE ~ok
  <2>1. Bad(c)' = n /\ Good(c)' = Good(c) /\ packets[c][ok] = Bad(c)
    BY <1>3, PacketChange
  <2>2. QED
    BY <1>1, <2>1
<1>4. QED
  BY <1>2, <1>3

(* Every step posts an operation for a context only where none was.        *)
LEMMA OneOperationStep ==
    ASSUME TypeOK, OneOperation, Fresh, [Next]_vars
    PROVE  OneOperation' /\ Fresh'
<1> USE DEF mainVars, acceptVars, contextVars, portVars, workerVars
<1> DEFINE Sound(c) ==
             /\ InFlight(c) <= 1
             /\ \A w \in Worker : Holds(w, c) =>
                  InFlight(c) = 0 /\ \A v \in Worker : Holds(v, c) => v = w
             /\ Unaccepted(c) => Quiet(c)
<1>1. \A c \in Client : Sound(c)
  BY DEF OneOperation, Fresh, InFlight, Good, Bad
<1>2. SUFFICES ASSUME NEW c \in Client
               PROVE  Sound(c)'
  BY DEF OneOperation, Fresh, InFlight, Good, Bad
<1> HIDE DEF Sound
<1>3. operations[c] \in Nat /\ Good(c) \in Nat /\ Bad(c) \in Nat
  BY Counts
<1>p. operations'[c] \in Nat
  BY TypeStep DEF TypeOK
<1>4. ASSUME InFlight(c)' = InFlight(c), Unaccepted(c)' => Unaccepted(c),
             \A w \in Worker : Holds(w, c)' => Holds(w, c)
      PROVE  Sound(c)'
  BY <1>1, <1>4 DEF Sound, Quiet
<1>5. ASSUME UNCHANGED <<operations, packets, net>>,
             \A w \in Worker : Holds(w, c)' => Holds(w, c)
      PROVE  Sound(c)'
  BY <1>4, <1>5 DEF InFlight, Good, Bad, Unaccepted
<1>6. ASSUME UNCHANGED <<operations, packets, net, worker>>
      PROVE  Sound(c)'
  BY <1>5, <1>6 DEF Holds
<1>7. ASSUME Initializes
      PROVE  Sound(c)'
  BY <1>6, <1>7, CallsOnly DEF noThreadVars
<1>8. ASSUME \/ StartFails \/ StartAccept \/ Started \/ SetShutdown
             \/ JoinAccept \/ PostNull \/ Posted \/ JoinWorkers \/ Clean
      PROVE  Sound(c)'
  BY <1>6, <1>8 DEF StartFails, StartAccept, Started, SetShutdown, JoinAccept, PostNull,
                    Posted, JoinWorkers, Clean, noThreadVars
<1>9. ASSUME AcceptTop \/ AcceptTimeout \/ AddToClientList
      PROVE  Sound(c)'
  BY <1>6, <1>9 DEF AcceptTop, AcceptTimeout, AddToClientList
<1>10. ASSUME NEW b \in Client, AcceptFails(b)
       PROVE  Sound(c)'
  <2>1. Unaccepted(c)' => Unaccepted(c)
    BY <1>10 DEF AcceptFails, Unaccepted, TypeOK
  <2>2. UNCHANGED <<operations, packets, worker>>
    BY <1>10 DEF AcceptFails
  <2>3. QED
    BY <1>4, <2>1, <2>2 DEF InFlight, Good, Bad, Holds
<1>11. ASSUME NEW b \in Client, Accept(b)
       PROVE  Sound(c)'
  <2>1. UNCHANGED <<packets, worker>> /\ net[b] = "asking"
    BY <1>11 DEF Accept
  <2>2. CASE b = c
    <3>1. InFlight(c) = 0 /\ \A w \in Worker : ~Holds(w, c)
      BY <1>1, <2>1, <2>2 DEF Sound, Unaccepted, Quiet
    <3>2. operations'[c] = operations[c] + 1 /\ net'[c] = "up"
      BY <1>11, <2>2 DEF Accept, TypeOK
    <3>3. InFlight(c)' = 1
      <4>1. Good(c)' = Good(c) /\ Bad(c)' = Bad(c)
        BY <2>1 DEF Good, Bad
      <4>2. QED
        BY <1>3, <3>1, <3>2, <4>1 DEF InFlight
    <3>4. \A w \in Worker : ~Holds(w, c)'
      BY <2>1, <3>1 DEF Holds
    <3>5. QED
      BY <3>2, <3>3, <3>4 DEF Sound, Unaccepted
  <2>3. CASE b # c
    <3>1. operations'[c] = operations[c] /\ net'[c] = net[c]
      BY <1>11, <2>3 DEF Accept, TypeOK
    <3>2. QED
      BY <1>4, <2>1, <3>1 DEF InFlight, Good, Bad, Unaccepted, Holds
  <2>4. QED
    BY <2>2, <2>3
<1>12. ASSUME NEW w \in Worker, StartWorker(w) \/ WorkerTop(w) \/ TakeNull(w) \/ CheckWoken(w)
       PROVE  Sound(c)'
  <2>1. UNCHANGED <<operations, packets, net>>
    BY <1>12 DEF StartWorker, WorkerTop, TakeNull, CheckWoken
  <2>2. \A v \in Worker \ {w} : worker'[v] = worker[v]
    BY <1>12 DEF StartWorker, WorkerTop, TakeNull, CheckWoken, TypeOK
  <2>3. Holds(w, c)' => Holds(w, c)
    <3>1. CASE StartWorker(w) \/ WorkerTop(w) \/ TakeNull(w)
      BY <3>1, NoClientAssumption
         DEF StartWorker, WorkerTop, TakeNull, TypeOK, Holds, At
    <3>2. CASE CheckWoken(w)
      BY <3>2 DEF CheckWoken, TypeOK, Holds, At
    <3>3. QED
      BY <1>12, <3>1, <3>2
  <2>4. QED
    BY <1>5, <2>1, <2>2, <2>3 DEF Holds
<1>13. ASSUME NEW w \in Worker, Take(w)
       PROVE  Sound(c)'
  <2>1. PICK b \in Client, ok \in BOOLEAN :
          /\ packets[b][ok] > 0
          /\ packets' = [packets EXCEPT ![b][ok] = @ - 1]
          /\ worker' = [worker EXCEPT ![w] = [at |-> "woken", client |-> b, ok |-> ok]]
    BY <1>13 DEF Take
  <2>2. UNCHANGED <<operations, net>> /\ worker[w].at = "wait"
    BY <1>13 DEF Take
  <2>3. /\ packets[b][ok] \in Nat
        /\ packets[b][ok] - 1 \in Nat
        /\ packets' = [packets EXCEPT ![b][ok] = packets[b][ok] - 1]
    BY <2>1 DEF TypeOK
  <2>4. worker'[w] = [at |-> "woken", client |-> b, ok |-> ok]
    BY <2>1 DEF TypeOK
  <2>5. \A v \in Worker \ {w} : worker'[v] = worker[v]
    BY <2>1 DEF TypeOK
  <2>6. CASE b = c
    <3>1. /\ Good(c)' + Bad(c)' = Good(c) + Bad(c) - 1
          /\ Good(c)' \in Nat /\ Bad(c)' \in Nat
          /\ Good(c) + Bad(c) >= 1
      <4>1. /\ Good(c)' + Bad(c)'
                 = Good(c) + Bad(c) + ((packets[b][ok] - 1) - packets[c][ok])
            /\ Good(c)' \in Nat /\ Bad(c)' \in Nat
            /\ packets[c][ok] <= Good(c) + Bad(c)
        BY <2>3, <2>6, PacketSum
      <4>2. QED
        BY <1>3, <2>1, <2>3, <2>6, <4>1
    <3>2. InFlight(c) <= 1
      BY <1>1 DEF Sound
    <3>3. InFlight(c) = 1 /\ InFlight(c)' = 0
      BY <1>3, <2>2, <3>1, <3>2 DEF InFlight
    <3>4. \A v \in Worker : ~Holds(v, c)
      BY <1>1, <3>3 DEF Sound
    <3>5. \A v \in Worker \ {w} : ~Holds(v, c)'
      BY <2>5, <3>4 DEF Holds
    <3>6. ~Unaccepted(c)'
      BY <1>1, <2>2, <3>3 DEF Sound, Quiet, Unaccepted
    <3>7. QED
      BY <3>3, <3>5, <3>6 DEF Sound
  <2>7. CASE b # c
    <3>1. Good(c)' = Good(c) /\ Bad(c)' = Bad(c)
      BY <2>3, <2>7, PacketChange
    <3>2. ~Holds(w, c)'
      BY <2>4, <2>7 DEF Holds
    <3>3. QED
      BY <1>4, <2>2, <2>5, <3>1, <3>2 DEF InFlight, Holds, Unaccepted
  <2>8. QED
    BY <2>6, <2>7
<1>14. ASSUME NEW w \in Worker, NEW b \in Client, HandleStep(w, b)
       PROVE  Sound(c)'
  <2>1. /\ net' = net
        /\ \A v \in Worker \ {w} : worker'[v] = worker[v]
        /\ worker'[w].at \in {"top", "posted"}
    BY <1>14, HandleMoves
  <2>2. ~Holds(w, c)'
    BY <2>1 DEF Holds
  <2>3. \A v \in Worker : Holds(v, c)' => Holds(v, c)
    BY <2>1, <2>2 DEF Holds
  <2>4. CASE Removes(w, b)
    <3>1. UNCHANGED <<operations, packets>>
      BY <2>4 DEF Removes
    <3>2. QED
      BY <1>5, <2>1, <2>3, <3>1
  <2>5. CASE b # c /\ (Posts(w, b) \/ FindsMore(w, b))
    <3>1. operations'[c] = operations[c] /\ packets'[c] = packets[c]
      BY <2>5 DEF Posts, FindsMore, TypeOK
    <3>2. QED
      BY <1>4, <2>1, <2>3, <3>1 DEF InFlight, Good, Bad, Unaccepted
  <2>6. CASE b = c /\ (Posts(w, b) \/ FindsMore(w, b))
    <3>1. Holds(w, c)
      BY <2>6 DEF Posts, FindsMore, Handles, Holds
    <3>2. InFlight(c) = 0 /\ \A v \in Worker \ {w} : ~Holds(v, c)
      BY <1>1, <3>1 DEF Sound
    <3>3. InFlight(c)' = 1
      <4>1. CASE Posts(w, b)
        <5>1. operations'[c] = operations[c] + 1 /\ Good(c)' = Good(c) /\ Bad(c)' = Bad(c)
          BY <2>6, <4>1 DEF Posts, TypeOK, Good, Bad
        <5>2. QED
          BY <1>3, <3>2, <5>1 DEF InFlight
      <4>2. CASE FindsMore(w, b)
        <5>1. packets' = [packets EXCEPT ![c][TRUE] = Good(c) + 1] /\ operations' = operations
          BY <2>6, <4>2 DEF FindsMore, Good
        <5>2. Good(c) + 1 \in Nat
          BY <1>3
        <5>3. Good(c)' = Good(c) + 1 /\ Bad(c)' = Bad(c)
          BY <5>1, <5>2, PacketChange
        <5>4. QED
          BY <1>3, <3>2, <5>1, <5>3 DEF InFlight
      <4>3. QED
        BY <2>6, <4>1, <4>2
    <3>4. \A v \in Worker : ~Holds(v, c)'
      BY <2>2, <2>3, <3>2
    <3>5. ~Unaccepted(c)'
      BY <1>1, <2>1, <3>1 DEF Sound, Quiet, Unaccepted
    <3>6. QED
      BY <3>3, <3>4, <3>5 DEF Sound
  <2>7. QED
    BY <1>14, <2>4, <2>5, <2>6, HandleEffect
<1>15. ASSUME NEW b \in Client, PeerConnects(b) \/ PeerLeaves(b)
       PROVE  Sound(c)'
  <2>1. Unaccepted(c)' => Unaccepted(c)
    BY <1>15 DEF PeerConnects, PeerLeaves, Unaccepted, TypeOK
  <2>2. UNCHANGED <<operations, packets, worker>>
    BY <1>15 DEF PeerConnects, PeerLeaves
  <2>3. QED
    BY <1>4, <2>1, <2>2 DEF InFlight, Good, Bad, Holds
<1>16. ASSUME NEW b \in Client, NEW ok \in BOOLEAN, Complete(b, ok)
       PROVE  Sound(c)'
  <2>1. /\ operations[b] > 0 /\ UNCHANGED <<net, worker>>
        /\ operations' = [operations EXCEPT ![b] = @ - 1]
        /\ packets' = [packets EXCEPT ![b][ok] = packets[b][ok] + 1]
    BY <1>16 DEF Complete
  <2>2. packets[b][ok] + 1 \in Nat
    BY DEF TypeOK
  <2>3. CASE b = c
    <3>1. operations'[c] = operations[c] - 1
      BY <2>1, <2>3 DEF TypeOK
    <3>2. /\ Good(c)' + Bad(c)'
               = Good(c) + Bad(c) + ((packets[b][ok] + 1) - packets[c][ok])
          /\ Good(c)' \in Nat /\ Bad(c)' \in Nat /\ packets[c][ok] \in Nat
      BY <2>1, <2>2, <2>3, PacketSum
    <3>3. Good(c)' + Bad(c)' = Good(c) + Bad(c) + 1
      BY <1>3, <2>3, <3>2
    <3>4. InFlight(c)' = InFlight(c)
      BY <1>3, <3>1, <3>2, <3>3 DEF InFlight
    <3>5. QED
      BY <1>4, <2>1, <3>4 DEF Holds, Unaccepted
  <2>4. CASE b # c
    <3>1. operations'[c] = operations[c] /\ Good(c)' = Good(c) /\ Bad(c)' = Bad(c)
      BY <2>1, <2>2, <2>4, PacketChange DEF TypeOK
    <3>2. QED
      BY <1>4, <2>1, <3>1 DEF InFlight, Holds, Unaccepted
  <2>5. QED
    BY <2>3, <2>4
<1>17. CASE UNCHANGED vars
  BY <1>6, <1>17 DEF vars
<1>18. QED
  BY NextCases, <1>7, <1>8, <1>9, <1>10, <1>11, <1>12, <1>13, <1>14, <1>15, <1>16, <1>17

LEMMA FreshAlways == Spec => [](OneOperation /\ Fresh)
<1>1. Init => OneOperation /\ Fresh
  BY DEF Init, OneOperation, Fresh, Quiet, InFlight, Good, Bad, Holds, At
<1>2. QED
  BY <1>1, TypeCorrect, OneOperationStep, PTL DEF Spec

(* A context never has two operations, completions or workers at once.     *)
THEOREM OneOperationHolds == Spec => []OneOperation
BY FreshAlways, PTL

-----------------------------------------------------------------------------
(* Contexts and ids, whatever the hash does                                *)

(* Actions that leave the contexts and the map alone.                      *)
Harmless ==
    \/ Initializes \/ StartFails \/ StartAccept \/ Started \/ SetShutdown
    \/ JoinAccept \/ PostNull \/ Posted \/ JoinWorkers
    \/ AcceptTop \/ AcceptTimeout
    \/ \E w \in Worker :
         StartWorker(w) \/ WorkerTop(w) \/ TakeNull(w) \/ Take(w) \/ CheckWoken(w)
    \/ \E c \in Client :
         PeerConnects(c) \/ PeerLeaves(c) \/ \E ok \in BOOLEAN : Complete(c, ok)
    \/ UNCHANGED vars

LEMMA HarmlessKeeps == Harmless => UNCHANGED contextVars
<1> USE DEF contextVars
<1>1. Initializes => UNCHANGED contextVars
  BY CallsOnly DEF noThreadVars
<1>2. ASSUME \/ StartFails \/ StartAccept \/ Started \/ SetShutdown
             \/ JoinAccept \/ PostNull \/ Posted \/ JoinWorkers
             \/ AcceptTop \/ AcceptTimeout
      PROVE  UNCHANGED contextVars
  BY <1>2 DEF StartFails, StartAccept, Started, SetShutdown, JoinAccept, PostNull, Posted,
              JoinWorkers, AcceptTop, AcceptTimeout, noThreadVars
<1>3. ASSUME NEW w \in Worker,
             StartWorker(w) \/ WorkerTop(w) \/ TakeNull(w) \/ Take(w) \/ CheckWoken(w)
      PROVE  UNCHANGED contextVars
  BY <1>3 DEF StartWorker, WorkerTop, TakeNull, Take, CheckWoken
<1>4. ASSUME NEW c \in Client,
             PeerConnects(c) \/ PeerLeaves(c) \/ \E ok \in BOOLEAN : Complete(c, ok)
      PROVE  UNCHANGED contextVars
  BY <1>4 DEF PeerConnects, PeerLeaves, Complete
<1>5. UNCHANGED vars => UNCHANGED contextVars
  BY DEF vars
<1>6. QED
  BY <1>1, <1>2, <1>3, <1>4, <1>5 DEF Harmless

LEMMA FiledStep ==
    ASSUME TypeOK, Owned, Filed, [Next]_vars
    PROVE  Filed'
<1>1. ASSUME \A i \in Id : clientsMap'[i] \in {clientsMap[i], NoClient}
      PROVE  Filed'
  BY <1>1, NoClientAssumption DEF Filed
<1>2. CASE Harmless
  BY <1>1, <1>2, HarmlessKeeps DEF contextVars
<1>3. CASE Clean
  BY <1>1, <1>3 DEF Clean, CleanClientList
<1>4. ASSUME NEW id \in Id, RemoveClient(id)
      PROVE  Filed'
  BY <1>1, <1>4 DEF RemoveClient, TypeOK
<1>5. ASSUME NEW w \in Worker, NEW c \in Client, HandleStep(w, c)
      PROVE  Filed'
  <2>1. IdOf[c] \in Id
    BY IdAssumption
  <2>2. UNCHANGED contextVars \/ RemoveClient(IdOf[c])
    BY <1>5, HandleMoves
  <2>3. QED
    BY <1>1, <1>4, <2>1, <2>2 DEF contextVars
<1>6. ASSUME NEW c \in Client, Accept(c) \/ AcceptFails(c)
      PROVE  Filed'
  BY <1>1, <1>6 DEF Accept, AcceptFails, TypeOK
<1>7. CASE AddToClientList
  <2>1. acceptor \in Client /\ IdOf[acceptor] \in Id
    <3>1. acceptor \in Client
      BY <1>7 DEF AddToClientList, Owned, TypeOK
    <3>2. QED
      BY <3>1, IdAssumption
  <2>2. \/ clientsMap' = clientsMap
        \/ clientsMap' = [clientsMap EXCEPT ![IdOf[acceptor]] = acceptor]
    BY <1>7 DEF AddToClientList
  <2>3. QED
    BY <2>1, <2>2 DEF Filed, TypeOK
<1>8. QED
  BY NextCases, <1>2, <1>3, <1>5, <1>6, <1>7 DEF Harmless

LEMMA FiledAlways == Spec => [](Orderly /\ Filed)
<1>1. Init => Filed
  BY NoClientAssumption DEF Init, Filed
<1>2. Orderly /\ Filed /\ [Next]_vars => Filed'
  BY FiledStep DEF Orderly
<1>3. QED
  BY <1>1, <1>2, OrderlyAlways, PTL DEF Spec

(* Whatever the hash, a connection that ends or cannot be accepted takes   *)
(* only contexts of its own id with it: that is all the harm a collision   *)
(* of ids can do.                                                          *)
THEOREM RemovesSame == Spec => RemovesSameId
<1>1. Orderly /\ Filed /\ [Next]_vars =>
        [\A c \in Client : context[c] = "alive" /\ context'[c] = "freed" =>
            \/ main = "cleaning"
            \/ \E w \in Worker, b \in Client : Uses(w, b) /\ IdOf[b] = IdOf[c]
            \/ \E b \in Client : /\ accepting = "poll" /\ net[b] = "asking"
                                 /\ net'[b] = "lost" /\ IdOf[b] = IdOf[c]
            \/ acceptor = c /\ clientsMap[IdOf[c]] # NoClient]_vars
  <2>1. SUFFICES ASSUME TypeOK, Filed, [Next]_vars, NEW c \in Client,
                        context[c] = "alive", context'[c] = "freed"
                 PROVE  \/ main = "cleaning"
                        \/ \E w \in Worker, b \in Client :
                             Uses(w, b) /\ IdOf[b] = IdOf[c]
                        \/ \E b \in Client :
                             /\ accepting = "poll" /\ net[b] = "asking"
                             /\ net'[b] = "lost" /\ IdOf[b] = IdOf[c]
                        \/ acceptor = c /\ clientsMap[IdOf[c]] # NoClient
    BY DEF Orderly
  <2>2. context' # context
    BY <2>1
  <2>3. ~Harmless
    BY <2>2, HarmlessKeeps DEF contextVars
  <2>4. ASSUME NEW b \in Client, clientsMap[IdOf[b]] = c
        PROVE  IdOf[b] = IdOf[c]
    BY <2>1, <2>4, IdAssumption DEF Filed
  <2>5. CASE Clean
    BY <2>5 DEF Clean
  <2>6. ASSUME NEW w \in Worker, NEW b \in Client, HandleStep(w, b)
        PROVE  Uses(w, b) /\ IdOf[b] = IdOf[c]
    <3>1. Uses(w, b) /\ RemoveClient(IdOf[b])
      BY <2>1, <2>2, <2>6, HandleEffect, HandleMoves DEF contextVars
    <3>2. clientsMap[IdOf[b]] = c
      BY <2>1, <3>1 DEF RemoveClient
    <3>3. QED
      BY <2>4, <3>1, <3>2
  <2>7. ASSUME NEW b \in Client, Accept(b)
        PROVE  FALSE
    BY <2>1, <2>7 DEF Accept, TypeOK
  <2>8. ASSUME NEW b \in Client, AcceptFails(b)
        PROVE  /\ accepting = "poll" /\ net[b] = "asking"
               /\ net'[b] = "lost" /\ IdOf[b] = IdOf[c]
    <3>1. accepting = "poll" /\ net[b] = "asking" /\ net'[b] = "lost"
      BY <2>1, <2>8 DEF AcceptFails, TypeOK
    <3>2. b = c \/ clientsMap[IdOf[b]] = c
      BY <2>1, <2>8 DEF AcceptFails, TypeOK
    <3>3. QED
      BY <2>4, <3>1, <3>2
  <2>9. CASE AddToClientList
    BY <2>1, <2>2, <2>9 DEF AddToClientList, TypeOK
  <2>10. QED
    BY <2>1, NextCases, <2>3, <2>5, <2>6, <2>7, <2>8, <2>9 DEF Harmless
<1>2. QED
  BY <1>1, FiledAlways, PTL DEF Spec, RemovesSameId

-----------------------------------------------------------------------------
(* Contexts and what is in flight of them                                  *)

(* What is not accepted stays so, or is accepted now.                      *)
LEMMA PlacedStep ==
    ASSUME TypeOK, Phase, Owned, Placed, [Next]_vars
    PROVE  Placed'
<1> USE DEF mainVars, acceptVars, contextVars, portVars, workerVars
<1>1. ASSUME UNCHANGED <<clientsMap, acceptor, context>>,
             \A c \in Client : Unaccepted(c)' <=> Unaccepted(c)
      PROVE  Placed'
  BY <1>1 DEF Placed
<1>2. ASSUME UNCHANGED <<clientsMap, acceptor, context, net>>
      PROVE  Placed'
  BY <1>1, <1>2 DEF Unaccepted
<1>3. ASSUME Initializes
      PROVE  Placed'
  BY <1>2, <1>3, CallsOnly DEF noThreadVars
<1>4. ASSUME \/ StartFails \/ StartAccept \/ Started \/ SetShutdown
             \/ JoinAccept \/ PostNull \/ Posted \/ JoinWorkers
             \/ \E w \in Worker : StartWorker(w)
      PROVE  Placed'
  BY <1>2, <1>4 DEF StartFails, StartAccept, Started, SetShutdown, JoinAccept, PostNull,
                    Posted, JoinWorkers, StartWorker, noThreadVars
<1>5. ASSUME AcceptTop \/ AcceptTimeout
      PROVE  Placed'
  BY <1>2, <1>5 DEF AcceptTop, AcceptTimeout
<1>6. ASSUME NEW w \in Worker, WorkerTop(w) \/ TakeNull(w) \/ Take(w) \/ CheckWoken(w)
      PROVE  Placed'
  BY <1>2, <1>6 DEF WorkerTop, TakeNull, Take, CheckWoken
<1>7. ASSUME NEW c \in Client,
             PeerConnects(c) \/ PeerLeaves(c) \/ \E ok \in BOOLEAN : Complete(c, ok)
      PROVE  Placed'
  <2>1. \A b \in Client : Unaccepted(b)' <=> Unaccepted(b)
    BY <1>7 DEF PeerConnects, PeerLeaves, Complete, Unaccepted, TypeOK
  <2>2. UNCHANGED <<clientsMap, acceptor, context>>
    BY <1>7 DEF PeerConnects, PeerLeaves, Complete
  <2>3. QED
    BY <1>1, <2>1, <2>2
(* Contexts in the map are destroyed and taken from it.                    *)
<1>8. ASSUME UNCHANGED <<acceptor, net>>,
             \A c \in Client :
               \/ context'[c] = context[c]
               \/ context'[c] = "freed" /\ \E i \in Id : clientsMap[i] = c,
             \A i \in Id : clientsMap'[i] \in {clientsMap[i], NoClient}
      PROVE  Placed'
  <2>1. \A c \in Client : Unaccepted(c)' <=> Unaccepted(c)
    BY <1>8 DEF Unaccepted
  <2>2. \A i \in Id, c \in Client : clientsMap'[i] = c => clientsMap[i] = c
    BY <1>8, NoClientAssumption
  <2>3. \A c \in Client : context'[c] = "none" <=> context[c] = "none"
    BY <1>8 DEF Placed
  <2>4. QED
    BY <1>8, <2>1, <2>2, <2>3 DEF Placed
<1>9. ASSUME NEW id \in Id, RemoveClient(id), UNCHANGED <<acceptor, net>>
      PROVE  Placed'
  BY <1>8, <1>9 DEF RemoveClient, TypeOK
<1>10. ASSUME NEW w \in Worker, NEW c \in Client, HandleStep(w, c)
       PROVE  Placed'
  <2>1. IdOf[c] \in Id
    BY IdAssumption
  <2>2. /\ UNCHANGED <<acceptor, net>>
        /\ UNCHANGED <<clientsMap, context>> \/ RemoveClient(IdOf[c])
    BY <1>10, HandleMoves
  <2>3. QED
    BY <1>2, <1>9, <2>1, <2>2
<1>11. ASSUME Clean
       PROVE  Placed'
  BY <1>8, <1>11 DEF Clean, CleanClientList, TypeOK
<1>12. ASSUME NEW c \in Client, Accept(c)
       PROVE  Placed'
  <2>1. /\ acceptor' = c /\ clientsMap' = clientsMap
        /\ context'[c] = "alive" /\ net'[c] = "up" /\ net[c] = "asking"
        /\ \A b \in Client \ {c} : context'[b] = context[b] /\ net'[b] = net[b]
    BY <1>12 DEF Accept, TypeOK
  <2>2. \A i \in Id : clientsMap[i] # c
    BY <2>1 DEF Placed, Unaccepted
  <2>3. QED
    BY <2>1, <2>2 DEF Placed, Unaccepted
<1>13. ASSUME NEW c \in Client, AcceptFails(c)
       PROVE  Placed'
  <2>1. /\ acceptor' = acceptor /\ acceptor = NoClient
        /\ net'[c] = "lost" /\ net[c] = "asking"
        /\ \A b \in Client \ {c} : net'[b] = net[b]
    BY <1>13 DEF AcceptFails, TypeOK, Owned
  <2>2. \A i \in Id : clientsMap[i] # c
    BY <2>1 DEF Placed, Unaccepted
  <2>3. /\ context'[c] = "freed"
        /\ \A b \in Client \ {c} : \/ context'[b] = context[b]
                                   \/ context'[b] = "freed" /\ clientsMap[IdOf[c]] = b
        /\ \A i \in Id : clientsMap'[i] \in {clientsMap[i], NoClient}
    <3>1. \/ /\ context' = [b \in Client |-> IF b \in {c, clientsMap[IdOf[c]]}
                                               THEN "freed" ELSE context[b]]
             /\ clientsMap' = [clientsMap EXCEPT ![IdOf[c]] = NoClient]
          \/ context' = [context EXCEPT ![c] = "freed"] /\ clientsMap' = clientsMap
      BY <1>13 DEF AcceptFails
    <3>2. QED
      BY <3>1 DEF TypeOK
  <2>4. \A b \in Client \ {c} : context'[b] = "none" <=> context[b] = "none"
    BY <2>3, IdAssumption DEF Placed
  <2>5. \A i \in Id, b \in Client : clientsMap'[i] = b => clientsMap[i] = b
    BY <2>3, NoClientAssumption
  <2>6. QED
    BY <2>1, <2>2, <2>3, <2>4, <2>5, NoClientAssumption DEF Placed, Unaccepted
<1>14. ASSUME AddToClientList
       PROVE  Placed'
  <2>1. acceptor \in Client /\ IdOf[acceptor] \in Id
    <3>1. acceptor # NoClient
      BY <1>14 DEF AddToClientList, Owned
    <3>2. acceptor \in Client
      BY <3>1 DEF TypeOK
    <3>3. QED
      BY <3>2, IdAssumption
  <2>2. acceptor' = NoClient /\ net' = net
    BY <1>14 DEF AddToClientList
  <2>3. CASE clientsMap[IdOf[acceptor]] = NoClient
    <3>1. /\ context' = context
          /\ clientsMap' = [clientsMap EXCEPT ![IdOf[acceptor]] = acceptor]
      BY <1>14, <2>3 DEF AddToClientList
    <3>2. \A i \in Id : \/ clientsMap'[i] = clientsMap[i]
                        \/ i = IdOf[acceptor] /\ clientsMap'[i] = acceptor
      BY <2>1, <3>1 DEF TypeOK
    <3>3. QED
      BY <2>1, <2>2, <3>1, <3>2, NoClientAssumption DEF Placed, Unaccepted
  <2>4. CASE clientsMap[IdOf[acceptor]] # NoClient
    <3>1. context' = [context EXCEPT ![acceptor] = "freed"] /\ clientsMap' = clientsMap
      BY <1>14, <2>4 DEF AddToClientList
    <3>2. /\ context'[acceptor] = "freed"
          /\ \A b \in Client \ {acceptor} : context'[b] = context[b]
      BY <2>1, <3>1 DEF TypeOK
    <3>3. QED
      BY <2>1, <2>2, <3>1, <3>2, NoClientAssumption DEF Placed, Unaccepted
  <2>5. QED
    BY <2>3, <2>4
<1>15. CASE UNCHANGED vars
  BY <1>2, <1>15 DEF vars
<1>16. QED
  BY NextCases, <1>3, <1>4, <1>5, <1>6, <1>7, <1>10, <1>11, <1>12, <1>13, <1>14, <1>15

(* Nothing happens to a context with nothing in flight until its           *)
(* connection is accepted.                                                 *)
LEMMA QuietStep ==
    ASSUME TypeOK, [Next]_vars, NEW c \in Client, Quiet(c)
    PROVE  Quiet(c)' \/ Accept(c)
<1> USE DEF mainVars, acceptVars, contextVars, portVars, workerVars
<1>1. ASSUME operations'[c] = operations[c], Good(c)' = Good(c), Bad(c)' = Bad(c),
             \A w \in Worker : Holds(w, c)' => Holds(w, c)
      PROVE  Quiet(c)'
  BY <1>1 DEF Quiet, InFlight
<1>2. ASSUME UNCHANGED <<operations, packets, worker>>
      PROVE  Quiet(c)'
  BY <1>1, <1>2 DEF Good, Bad, Holds
<1>3. /\ operations[c] = 0 /\ Good(c) = 0 /\ Bad(c) = 0
      /\ \A w \in Worker : ~Holds(w, c)
  BY Counts DEF Quiet, InFlight
<1>4. ASSUME Initializes
      PROVE  Quiet(c)'
  BY <1>2, <1>4, CallsOnly DEF noThreadVars
<1>5. ASSUME \/ StartFails \/ StartAccept \/ Started \/ SetShutdown
             \/ JoinAccept \/ PostNull \/ Posted \/ JoinWorkers \/ Clean
      PROVE  Quiet(c)'
  BY <1>2, <1>5 DEF StartFails, StartAccept, Started, SetShutdown, JoinAccept, PostNull,
                    Posted, JoinWorkers, Clean, noThreadVars
<1>6. ASSUME \/ AcceptTop \/ AcceptTimeout \/ AddToClientList
             \/ \E b \in Client : AcceptFails(b) \/ PeerConnects(b) \/ PeerLeaves(b)
      PROVE  Quiet(c)'
  BY <1>2, <1>6 DEF AcceptTop, AcceptTimeout, AddToClientList, AcceptFails, PeerConnects,
                    PeerLeaves
<1>7. ASSUME NEW b \in Client, Accept(b)
      PROVE  Quiet(c)' \/ Accept(c)
  <2>1. CASE b = c
    BY <1>7, <2>1
  <2>2. CASE b # c
    <3>1. operations'[c] = operations[c] /\ UNCHANGED <<packets, worker>>
      BY <1>7, <2>2 DEF Accept, TypeOK
    <3>2. QED
      BY <1>1, <3>1 DEF Good, Bad, Holds
  <2>3. QED
    BY <2>1, <2>2
<1>8. ASSUME NEW w \in Worker, StartWorker(w) \/ WorkerTop(w) \/ TakeNull(w) \/ CheckWoken(w)
      PROVE  Quiet(c)'
  <2>1. UNCHANGED <<operations, packets>>
    BY <1>8 DEF StartWorker, WorkerTop, TakeNull, CheckWoken
  <2>2. \A v \in Worker \ {w} : worker'[v] = worker[v]
    BY <1>8 DEF StartWorker, WorkerTop, TakeNull, CheckWoken, TypeOK
  <2>3. Holds(w, c)' => Holds(w, c)
    <3>1. CASE StartWorker(w) \/ WorkerTop(w) \/ TakeNull(w)
      BY <3>1, NoClientAssumption
         DEF StartWorker, WorkerTop, TakeNull, TypeOK, Holds, At
    <3>2. CASE CheckWoken(w)
      BY <3>2 DEF CheckWoken, TypeOK, Holds, At
    <3>3. QED
      BY <1>8, <3>1, <3>2
  <2>4. QED
    BY <1>1, <2>1, <2>2, <2>3 DEF Good, Bad, Holds
<1>9. ASSUME NEW w \in Worker, Take(w)
      PROVE  Quiet(c)'
  <2>1. PICK b \in Client, ok \in BOOLEAN :
          /\ packets[b][ok] > 0
          /\ packets' = [packets EXCEPT ![b][ok] = @ - 1]
          /\ worker' = [worker EXCEPT ![w] = [at |-> "woken", client |-> b, ok |-> ok]]
    BY <1>9 DEF Take
  <2>2. /\ packets[b][ok] \in Nat
        /\ packets[b][ok] - 1 \in Nat
        /\ packets' = [packets EXCEPT ![b][ok] = packets[b][ok] - 1]
    BY <2>1 DEF TypeOK
  <2>3. b # c
    <3>1. SUFFICES ASSUME b = c PROVE FALSE
      OBVIOUS
    <3>2. packets[b][ok] <= Good(c) + Bad(c)
      BY <2>2, <3>1, PacketSum
    <3>3. QED
      BY <1>3, <2>1, <2>2, <3>2
  <2>4. Good(c)' = Good(c) /\ Bad(c)' = Bad(c)
    BY <2>2, <2>3, PacketChange
  <2>5. \A v \in Worker : Holds(v, c)' => Holds(v, c)
    BY <2>1, <2>3 DEF Holds, TypeOK
  <2>6. operations' = operations
    BY <1>9 DEF Take
  <2>7. QED
    BY <1>1, <2>4, <2>5, <2>6
<1>10. ASSUME NEW w \in Worker, NEW b \in Client, HandleStep(w, b)
       PROVE  Quiet(c)'
  <2>1. /\ \A v \in Worker \ {w} : worker'[v] = worker[v]
        /\ worker'[w].at \in {"top", "posted"}
    BY <1>10, HandleMoves
  <2>2. \A v \in Worker : Holds(v, c)' => Holds(v, c)
    BY <2>1 DEF Holds
  <2>3. CASE Removes(w, b)
    BY <1>1, <2>2, <2>3 DEF Removes, Good, Bad
  <2>4. CASE Posts(w, b) \/ FindsMore(w, b)
    <3>1. b # c
      BY <1>3, <2>4 DEF Posts, FindsMore, Handles, Holds
    <3>2. operations'[c] = operations[c] /\ packets'[c] = packets[c]
      BY <2>4, <3>1 DEF Posts, FindsMore, TypeOK
    <3>3. QED
      BY <1>1, <2>2, <3>2 DEF Good, Bad
  <2>5. QED
    BY <1>10, <2>3, <2>4, HandleEffect
<1>11. ASSUME NEW b \in Client, NEW ok \in BOOLEAN, Complete(b, ok)
       PROVE  Quiet(c)'
  <2>1. operations[b] > 0 /\ worker' = worker
    BY <1>11 DEF Complete
  <2>2. b # c
    BY <1>3, <2>1
  <2>3. operations'[c] = operations[c] /\ packets'[c] = packets[c]
    BY <1>11, <2>2 DEF Complete, TypeOK
  <2>4. QED
    BY <1>1, <2>1, <2>3 DEF Good, Bad, Holds
<1>12. CASE UNCHANGED vars
  BY <1>2, <1>12 DEF vars
<1>13. QED
  BY NextCases, <1>4, <1>5, <1>6, <1>7, <1>8, <1>9, <1>10, <1>11, <1>12

(* A context is destroyed at the end of Stop, when its connection cannot   *)
(* be accepted, by the worker that holds its completion or has been        *)
(* mistaken about it, or because another connection has its id.            *)
LEMMA Destroying ==
    ASSUME TypeOK, Owned, Filed, Placed, [Next]_vars,
           NEW c \in Client, context[c] # "freed", context'[c] = "freed"
    PROVE  \/ Clean
           \/ AcceptFails(c)
           \/ \E w \in Worker : HandleStep(w, c) /\ Removes(w, c)
           \/ Shares(c)
<1> USE DEF mainVars, acceptVars, contextVars, portVars, workerVars
<1>1. ~Harmless
  BY HarmlessKeeps
<1>2. ASSUME NEW b \in Client, Accept(b)
      PROVE  FALSE
  BY <1>2 DEF Accept, TypeOK
<1>3. ASSUME NEW b \in Client, clientsMap[IdOf[b]] = c, b # c
      PROVE  Shares(c)
  BY <1>3, IdAssumption DEF Filed, Shares
<1>4. ASSUME AddToClientList
      PROVE  Shares(c)
  <2>1. /\ acceptor = c
        /\ clientsMap[IdOf[c]] # NoClient
    BY <1>4 DEF AddToClientList, TypeOK
  <2>2. PICK b \in Client : clientsMap[IdOf[c]] = b
    BY <2>1, IdAssumption DEF TypeOK
  <2>3. b # c /\ IdOf[b] = IdOf[c]
    BY <2>1, <2>2, IdAssumption DEF Filed, Placed
  <2>4. QED
    BY <2>3 DEF Shares
<1>5. ASSUME NEW b \in Client, AcceptFails(b)
      PROVE  AcceptFails(c) \/ Shares(c)
  <2>1. \/ context' = [d \in Client |-> IF d \in {b, clientsMap[IdOf[b]]}
                                       THEN "freed" ELSE context[d]]
        \/ context' = [context EXCEPT ![b] = "freed"]
    BY <1>5 DEF AcceptFails
  <2>2. b = c \/ clientsMap[IdOf[b]] = c
    BY <2>1 DEF TypeOK
  <2>3. QED
    BY <1>3, <1>5, <2>2
<1>6. ASSUME NEW w \in Worker, NEW b \in Client, HandleStep(w, b)
      PROVE  (HandleStep(w, c) /\ Removes(w, c)) \/ Shares(c)
  <2>1. Removes(w, b)
    BY <1>6, HandleEffect DEF Posts, FindsMore
  <2>2. clientsMap[IdOf[b]] = c
    BY <2>1 DEF Removes, RemoveClient
  <2>3. QED
    BY <1>3, <1>6, <2>1, <2>2
<1>7. QED
  BY NextCases, <1>1, <1>2, <1>4, <1>5, <1>6 DEF Harmless

(* Only a handler brings a worker past a receive that has completed.       *)
LEMMA WorkerMovesOn ==
    ASSUME TypeOK, [Next]_vars, NEW v \in Worker,
           worker'[v] # worker[v], worker'[v].at = "posted"
    PROVE  \E w \in Worker, c \in Client : HandleStep(w, c)
<1> USE DEF mainVars, acceptVars, contextVars, portVars, workerVars
<1>1. ASSUME worker' = worker
      PROVE  FALSE
  BY <1>1
<1>2. ASSUME Initializes
      PROVE  FALSE
  BY <1>1, <1>2, CallsOnly DEF noThreadVars
<1>3. ASSUME \/ StartFails \/ StartAccept \/ Started \/ SetShutdown \/ JoinAccept
             \/ PostNull \/ Posted \/ JoinWorkers \/ Clean
             \/ AcceptTop \/ AcceptTimeout \/ AddToClientList
             \/ \E c \in Client : Accept(c) \/ AcceptFails(c)
             \/ \E b \in Client :
                  PeerConnects(b) \/ PeerLeaves(b) \/ \E ok \in BOOLEAN : Complete(b, ok)
      PROVE  FALSE
  BY <1>1, <1>3 DEF StartFails, StartAccept, Started, SetShutdown, JoinAccept,
              PostNull, Posted, JoinWorkers, Clean, AcceptTop, AcceptTimeout,
              AddToClientList, Accept, AcceptFails, PeerConnects, PeerLeaves, Complete,
              noThreadVars
<1>4. ASSUME NEW w \in Worker,
             StartWorker(w) \/ WorkerTop(w) \/ TakeNull(w) \/ Take(w) \/ CheckWoken(w)
      PROVE  FALSE
  <2>1. CASE StartWorker(w) \/ WorkerTop(w) \/ TakeNull(w)
    BY <2>1 DEF StartWorker, WorkerTop, TakeNull, TypeOK, At
  <2>2. CASE Take(w)
    BY <2>2 DEF Take, TypeOK
  <2>3. CASE CheckWoken(w)
    BY <2>3 DEF CheckWoken, TypeOK, At
  <2>4. QED
    BY <1>4, <2>1, <2>2, <2>3
<1>5. CASE UNCHANGED vars
  BY <1>1, <1>5 DEF vars
<1>6. QED
  BY NextCases, <1>2, <1>3, <1>4, <1>5

(* Once a context is destroyed nothing of it is in flight: whoever         *)
(* destroys it holds the only completion, and lets go of it.               *)
LEMMA SettledStep ==
    ASSUME TypeOK, Phase, Owned, OneOperation, Fresh, Filed, Placed, Settled, [Next]_vars
    PROVE  Settled'
<1> USE DEF mainVars, acceptVars, contextVars, portVars, workerVars
<1>1. mistaken \subseteq mistaken' /\ (main = "stopped" => main' = "stopped")
  <2>1. ASSUME Initializes
        PROVE  mistaken' = mistaken /\ main # "stopped"
    BY <2>1, CallsOnly DEF noThreadVars, errorVars, Initializing
  <2>2. ASSUME \/ StartFails \/ StartAccept \/ Started \/ SetShutdown \/ JoinAccept
               \/ PostNull \/ Posted \/ JoinWorkers \/ Clean
        PROVE  mistaken' = mistaken /\ main # "stopped"
    BY <2>2 DEF StartFails, StartAccept, Started, SetShutdown, JoinAccept, PostNull, Posted,
                JoinWorkers, Clean, noThreadVars, errorVars
  <2>3. ASSUME \/ AcceptTop \/ AcceptTimeout \/ AddToClientList
               \/ \E c \in Client : Accept(c) \/ AcceptFails(c)
               \/ \E w \in Worker :
                    StartWorker(w) \/ WorkerTop(w) \/ TakeNull(w) \/ Take(w) \/ CheckWoken(w)
               \/ \E b \in Client :
                    PeerConnects(b) \/ PeerLeaves(b) \/ \E ok \in BOOLEAN : Complete(b, ok)
        PROVE  mistaken' = mistaken /\ main' = main
    BY <2>3 DEF AcceptTop, AcceptTimeout, AddToClientList, Accept, AcceptFails, StartWorker,
                WorkerTop, TakeNull, Take, CheckWoken, PeerConnects, PeerLeaves, Complete,
                errorVars
  <2>4. ASSUME NEW w \in Worker, NEW b \in Client, HandleStep(w, b)
        PROVE  mistaken \subseteq mistaken' /\ main' = main
    BY <2>4, HandleEffect DEF Posts, Removes, FindsMore
  <2>5. CASE UNCHANGED vars
    BY <2>5 DEF vars, errorVars
  <2>6. QED
    BY NextCases, <2>1, <2>2, <2>3, <2>4, <2>5
<1>2. ASSUME NEW v \in Worker, worker'[v].at = "posted"
      PROVE  worker'[v].client \in mistaken'
  <2>1. CASE worker'[v] = worker[v]
    BY <1>1, <1>2, <2>1 DEF Settled
  <2>2. CASE worker'[v] # worker[v]
    <3>1. PICK w \in Worker, c \in Client : HandleStep(w, c)
      BY <1>2, <2>2, WorkerMovesOn
    <3>2. v = w /\ FindsMore(w, c)
      BY <1>2, <2>2, <3>1, HandleEffect, HandleMoves DEF Posts, Removes, TypeOK, At
    <3>3. QED
      BY <3>2 DEF FindsMore, Handles, TypeOK
  <2>3. QED
    BY <2>1, <2>2
<1>3. ASSUME NEW c \in Client, context'[c] = "freed", c \notin mistaken', ~Shares(c),
             main' # "stopped"
      PROVE  Quiet(c)'
  <2>1. CASE context[c] = "freed"
    <3>1. Quiet(c)
      BY <1>1, <1>3, <2>1 DEF Settled
    <3>2. ~Accept(c)
      BY <2>1 DEF Accept, Placed, Unaccepted
    <3>3. QED
      BY <3>1, <3>2, QuietStep
  <2>2. CASE Clean
    BY <1>3, <2>2 DEF Clean
  <2>3. CASE AcceptFails(c)
    <3>1. Quiet(c)
      BY <2>3 DEF AcceptFails, Fresh, Unaccepted
    <3>2. accepting' = "top"
      BY <2>3 DEF AcceptFails
    <3>3. QED
      BY <3>1, <3>2, QuietStep DEF Accept
  <2>4. ASSUME NEW w \in Worker, Removes(w, c)
        PROVE  Quiet(c)'
    <3>1. Handles(w, c)
      BY <1>1, <1>3, <2>4 DEF Removes, Uses, Mistakes, Settled
    <3>2. /\ worker' = [worker EXCEPT ![w] = At("top")]
          /\ UNCHANGED <<operations, packets>>
      BY <2>4 DEF Removes
    <3>3. InFlight(c) = 0 /\ \A v \in Worker \ {w} : ~Holds(v, c)
      BY <3>1 DEF OneOperation, Holds, Handles, InFlight, Good, Bad
    <3>4. InFlight(c)' = 0
      BY <3>2, <3>3 DEF InFlight, Good, Bad
    <3>5. \A v \in Worker : ~Holds(v, c)'
      BY <3>2, <3>3 DEF Holds, TypeOK, At
    <3>6. QED
      BY <3>4, <3>5 DEF Quiet
  <2>5. QED
    BY <1>3, <2>1, <2>2, <2>3, <2>4, Destroying
<1>4. QED
  BY <1>2, <1>3 DEF Settled, Shares

Served == Orderly /\ OneOperation /\ Fresh /\ Filed /\ Placed /\ Settled

LEMMA ServedAlways == Spec => []Served
<1>1. Init => Placed /\ Settled
  BY NoClientAssumption DEF Init, Placed, Settled, Unaccepted, At
<1>2. Orderly /\ OneOperation /\ Fresh /\ Filed /\ Placed /\ Settled /\ [Next]_vars
        => Placed' /\ Settled'
  BY PlacedStep, SettledStep DEF Orderly
<1>3. QED
  BY <1>1, <1>2, FiledAlways, FreshAlways, PTL DEF Spec, Served

(* No worker uses a destroyed context, but one that was dropped for the    *)
(* error of another connection, or whose id another connection has.        *)
THEOREM NoFreedContext == Spec => []NoFreedContextUsed
<1>1. Served => NoFreedContextUsed
  <2>1. SUFFICES ASSUME Served, NEW w \in Worker, NEW c \in Client, Uses(w, c),
                        c \notin mistaken, ~Shares(c)
                 PROVE  context[c] = "alive"
    BY DEF NoFreedContextUsed
  <2>2. Holds(w, c) /\ worker[w].at = "handle"
    BY <2>1 DEF Served, Settled, Uses, Mistakes, Handles, Holds
  <2>3. main # "stopped"
    BY <2>1, <2>2 DEF Served, Orderly, Phase
  <2>4. context[c] # "freed"
    BY <2>1, <2>2, <2>3 DEF Served, Settled, Quiet
  <2>5. context[c] # "none"
    BY <2>1, <2>2 DEF Served, Placed, Fresh, Quiet
  <2>6. QED
    BY <2>1, <2>4, <2>5 DEF Served, Orderly, TypeOK
<1>2. QED
  BY <1>1, ServedAlways, PTL

(* A context lives since its connection was accepted.                      *)
LEMMA StaysAlive ==
    ASSUME TypeOK, [Next]_vars, NEW c \in Client, context'[c] = "alive"
    PROVE  context[c] = "alive" \/ Accept(c)
<1>1. CASE Harmless
  BY <1>1, HarmlessKeeps DEF contextVars
<1>2. CASE Clean
  BY <1>2 DEF Clean, CleanClientList
<1>3. CASE AddToClientList
  BY <1>3 DEF AddToClientList, TypeOK
<1>4. ASSUME NEW b \in Client, AcceptFails(b)
      PROVE  context[c] = "alive"
  BY <1>4 DEF AcceptFails, TypeOK
<1>5. ASSUME NEW b \in Client, Accept(b), b # c
      PROVE  context[c] = "alive"
  BY <1>5 DEF Accept, TypeOK
<1>6. ASSUME NEW w \in Worker, NEW b \in Client, HandleStep(w, b)
      PROVE  context[c] = "alive"
  BY <1>6, HandleMoves DEF RemoveClient, contextVars
<1>7. QED
  BY NextCases, <1>1, <1>2, <1>3, <1>4, <1>5, <1>6 DEF Harmless

(* Nobody but its handler, the accept thread and its completions changes   *)
(* what a context has to say of its operation, and a connection that is    *)
(* lost stays lost.                                                        *)
Kept(c) ==
    /\ io'[c] = io[c] /\ request'[c] = request[c]
    /\ net[c] = "lost" => net'[c] = "lost"

LEMMA BufferKept ==
    ASSUME TypeOK, [Next]_vars, NEW c \in Client, ~Accept(c),
           \A ok \in BOOLEAN : ~Complete(c, ok), \A w \in Worker : ~HandleStep(w, c)
    PROVE  Kept(c)
<1> USE DEF Kept, mainVars, acceptVars, contextVars, portVars, workerVars
<1>1. ASSUME Initializes
      PROVE  Kept(c)
  BY <1>1, CallsOnly DEF noThreadVars
<1>2. ASSUME \/ StartFails \/ StartAccept \/ Started \/ SetShutdown \/ JoinAccept
             \/ PostNull \/ Posted \/ JoinWorkers \/ Clean
             \/ AcceptTop \/ AcceptTimeout \/ AddToClientList
             \/ \E w \in Worker :
                  StartWorker(w) \/ WorkerTop(w) \/ TakeNull(w) \/ Take(w) \/ CheckWoken(w)
      PROVE  Kept(c)
  BY <1>2 DEF StartFails, StartAccept, Started, SetShutdown, JoinAccept,
              PostNull, Posted, JoinWorkers, Clean, AcceptTop, AcceptTimeout,
              AddToClientList, StartWorker, WorkerTop, TakeNull, Take, CheckWoken,
              noThreadVars
<1>3. ASSUME NEW b \in Client, Accept(b) \/ AcceptFails(b)
      PROVE  Kept(c)
  BY <1>3 DEF Accept, AcceptFails, TypeOK
<1>4. ASSUME NEW b \in Client, PeerConnects(b) \/ PeerLeaves(b)
      PROVE  Kept(c)
  BY <1>4 DEF PeerConnects, PeerLeaves, TypeOK
<1>5. ASSUME NEW b \in Client, NEW ok \in BOOLEAN, Complete(b, ok)
      PROVE  Kept(c)
  BY <1>5 DEF Complete, Receives, TypeOK
<1>6. ASSUME NEW w \in Worker, NEW b \in Client, HandleStep(w, b)
      PROVE  Kept(c)
  <2>1. b # c /\ net' = net
    BY <1>6, HandleMoves
  <2>2. io'[c] = io[c]
    BY <1>6, <2>1 DEF HandleStep, HandleFailure, HandleCommand, HandleDisconnect, HandleRest,
                      SendFails, NextReceive, NextReceiveMistaken, RemoveMistaken,
                      NextReceiveFails, Post, TypeOK
  <2>3. request'[c] = request[c]
    BY <1>6, <2>1 DEF HandleStep, HandleFailure, HandleCommand, HandleDisconnect, HandleRest,
                      SendFails, NextReceive, NextReceiveMistaken, RemoveMistaken,
                      NextReceiveFails, Post, Receives, TypeOK
  <2>4. QED
    BY <2>1, <2>2, <2>3
<1>7. CASE UNCHANGED vars
  BY <1>7 DEF vars
<1>8. QED
  BY NextCases, <1>1, <1>2, <1>3, <1>4, <1>5, <1>6, <1>7

(* A failed completion comes from the network and passes from the port to  *)
(* a worker.                                                               *)
LEMMA FailureArises ==
    ASSUME TypeOK, OneOperation, [Next]_vars, NEW c \in Client, Failure(c)'
    PROVE  \/ Failure(c) /\ \A w \in Worker : ~(HandleStep(w, c) /\ Handles(w, c))
           \/ Complete(c, FALSE)
<1> USE DEF mainVars, acceptVars, contextVars, portVars, workerVars
<1>1. Good(c) \in Nat /\ Bad(c) \in Nat /\ operations[c] \in Nat
  BY Counts
<1>2. ASSUME NEW w \in Worker, HandleStep(w, c), Handles(w, c)
      PROVE  FALSE
  <2>1. Good(c) = 0 /\ Bad(c) = 0 /\ \A v \in Worker \ {w} : ~Holds(v, c)
    <3>1. Holds(w, c)
      BY <1>2 DEF Handles, Holds
    <3>2. /\ operations[c] + Good(c) + Bad(c) = 0
          /\ \A v \in Worker : Holds(v, c) => v = w
      BY <3>1 DEF OneOperation, Good, Bad
    <3>3. QED
      BY <1>1, <3>2
  <2>2. /\ \A v \in Worker \ {w} : worker'[v] = worker[v]
        /\ worker'[w].at \in {"top", "posted"}
    BY <1>2, HandleMoves
  <2>3. \A v \in Worker : ~Holds(v, c)'
    BY <2>1, <2>2 DEF Holds
  <2>4. Bad(c)' = 0
    <3>1. CASE packets' = packets
      BY <2>1, <3>1 DEF Bad
    <3>2. CASE packets' # packets
      <4>1. packets' = [packets EXCEPT ![c][TRUE] = Good(c) + 1]
        BY <1>2, <3>2, HandleEffect DEF Posts, Removes, FindsMore, Good
      <4>2. Good(c) + 1 \in Nat
        BY <1>1
      <4>3. QED
        BY <2>1, <4>1, <4>2, PacketChange
    <3>3. QED
      BY <3>1, <3>2
  <2>5. QED
    BY <2>3, <2>4 DEF Failure
<1>3. ASSUME Bad(c)' = Bad(c),
             \A w \in Worker : Holds(w, c)' /\ ~worker'[w].ok => Holds(w, c) /\ ~worker[w].ok
      PROVE  Failure(c)
  BY <1>3 DEF Failure
<1>4. ASSUME UNCHANGED <<packets, worker>>
      PROVE  Failure(c)
  BY <1>3, <1>4 DEF Bad, Holds
<1>5. ASSUME Initializes
      PROVE  Failure(c)
  BY <1>4, <1>5, CallsOnly DEF noThreadVars
<1>6. ASSUME \/ StartFails \/ StartAccept \/ Started \/ SetShutdown \/ JoinAccept
             \/ PostNull \/ Posted \/ JoinWorkers \/ Clean
             \/ AcceptTop \/ AcceptTimeout \/ AddToClientList
             \/ \E b \in Client : Accept(b) \/ AcceptFails(b)
             \/ \E b \in Client : PeerConnects(b) \/ PeerLeaves(b)
      PROVE  Failure(c)
  BY <1>4, <1>6 DEF StartFails, StartAccept, Started, SetShutdown, JoinAccept,
              PostNull, Posted, JoinWorkers, Clean, AcceptTop, AcceptTimeout,
              AddToClientList, Accept, AcceptFails, PeerConnects, PeerLeaves, noThreadVars
<1>7. ASSUME NEW w \in Worker, StartWorker(w) \/ WorkerTop(w) \/ TakeNull(w) \/ CheckWoken(w)
      PROVE  Failure(c)
  <2>1. packets' = packets /\ \A v \in Worker \ {w} : worker'[v] = worker[v]
    BY <1>7 DEF StartWorker, WorkerTop, TakeNull, CheckWoken, TypeOK
  <2>2. Holds(w, c)' /\ ~worker'[w].ok => Holds(w, c) /\ ~worker[w].ok
    <3>1. CASE StartWorker(w) \/ WorkerTop(w) \/ TakeNull(w)
      BY <3>1, NoClientAssumption
         DEF StartWorker, WorkerTop, TakeNull, TypeOK, Holds, At
    <3>2. CASE CheckWoken(w)
      BY <3>2 DEF CheckWoken, TypeOK, Holds, At
    <3>3. QED
      BY <1>7, <3>1, <3>2
  <2>3. QED
    BY <1>3, <2>1, <2>2 DEF Bad, Holds
<1>8. ASSUME NEW w \in Worker, Take(w)
      PROVE  Failure(c)
  <2>1. PICK b \in Client, ok \in BOOLEAN :
          /\ packets[b][ok] > 0
          /\ packets' = [packets EXCEPT ![b][ok] = @ - 1]
          /\ worker' = [worker EXCEPT ![w] = [at |-> "woken", client |-> b, ok |-> ok]]
    BY <1>8 DEF Take
  <2>2. /\ packets[b][ok] \in Nat
        /\ packets[b][ok] - 1 \in Nat
        /\ packets' = [packets EXCEPT ![b][ok] = packets[b][ok] - 1]
    BY <2>1 DEF TypeOK
  <2>3. CASE b = c /\ ~ok
    <3>1. packets[c][FALSE] > 0
      BY <2>1, <2>3
    <3>2. QED
      BY <3>1 DEF Failure, Bad
  <2>4. CASE b # c \/ ok
    <3>1. Bad(c)' = Bad(c)
      BY <2>2, <2>4, PacketChange
    <3>2. \A v \in Worker : Holds(v, c)' /\ ~worker'[v].ok => Holds(v, c) /\ ~worker[v].ok
      BY <2>1, <2>4 DEF Holds, TypeOK
    <3>3. QED
      BY <1>3, <3>1, <3>2
  <2>5. QED
    BY <2>3, <2>4
<1>9. ASSUME NEW w \in Worker, NEW b \in Client, HandleStep(w, b), ~(b = c /\ Handles(w, c))
      PROVE  Failure(c)
  <2>1. /\ \A v \in Worker \ {w} : worker'[v] = worker[v]
        /\ worker'[w].at \in {"top", "posted"}
    BY <1>9, HandleMoves
  <2>2. packets'[c] = packets[c]
    <3>1. CASE Posts(w, b) \/ Removes(w, b)
      BY <3>1 DEF Posts, Removes
    <3>2. CASE FindsMore(w, b)
      BY <1>9, <3>2 DEF FindsMore, TypeOK
    <3>3. QED
      BY <1>9, <3>1, <3>2, HandleEffect
  <2>3. QED
    BY <1>3, <2>1, <2>2 DEF Bad, Holds
<1>10. ASSUME NEW b \in Client, NEW ok \in BOOLEAN, Complete(b, ok)
       PROVE  Failure(c) \/ Complete(c, FALSE)
  <2>1. /\ worker' = worker
        /\ packets' = [packets EXCEPT ![b][ok] = packets[b][ok] + 1]
        /\ packets[b][ok] + 1 \in Nat
    BY <1>10 DEF Complete, TypeOK
  <2>2. CASE b = c /\ ok = FALSE
    BY <1>10, <2>2
  <2>3. CASE b # c \/ ok
    <3>1. Bad(c)' = Bad(c)
      BY <2>1, <2>3, PacketChange
    <3>2. QED
      BY <1>3, <2>1, <3>1 DEF Holds
  <2>4. QED
    BY <2>2, <2>3
<1>11. ASSUME UNCHANGED vars
       PROVE  Failure(c)
  BY <1>4, <1>11 DEF vars
<1>12. Failure(c) \/ Complete(c, FALSE)
  BY NextCases, <1>2, <1>5, <1>6, <1>7, <1>8, <1>9, <1>10, <1>11
<1>13. QED
  BY <1>2, <1>12

LEMMA ExcusedStep ==
    ASSUME TypeOK, OneOperation, Fresh, Excused, [Next]_vars
    PROVE  Excused'
<1>1. SUFFICES ASSUME NEW c \in Client, context'[c] = "alive", Failure(c)'
               PROVE  net'[c] = "lost" \/ Empty(c)'
  BY DEF Excused
<1>2. CASE Complete(c, FALSE)
  BY <1>1, <1>2, StaysAlive DEF Complete, Accept, contextVars, Empty
<1>3. CASE ~Complete(c, FALSE)
  <2>1. Failure(c) /\ \A w \in Worker : ~(HandleStep(w, c) /\ Handles(w, c))
    BY <1>1, <1>3, FailureArises
  <2>2. ~Accept(c)
    BY <2>1, Counts DEF Accept, Fresh, Unaccepted, Quiet, InFlight, Failure
  <2>3. net[c] = "lost" \/ Empty(c)
    BY <1>1, <2>1, <2>2, StaysAlive DEF Excused
  <2>4. CASE Complete(c, TRUE)
    BY <2>3, <2>4 DEF Complete, Empty
  <2>5. CASE \E w \in Worker : HandleStep(w, c)
    <3>1. PICK w \in Worker : HandleStep(w, c) /\ ~Handles(w, c)
      BY <2>1, <2>5
    <3>2. RemoveMistaken(w, c)
      BY <3>1 DEF HandleStep, HandleFailure, HandleCommand, HandleDisconnect, HandleRest,
                  SendFails, NextReceive, NextReceiveMistaken, NextReceiveFails
    <3>3. QED
      BY <2>3, <3>2 DEF RemoveMistaken, Remove, portVars, Empty
  <2>6. CASE /\ ~Complete(c, TRUE)
             /\ \A w \in Worker : ~HandleStep(w, c)
    <3>1. \A ok \in BOOLEAN : ~Complete(c, ok)
      BY <1>3, <2>6
    <3>2. Kept(c)
      BY <2>2, <2>6, <3>1, BufferKept
    <3>3. QED
      BY <2>3, <3>2 DEF Kept, Empty
  <2>7. QED
    BY <2>4, <2>5, <2>6
<1>4. QED
  BY <1>2, <1>3

LEMMA ExcusedAlways == Spec => []Excused
<1>1. Init => Excused
  BY DEF Init, Excused
<1>2. QED
  BY <1>1, TypeCorrect, FreshAlways, ExcusedStep, PTL DEF Spec

(* Whatever the hash, a connection that is well is dropped only at the end *)
(* of Stop, for what it has sent itself, by a worker mistaken about it or  *)
(* because another connection has its id.                                  *)
THEOREM DroppedForReason == Spec => DroppedForAReason
<1>1. Served /\ Excused /\ [Next]_vars =>
        [\A c \in Client : context[c] = "alive" /\ context'[c] = "freed" =>
            \/ main = "cleaning"
            \/ net[c] = "lost"
            \/ request[c] \in {"wrong", "Disconnect"}
            \/ \E w \in Worker : Mistakes(w, c)
            \/ Shares(c)]_vars
  <2>1. SUFFICES ASSUME Served, Excused, [Next]_vars, NEW c \in Client,
                        context[c] = "alive", context'[c] = "freed", ~Shares(c)
                 PROVE  \/ main = "cleaning"
                        \/ net[c] = "lost"
                        \/ request[c] \in {"wrong", "Disconnect"}
                        \/ \E w \in Worker : Mistakes(w, c)
    OBVIOUS
  <2>2. ~AcceptFails(c)
    BY <2>1 DEF Served, Placed, Unaccepted, AcceptFails
  <2>3. CASE Clean
    BY <2>3 DEF Clean
  <2>4. ASSUME NEW w \in Worker, HandleStep(w, c), Removes(w, c)
        PROVE  \/ net[c] = "lost"
               \/ request[c] \in {"wrong", "Disconnect"}
               \/ Mistakes(w, c)
    <3>1. CASE HandleFailure(w, c)
      BY <2>1, <3>1 DEF HandleFailure, Handles, Holds, Failure, Excused, Empty
    <3>2. CASE HandleDisconnect(w, c) \/ RemoveMistaken(w, c)
      BY <3>2 DEF HandleDisconnect, RemoveMistaken
    <3>3. CASE \/ HandleCommand(w, c) \/ HandleRest(w, c) \/ NextReceive(w, c)
               \/ NextReceiveMistaken(w, c)
      BY <2>1, <3>3 DEF HandleCommand, HandleRest, NextReceive, NextReceiveMistaken, Post,
                        contextVars
    <3>4. CASE SendFails(w, c) \/ NextReceiveFails(w, c)
      BY <3>4 DEF SendFails, NextReceiveFails
    <3>5. QED
      BY <2>4, <3>1, <3>2, <3>3, <3>4 DEF HandleStep
  <2>5. QED
    BY <2>1, <2>2, <2>3, <2>4, Destroying DEF Served, Orderly
<1>2. QED
  BY <1>1, ServedAlways, ExcusedAlways, PTL DEF Spec, DroppedForAReason

-----------------------------------------------------------------------------
(* Stop                                                                    *)

(* The event is set before the threads are joined, and not before Stop.    *)
Signalled ==
    /\ main \in {"joinAccept", "posting", "joinWorkers"} =>
         /\ accepting \in {"none", "done"} \/ shutdown
         /\ \A w \in Worker : worker[w].at \in {"none", "done"} \/ shutdown
    /\ main \in Unstarted \union {"starting", "running"} => ~shutdown

(* Every worker asleep has its packet, in the port or still to be posted.  *)
Wakeable ==
    /\ main = "posting" => Cardinality(Waiting) <= nulls + toPost
    /\ main = "joinWorkers" => Cardinality(Waiting) <= nulls

(* Outside Start and Stop nobody touches what Stop has set up, and every   *)
(* step of a worker begins with a worker that runs.                        *)
LEMMA MainKept ==
    ASSUME [Next]_vars
    PROVE  \/ Initializes \/ StartFails \/ StartAccept \/ Started \/ SetShutdown
           \/ \E w \in Worker : StartWorker(w)
           \/ JoinAccept \/ PostNull \/ Posted \/ JoinWorkers \/ Clean
           \/ UNCHANGED mainVars
<1> USE DEF mainVars, acceptVars, contextVars, portVars, workerVars
<1>1. ASSUME \/ AcceptTop \/ AcceptTimeout \/ AddToClientList
             \/ \E c \in Client : Accept(c) \/ AcceptFails(c)
             \/ \E w \in Worker : WorkerTop(w) \/ TakeNull(w) \/ Take(w) \/ CheckWoken(w)
             \/ \E c \in Client :
                  PeerConnects(c) \/ PeerLeaves(c) \/ \E ok \in BOOLEAN : Complete(c, ok)
      PROVE  UNCHANGED mainVars
  BY <1>1 DEF AcceptTop, AcceptTimeout, AddToClientList, Accept, AcceptFails, WorkerTop,
              TakeNull, Take, CheckWoken, PeerConnects, PeerLeaves, Complete
<1>2. ASSUME NEW w \in Worker, NEW c \in Client, HandleStep(w, c)
      PROVE  UNCHANGED mainVars
  BY <1>2, HandleEffect
<1>3. CASE UNCHANGED vars
  BY <1>3 DEF vars
<1>4. QED
  BY NextCases, <1>1, <1>2, <1>3

(* How a thread may move: the accept thread along its loop, ...            *)
LEMMA AcceptMoves ==
    ASSUME TypeOK, [Next]_vars, accepting' # accepting
    PROVE  \/ StartAccept
           \/ accepting = "top" /\ accepting' = IF shutdown THEN "done" ELSE "poll"
           \/ accepting = "poll" /\ accepting' \in {"list", "top"}
           \/ accepting = "list" /\ accepting' = "top"
<1> USE DEF mainVars, acceptVars, contextVars, portVars, workerVars
<1>1. ASSUME Initializes
      PROVE  FALSE
  BY <1>1, CallsOnly DEF noThreadVars
<1>2. ASSUME \/ StartFails \/ Started \/ SetShutdown
             \/ JoinAccept \/ PostNull \/ Posted \/ JoinWorkers \/ Clean
             \/ \E w \in Worker : StartWorker(w)
             \/ \E w \in Worker : WorkerTop(w) \/ TakeNull(w) \/ Take(w) \/ CheckWoken(w)
             \/ \E c \in Client :
                  PeerConnects(c) \/ PeerLeaves(c) \/ \E ok \in BOOLEAN : Complete(c, ok)
      PROVE  FALSE
  BY <1>2 DEF StartFails, Started, SetShutdown, JoinAccept, PostNull, Posted, JoinWorkers,
              Clean, StartWorker, WorkerTop, TakeNull, Take, CheckWoken, PeerConnects,
              PeerLeaves, Complete, noThreadVars
<1>3. ASSUME NEW w \in Worker, NEW c \in Client, HandleStep(w, c)
      PROVE  FALSE
  BY <1>3, HandleEffect
<1>4. ASSUME \/ AcceptTop \/ AcceptTimeout \/ AddToClientList
             \/ \E c \in Client : Accept(c) \/ AcceptFails(c)
      PROVE  \/ accepting = "top" /\ accepting' = IF shutdown THEN "done" ELSE "poll"
             \/ accepting = "poll" /\ accepting' \in {"list", "top"}
             \/ accepting = "list" /\ accepting' = "top"
  BY <1>4 DEF AcceptTop, AcceptTimeout, AddToClientList, Accept, AcceptFails
<1>5. CASE UNCHANGED vars
  BY <1>5 DEF vars
<1>6. QED
  BY NextCases, <1>1, <1>2, <1>3, <1>4, <1>5

(* ... and a worker along its own, one worker at a time; only a packet     *)
(* taken away changes the number of packets outside Stop.                  *)
WorkerMove(w) ==
    \/ worker[w].at = "top" /\ worker'[w].at = IF shutdown THEN "done" ELSE "wait"
    \/ worker[w].at = "wait" /\ worker'[w].at = "woken"
    \/ worker[w].at = "woken" /\ worker'[w].at = "done"
    \/ worker[w].at = "woken" /\ ~shutdown /\ worker'[w].at = "handle"
    \/ worker[w].at \in {"handle", "posted"} /\ worker'[w].at = "top"
    \/ worker[w].at = "handle" /\ worker'[w].at = "posted"

LEMMA WorkerMoves ==
    ASSUME TypeOK, [Next]_vars, worker' # worker
    PROVE  \E w \in Worker :
             /\ \A v \in Worker \ {w} : worker'[v] = worker[v]
             /\ \/ StartWorker(w)
                \/ UNCHANGED mainVars /\ UNCHANGED accepting /\ WorkerMove(w)
             /\ \/ nulls' = nulls
                \/ worker[w].at = "wait" /\ nulls > 0 /\ nulls' = nulls - 1
<1> USE DEF mainVars, acceptVars, contextVars, portVars, workerVars
<1>1. ASSUME Initializes
      PROVE  FALSE
  BY <1>1, CallsOnly DEF noThreadVars
<1>2. ASSUME \/ StartFails \/ StartAccept \/ Started \/ SetShutdown
             \/ JoinAccept \/ PostNull \/ Posted \/ JoinWorkers \/ Clean
             \/ AcceptTop \/ AcceptTimeout \/ AddToClientList
             \/ \E c \in Client : Accept(c) \/ AcceptFails(c)
             \/ \E c \in Client :
                  PeerConnects(c) \/ PeerLeaves(c) \/ \E ok \in BOOLEAN : Complete(c, ok)
      PROVE  FALSE
  BY <1>2 DEF StartFails, StartAccept, Started, SetShutdown, JoinAccept, PostNull, Posted,
              JoinWorkers, Clean, AcceptTop, AcceptTimeout, AddToClientList, Accept,
              AcceptFails, PeerConnects, PeerLeaves, Complete, noThreadVars
<1>3. ASSUME NEW w \in Worker, StartWorker(w)
      PROVE  nulls' = nulls /\ \A v \in Worker \ {w} : worker'[v] = worker[v]
  BY <1>3 DEF StartWorker, TypeOK
<1>4. ASSUME NEW w \in Worker, NEW s \in {"top", "wait", "woken", "done"},
             worker' = [worker EXCEPT ![w] = At(s)]
      PROVE  worker'[w].at = s /\ \A v \in Worker \ {w} : worker'[v] = worker[v]
  BY <1>4 DEF TypeOK, At
<1>5. ASSUME NEW w \in Worker, WorkerTop(w)
      PROVE  /\ \A v \in Worker \ {w} : worker'[v] = worker[v]
             /\ UNCHANGED <<mainVars, accepting, nulls>> /\ WorkerMove(w)
  BY <1>4, <1>5 DEF WorkerTop, WorkerMove
<1>6. ASSUME NEW w \in Worker, TakeNull(w)
      PROVE  /\ \A v \in Worker \ {w} : worker'[v] = worker[v]
             /\ UNCHANGED <<mainVars, accepting>> /\ WorkerMove(w)
             /\ worker[w].at = "wait" /\ nulls > 0 /\ nulls' = nulls - 1
  BY <1>4, <1>6 DEF TakeNull, WorkerMove
<1>7. ASSUME NEW w \in Worker, Take(w)
      PROVE  /\ \A v \in Worker \ {w} : worker'[v] = worker[v]
             /\ UNCHANGED <<mainVars, accepting, nulls>> /\ WorkerMove(w)
  BY <1>7 DEF Take, WorkerMove, TypeOK
<1>8. ASSUME NEW w \in Worker, CheckWoken(w)
      PROVE  /\ \A v \in Worker \ {w} : worker'[v] = worker[v]
             /\ UNCHANGED <<mainVars, accepting, nulls>> /\ WorkerMove(w)
  <2>1. CASE shutdown \/ worker[w].client = NoClient
    <3>1. worker' = [worker EXCEPT ![w] = At("done")]
      BY <1>8, <2>1 DEF CheckWoken, TypeOK
    <3>2. QED
      BY <1>4, <1>8, <3>1 DEF CheckWoken, WorkerMove
  <2>2. CASE ~(shutdown \/ worker[w].client = NoClient)
    BY <1>8, <2>2 DEF CheckWoken, WorkerMove, TypeOK
  <2>3. QED
    BY <2>1, <2>2
<1>9. ASSUME NEW w \in Worker, NEW c \in Client, HandleStep(w, c)
      PROVE  /\ \A v \in Worker \ {w} : worker'[v] = worker[v]
             /\ UNCHANGED <<mainVars, accepting, nulls>> /\ WorkerMove(w)
  BY <1>9, HandleMoves DEF WorkerMove
<1>10. CASE UNCHANGED vars
  BY <1>10 DEF vars
<1>11. QED
  BY NextCases, <1>1, <1>2, <1>3, <1>5, <1>6, <1>7, <1>8, <1>9, <1>10

LEMMA SignalledStep ==
    ASSUME TypeOK, Phase, Opened, HandlesOpen, Signalled, [Next]_vars
    PROVE  Signalled'
<1> USE DEF Signalled, mainVars
<1>1. ASSUME UNCHANGED <<main, shutdown>>,
             accepting' \in {"none", "done"} \/ accepting' = accepting \/ main = "ready"
               \/ accepting \notin {"none", "done"},
             \A w \in Worker : \/ worker'[w].at \in {"none", "done"}
                               \/ worker'[w] = worker[w]
                               \/ worker[w].at \notin {"none", "done"}
                               \/ main = "starting"
      PROVE  Signalled'
  BY <1>1 DEF Unstarted
<1>2. ASSUME Initializes
      PROVE  Signalled'
  BY <1>2, CallsOnly DEF noThreadVars, Initializing, Unstarted
<1>3. ASSUME StartFails \/ Started \/ StartAccept
      PROVE  Signalled'
  BY <1>3 DEF StartFails, Started, StartAccept, noThreadVars, Unstarted, Initializing
<1>4. ASSUME SetShutdown
      PROVE  Signalled'
  <2>1. accepting \in {"none", "done"} \/ "shutdownEvent" \in open
    BY DEF HandlesOpen
  <2>2. \A w \in Worker : worker[w].at \in {"none", "done"} \/ "shutdownEvent" \in open
    BY DEF HandlesOpen
  <2>3. /\ main' = "joinAccept" /\ shutdown' = ("shutdownEvent" \in open)
        /\ accepting' = accepting /\ worker' = worker
    BY <1>4 DEF SetShutdown, acceptVars, workerVars
  <2>4. QED
    BY <2>1, <2>2, <2>3 DEF Unstarted, Initializing
<1>5. ASSUME JoinAccept \/ PostNull \/ Posted \/ JoinWorkers \/ Clean
      PROVE  Signalled'
  BY <1>5 DEF JoinAccept, PostNull, Posted, JoinWorkers, Clean, acceptVars, workerVars,
              noThreadVars, Unstarted, Initializing
<1>6. ASSUME NEW w \in Worker, StartWorker(w)
      PROVE  Signalled'
  BY <1>6 DEF StartWorker, acceptVars, Unstarted, Initializing
<1>7. CASE UNCHANGED mainVars
  <2>1. \/ accepting' = accepting \/ accepting \notin {"none", "done"}
        \/ main = "ready"
    BY AcceptMoves DEF StartAccept
  <2>2. \A w \in Worker : \/ worker'[w] = worker[w]
                          \/ worker[w].at \notin {"none", "done"}
                          \/ main = "starting"
    BY WorkerMoves DEF WorkerMove, StartWorker
  <2>3. QED
    BY <1>1, <1>7, <2>1, <2>2
<1>8. QED
  BY MainKept, <1>2, <1>3, <1>4, <1>5, <1>6, <1>7

(* How many workers are asleep: one less when one of them takes a packet,  *)
(* and never more once the event is set.                                   *)
LEMMA Sleepers ==
    /\ IsFiniteSet(Waiting) /\ Cardinality(Waiting) \in Nat
    /\ Cardinality(Waiting) <= Cardinality(Worker) /\ Cardinality(Worker) \in Nat
<1>1. Waiting \subseteq Worker
  BY DEF Waiting
<1>2. QED
  BY <1>1, WorkerAssumption, FS_Subset, FS_CardinalityType

(* Stop posts packets and the workers take them, and nobody else does.     *)
LEMMA NullsChange ==
    ASSUME [Next]_vars, nulls' # nulls
    PROVE  PostNull \/ \E w \in Worker : TakeNull(w)
<1> USE DEF portVars, workerVars
<1>1. ASSUME Initializes
      PROVE  FALSE
  BY <1>1, CallsOnly DEF noThreadVars
<1>2. ASSUME \/ StartFails \/ StartAccept \/ Started \/ SetShutdown
             \/ JoinAccept \/ Posted \/ JoinWorkers \/ Clean
             \/ AcceptTop \/ AcceptTimeout \/ AddToClientList
             \/ \E c \in Client : Accept(c) \/ AcceptFails(c)
             \/ \E w \in Worker : StartWorker(w) \/ WorkerTop(w) \/ Take(w) \/ CheckWoken(w)
             \/ \E c \in Client :
                  PeerConnects(c) \/ PeerLeaves(c) \/ \E ok \in BOOLEAN : Complete(c, ok)
      PROVE  FALSE
  BY <1>2 DEF StartFails, StartAccept, Started, SetShutdown, JoinAccept, Posted,
              JoinWorkers, Clean, AcceptTop, AcceptTimeout, AddToClientList, Accept,
              AcceptFails, StartWorker, WorkerTop, Take, CheckWoken, PeerConnects,
              PeerLeaves, Complete, noThreadVars
<1>3. ASSUME NEW w \in Worker, NEW c \in Client, HandleStep(w, c)
      PROVE  FALSE
  BY <1>3, HandleEffect
<1>4. CASE UNCHANGED vars
  BY <1>4 DEF vars
<1>5. QED
  BY NextCases, <1>1, <1>2, <1>3, <1>4

LEMMA SleepersOnlyWake ==
    ASSUME TypeOK, [Next]_vars, UNCHANGED mainVars, main # "starting",
           \A w \in Worker : worker[w].at \in {"none", "done"} \/ shutdown
    PROVE  /\ Cardinality(Waiting') \in Nat
           /\ Cardinality(Waiting') <= Cardinality(Waiting)
           /\ \/ nulls' = nulls
              \/ nulls' = nulls - 1 /\ Cardinality(Waiting') <= Cardinality(Waiting) - 1
<1>1. ASSUME NEW T, T \subseteq Waiting
      PROVE  Cardinality(T) \in Nat /\ Cardinality(T) <= Cardinality(Waiting)
  BY <1>1, Sleepers, FS_Subset, FS_CardinalityType
<1>2. ASSUME NEW w \in Waiting, NEW T, T \subseteq Waiting \ {w}
      PROVE  Cardinality(T) <= Cardinality(Waiting) - 1
  <2>1. IsFiniteSet(Waiting \ {w}) /\ Cardinality(Waiting \ {w}) = Cardinality(Waiting) - 1
    BY <1>2, Sleepers, FS_RemoveElement
  <2>2. QED
    BY <1>2, <2>1, FS_Subset
<1>3. Waiting' \subseteq Waiting
  <2>1. CASE worker' = worker
    BY <2>1 DEF Waiting
  <2>2. CASE worker' # worker
    <3>1. PICK w \in Worker : /\ \A v \in Worker \ {w} : worker'[v] = worker[v]
                              /\ StartWorker(w) \/ WorkerMove(w)
      BY <2>2, WorkerMoves
    <3>2. WorkerMove(w)
      BY <3>1 DEF StartWorker
    <3>3. QED
      BY <3>1, <3>2 DEF Waiting, WorkerMove
  <2>3. QED
    BY <2>1, <2>2
<1>4. CASE nulls' # nulls
  <2>1. ~PostNull
    BY DEF PostNull, mainVars, TypeOK
  <2>2. PICK w \in Worker : TakeNull(w)
    BY <1>4, <2>1, NullsChange
  <2>3. /\ worker[w].at = "wait" /\ nulls' = nulls - 1
        /\ worker' = [worker EXCEPT ![w] = At("woken")]
    BY <2>2 DEF TakeNull
  <2>4. w \in Waiting /\ Waiting' \subseteq Waiting \ {w}
    BY <1>3, <2>3 DEF Waiting, TypeOK, At
  <2>5. QED
    BY <1>1, <1>2, <1>3, <2>3, <2>4
<1>5. QED
  BY <1>1, <1>3, <1>4

LEMMA WakeableStep ==
    ASSUME TypeOK, Signalled, HandlesOpen, Wakeable, [Next]_vars
    PROVE  Wakeable'
<1> DEFINE n == Cardinality(Waiting)
<1>0. /\ n \in Nat /\ nulls \in Nat /\ toPost \in Nat
      /\ n <= Cardinality(Worker) /\ Cardinality(Worker) \in Nat
  BY Sleepers DEF TypeOK
<1>1. ASSUME main' \notin {"posting", "joinWorkers"}
      PROVE  Wakeable'
  BY <1>1 DEF Wakeable
<1>2. ASSUME \/ Initializes \/ StartFails \/ StartAccept \/ Started \/ SetShutdown
             \/ JoinWorkers \/ Clean \/ \E w \in Worker : StartWorker(w)
      PROVE  Wakeable'
  BY <1>1, <1>2, CallsOnly DEF Initializing, StartFails, StartAccept, Started, SetShutdown,
              JoinWorkers, Clean, StartWorker, mainVars
<1>3. CASE JoinAccept
  <2>1. /\ main' = "posting" /\ toPost' = Cardinality(Worker) /\ nulls' = nulls
        /\ worker' = worker
    BY <1>3 DEF JoinAccept, portVars, workerVars
  <2>2. n' = n
    BY <2>1 DEF Waiting
  <2> HIDE DEF n
  <2>3. n' <= nulls' + toPost'
    BY <1>0, <2>1, <2>2
  <2>4. QED
    BY <2>1, <2>3 DEF Wakeable, n
<1>4. CASE PostNull
  <2>1. /\ main = "posting" /\ main' = "posting" /\ toPost > 0 /\ toPost' = toPost - 1
        /\ worker' = worker /\ nulls' = IF "port" \in open THEN nulls + 1 ELSE nulls
    BY <1>4 DEF PostNull, workerVars
  <2>2. n' = n
    BY <2>1 DEF Waiting
  <2>3. "port" \notin open => n = 0
    <3>1. "port" \notin open => Waiting = {}
      BY DEF HandlesOpen, Waiting
    <3>2. QED
      BY <3>1, FS_EmptySet
  <2>4. n <= nulls + toPost
    BY <2>1 DEF Wakeable
  <2> HIDE DEF n
  <2>5. n' <= nulls' + toPost'
    BY <1>0, <2>1, <2>2, <2>3, <2>4
  <2>6. QED
    BY <2>1, <2>5 DEF Wakeable, n
<1>5. CASE Posted
  <2>1. /\ main = "posting" /\ main' = "joinWorkers" /\ toPost = 0
        /\ worker' = worker /\ nulls' = nulls
    BY <1>5 DEF Posted, noThreadVars, portVars, workerVars
  <2>2. n' = n
    BY <2>1 DEF Waiting
  <2>3. n <= nulls + toPost
    BY <2>1 DEF Wakeable
  <2> HIDE DEF n
  <2>4. n' <= nulls'
    BY <1>0, <2>1, <2>2, <2>3
  <2>5. QED
    BY <2>1, <2>4 DEF Wakeable, n
<1>6. CASE UNCHANGED mainVars
  <2>1. CASE main \in {"posting", "joinWorkers"}
    <3>1. \A w \in Worker : worker[w].at \in {"none", "done"} \/ shutdown
      BY <2>1 DEF Signalled
    <3>2. main # "starting"
      BY <2>1
    <3>3. /\ n' \in Nat /\ n' <= n
          /\ nulls' = nulls \/ (nulls' = nulls - 1 /\ n' <= n - 1)
      BY <1>6, <3>1, <3>2, SleepersOnlyWake
    <3> HIDE DEF n
    <3>4. main = "posting" => n <= nulls + toPost
      BY DEF Wakeable, n
    <3>5. main = "joinWorkers" => n <= nulls
      BY DEF Wakeable, n
    <3>6. main' = main /\ toPost' = toPost
      BY <1>6 DEF mainVars
    <3>7. main' = "posting" => n' <= nulls' + toPost'
      BY <1>0, <3>3, <3>4, <3>6
    <3>8. main' = "joinWorkers" => n' <= nulls'
      BY <1>0, <3>3, <3>5, <3>6
    <3>9. QED
      BY <3>7, <3>8 DEF Wakeable, n
  <2>2. CASE main \notin {"posting", "joinWorkers"}
    BY <1>1, <1>6, <2>2 DEF mainVars
  <2>3. QED
    BY <2>1, <2>2
<1>7. QED
  BY MainKept, <1>2, <1>3, <1>4, <1>5, <1>6

LEMMA StopAlways == Spec => [](Orderly /\ Signalled /\ Wakeable)
<1>1. Init => Signalled /\ Wakeable
  BY DEF Init, Signalled, Wakeable, Unstarted
<1>2. Orderly /\ Signalled /\ Wakeable /\ [Next]_vars => Signalled' /\ Wakeable'
  BY SignalledStep, WakeableStep DEF Orderly
<1>3. QED
  BY <1>1, <1>2, OrderlyAlways, PTL DEF Spec

(* Stop never waits for a thread that has not been told to end, nor for a  *)
(* worker that sleeps in the port without a packet to wake it, for any     *)
(* number of workers.                                                      *)
THEOREM StopIsNeverStuck == Spec => []StopNeverStuck
<1>1. Signalled /\ Wakeable => StopNeverStuck
  BY DEF Signalled, Wakeable, StopNeverStuck
<1>2. QED
  BY <1>1, StopAlways, PTL

(* Once Stop has set the event every step of a thread is one of the few it *)
(* has left.  Together with StopIsNeverStuck this is what StopCompletes    *)
(* rests on; only the fairness of the threads is missing.                  *)
THEOREM ThreadsRunDown == Spec => RunsDown
<1>1. Orderly /\ Signalled /\ [Next]_vars =>
        [shutdown =>
           /\ shutdown'
           /\ \A w \in Worker : worker'[w] # worker[w] =>
                WorkerLeft[worker'[w].at] < WorkerLeft[worker[w].at]
           /\ accepting' # accepting => AcceptLeft[accepting'] < AcceptLeft[accepting]]_vars
  <2>1. SUFFICES ASSUME Orderly, Signalled, [Next]_vars, shutdown
                 PROVE  /\ shutdown'
                        /\ \A w \in Worker : worker'[w] # worker[w] =>
                             WorkerLeft[worker'[w].at] < WorkerLeft[worker[w].at]
                        /\ accepting' # accepting =>
                             AcceptLeft[accepting'] < AcceptLeft[accepting]
    OBVIOUS
  <2>2. main \notin Unstarted \union {"starting", "running"}
    BY <2>1 DEF Signalled
  <2>3. shutdown'
    BY <2>1, <2>2, MainKept, CallsOnly
       DEF Unstarted, Initializing, StartFails, StartAccept, Started, SetShutdown, StartWorker,
           JoinAccept, PostNull, Posted, JoinWorkers, Clean, mainVars, noThreadVars
  <2>4. ASSUME NEW w \in Worker, worker'[w] # worker[w]
        PROVE  WorkerLeft[worker'[w].at] < WorkerLeft[worker[w].at]
    <3>1. worker' # worker
      BY <2>4
    <3>2. PICK v \in Worker : /\ \A u \in Worker \ {v} : worker'[u] = worker[u]
                              /\ StartWorker(v) \/ WorkerMove(v)
      BY <2>1, <3>1, WorkerMoves DEF Orderly
    <3>3. v = w
      BY <2>4, <3>2
    <3>4. WorkerMove(w)
      BY <2>2, <3>2, <3>3 DEF StartWorker
    <3>5. QED
      BY <2>1, <3>4 DEF WorkerMove, WorkerLeft
  <2>5. ASSUME accepting' # accepting
        PROVE  AcceptLeft[accepting'] < AcceptLeft[accepting]
    <3>1. ~StartAccept
      BY <2>2 DEF StartAccept, Unstarted
    <3>2. QED
      BY <2>1, <2>5, <3>1, AcceptMoves DEF Orderly, AcceptLeft
  <2>6. QED
    BY <2>3, <2>4, <2>5
<1>2. QED
  BY <1>1, StopAlways, PTL DEF Spec, RunsDown
=============================================================================
