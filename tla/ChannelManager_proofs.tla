----------------------- MODULE ChannelManager_proofs -----------------------
(***************************************************************************)
(* Theorems about ChannelManager, for any clients, devices and channels.   *)
(***************************************************************************)
EXTENDS ChannelManager, TLAPS

Owners == [Device -> [Channel -> Client \cup {NoOwner}]]

(* The task a command leaves behind is a task.                             *)
LEMMA TaskTypes ==
    /\ Idle \in Task /\ Late \in Task
    /\ \A res \in Answer : Reply(res) \in Task
    /\ \A step \in Step, d \in Device \cup {Nothing},
          ch \in Channel \cup {BadChannel}, res \in Answer :
             At(step, d, ch, res) \in Task
BY DEF Idle, Late, Reply, At, Task, Step, Answer, ErrorCode

(* The results of the channel operations are answers.                      *)
LEMMA ResultTypes ==
    ASSUME NEW c, NEW d, NEW ch
    PROVE  /\ Available(c, d, ch) \in Answer
           /\ SetOwnerResult(d, ch) \in Answer
BY DEF Available, SetOwnerResult, Answer, ErrorCode

LEMMA TaskFields ==
    /\ Idle.step = "idle" /\ Late.step = "late"
    /\ \A res : Reply(res).step = "reply"
    /\ \A step, d, ch, res : /\ At(step, d, ch, res).step = step
                             /\ At(step, d, ch, res).dev = d
                             /\ At(step, d, ch, res).chan = ch
                             /\ At(step, d, ch, res).answer = res
BY DEF Idle, Late, Reply, At

(* The steps in which a command has a channel to lose.                     *)
Busy == {"connect", "call", "write"}

LEMMA UsersBusy ==
    \A c, d, ch : Uses(c, d, ch) => task[c].step \in Busy
BY DEF Uses, Busy

(* The updates of the owner map keep it one.                               *)
LEMMA ClaimType ==
    ASSUME owner \in Owners, NEW c \in Client, NEW d, NEW chans
    PROVE  Claim(c, d, chans) \in Owners
BY DEF Claim, Owners

LEMMA SetOwnerType ==
    ASSUME owner \in Owners, NEW d, NEW ch, NEW id \in Client \cup {NoOwner}
    PROVE  SetOwner(d, ch, id) \in Owners
BY DEF SetOwner, Owners

LEMMA RemovalTypes ==
    ASSUME TypeOK, NEW c \in Client
    PROVE  /\ OwnersWithout(c) \in Owners
           /\ RecipientsWithout(c) \in [Device -> [InChannel -> SUBSET Client]]
BY DEF TypeOK, OwnersWithout, RecipientsWithout, Owners

(* The actions a step may be.                                              *)
LEMMA NextCases ==
    ASSUME [Next]_vars
    PROVE  \/ \E c \in Client :
                \/ Accept(c) \/ AddToClientList(c) \/ PeerLeaves(c)
                \/ AcceptFails(c) \/ DropClient(c) \/ Disconnect(c)
                \/ ReplySentMistaken(c) \/ RemoveDoomed(c)
                \/ Check(c) \/ Connect(c)
                \/ CallLibrary(c) \/ ReplySent(c) \/ PlainCommand(c) \/ WrongCommand(c)
           \/ \E c \in Client, d \in Device, chans \in {InChannel, OutChannel} :
                GetChannelStates(c, d, chans)
           \/ \E c \in Client, d \in Device, ch \in Channel \cup {BadChannel} :
                \/ ReleaseChannel(c, d, ch) \/ ConnectForced(c, d, ch)
                \/ Configure(c, d, ch) \/ ResetIn(c, d, ch)
                \/ SendWords(c, d, ch) \/ ReceiveWords(c, d, ch)
           \/ \E d \in Device : AddDevice(d) \/ RemoveDevice(d)
           \/ UNCHANGED vars
<1>1. /\ InChannel \cup {BadChannel} \subseteq Channel \cup {BadChannel}
      /\ OutChannel \cup {BadChannel} \subseteq Channel \cup {BadChannel}
  BY DEF Channel
<1>2. CASE \E c \in Client : Serve(c)
  BY <1>2 DEF Serve
<1>3. CASE \E c \in Client : Request(c)
  BY <1>1, <1>3 DEF Request
<1>4. QED
  BY <1>2, <1>3 DEF Next

(* Every step keeps the types.                                             *)
LEMMA TypeStep ==
    ASSUME TypeOK, [Next]_vars
    PROVE  TypeOK'
<1> USE DEF TypeOK, Owners, clientVars, Busy
<1>1. ASSUME NEW c \in Client, EndClient(c)
      PROVE  TypeOK'
  BY <1>1, TaskTypes, RemovalTypes DEF EndClient, RemoveClient
<1>2. ASSUME NEW c \in Client, Accept(c) \/ AddToClientList(c) \/ PeerLeaves(c)
      PROVE  TypeOK'
  BY <1>2 DEF Accept, AddToClientList, PeerLeaves
<1>3. ASSUME NEW c \in Client, AcceptFails(c) \/ DropClient(c) \/ Disconnect(c)
      PROVE  TypeOK'
  BY <1>1, <1>3 DEF AcceptFails, DropClient, Disconnect
<1>4. ASSUME NEW c \in Client, NEW t \in Task, task' = [task EXCEPT ![c] = t],
             owner' \in Owners,
             recipients' \in [Device -> [InChannel -> SUBSET Client]],
             doomed' \subseteq Client,
             voided' \subseteq Client,
             c \in voided' => t.step \in Busy,
             \A x \in voided' \ {c} : task[x].step \in Busy,
             UNCHANGED <<session, clientsMap, acceptor, gone, devices>>
      PROVE  TypeOK'
  BY <1>4
<1>5. \A c \in Client : /\ task[c] \in Task
                        /\ task[c].dev \in Device \cup {Nothing}
                        /\ task[c].chan \in Channel \cup {BadChannel}
                        /\ Receives(c) => c \notin voided
  BY DEF Task, Receives
<1>6. ASSUME NEW c \in Client, Check(c)
      PROVE  TypeOK'
  <2> DEFINE d == task[c].dev
             ch == task[c].chan
             t == IF Available(c, d, ch) = "TRUE" THEN At("connect", d, ch, "TRUE")
                  ELSE Reply(Available(c, d, ch))
  <2>1. t \in Task
    BY <1>5, TaskTypes, ResultTypes DEF Step, Answer
  <2>2. Claim(c, d, {ch}) \in Owners
    BY ClaimType
  <2>3. c \notin voided
    BY <1>6 DEF Check
  <2>4. QED
    BY <1>4, <1>6, <2>1, <2>2, <2>3 DEF Check
<1>7. ASSUME NEW c \in Client, Connect(c)
      PROVE  TypeOK'
  <2> DEFINE d == task[c].dev
             ch == task[c].chan
             t == IF SetOwnerResult(d, ch) = "TRUE" THEN At("call", d, ch, "TRUE")
                  ELSE Reply(SetOwnerResult(d, ch))
  <2>1. t \in Task /\ SetOwner(d, ch, c) \in Owners
    BY <1>5, TaskTypes, ResultTypes, SetOwnerType DEF Step, Answer
  <2>2. task' = [task EXCEPT ![c] = t]
    BY <1>7 DEF Connect
  <2>3. /\ voided' \subseteq Client
        /\ c \in voided' => t.step \in Busy
        /\ \A x \in voided' \ {c} : task[x].step \in Busy
    BY <1>7, UsersBusy, TaskFields DEF Connect, Users
  <2>4. QED
    BY <1>4, <1>7, <2>1, <2>2, <2>3 DEF Connect
<1>8. ASSUME NEW c \in Client,
             \/ CallLibrary(c) \/ ReplySent(c) \/ ReplySentMistaken(c)
             \/ PlainCommand(c) \/ WrongCommand(c)
      PROVE  TypeOK'
  <2>1. Reply("LIB") \in Task /\ Reply("EMPTY") \in Task /\ Idle \in Task
    BY TaskTypes DEF Answer
  <2>2. \E t \in Task : task' = [task EXCEPT ![c] = t]
    BY <1>8, <2>1 DEF CallLibrary, ReplySent, ReplySentMistaken, PlainCommand,
                      WrongCommand
  <2>3. voided' \subseteq voided /\ c \notin voided'
    BY <1>5, <1>8 DEF CallLibrary, ReplySent, ReplySentMistaken, PlainCommand,
                      WrongCommand
  <2>4. /\ doomed' \subseteq Client
        /\ UNCHANGED <<session, clientsMap, acceptor, gone, devices, owner, recipients>>
    BY <1>8 DEF CallLibrary, ReplySent, ReplySentMistaken, PlainCommand, WrongCommand
  <2>5. QED
    BY <1>4, <2>2, <2>3, <2>4
<1>9. ASSUME NEW c \in Client, NEW d \in Device, NEW chans,
             GetChannelStates(c, d, chans)
      PROVE  TypeOK'
  <2>1. Reply("STATES") \in Task /\ Reply("DEVICE_NOT_AVAILABLE") \in Task
    BY TaskTypes DEF Answer, ErrorCode
  <2>2. Claim(c, d, chans) \in Owners
    BY ClaimType
  <2>3. QED
    BY <1>4, <1>5, <1>9, <2>1, <2>2 DEF GetChannelStates
<1>10. ASSUME NEW c \in Client, NEW d \in Device, NEW ch \in Channel \cup {BadChannel},
              \/ ReleaseChannel(c, d, ch)
              \/ ConnectForced(c, d, ch)
       PROVE  TypeOK'
  <2>1. Reply(Available(c, d, ch)) \in Task /\ Reply(SetOwnerResult(d, ch)) \in Task
    BY TaskTypes, ResultTypes
  <2>2. SetOwner(d, ch, c) \in Owners /\ SetOwner(d, ch, NoOwner) \in Owners
    BY SetOwnerType
  <2>3. /\ voided' \subseteq Client
        /\ c \notin voided'
        /\ \A x \in voided' \ {c} : task[x].step \in Busy
    BY <1>5, <1>10, UsersBusy DEF ReleaseChannel, ConnectForced, Users
  <2>4. QED
    BY <1>4, <1>10, <2>1, <2>2, <2>3 DEF ReleaseChannel, ConnectForced
<1>11. ASSUME NEW c \in Client, NEW d \in Device, NEW ch \in Channel \cup {BadChannel},
              \/ Configure(c, d, ch)
              \/ ResetIn(c, d, ch)
              \/ SendWords(c, d, ch)
       PROVE  TypeOK'
  <2>1. /\ At("check", d, ch, "NONE") \in Task
        /\ Reply("ACCESS_DENIED") \in Task
        /\ At("write", d, ch, Available(c, d, ch)) \in Task
    BY TaskTypes, ResultTypes DEF Step, Answer, ErrorCode
  <2>2. Claim(c, d, {ch}) \in Owners
    BY ClaimType
  <2>3. QED
    BY <1>4, <1>5, <1>11, <2>1, <2>2 DEF Configure, ResetIn, SendWords
<1>12. ASSUME NEW c \in Client, NEW d \in Device, NEW ch, ReceiveWords(c, d, ch)
       PROVE  TypeOK'
  <2>1. /\ Reply("DEVICE_NOT_AVAILABLE") \in Task
        /\ Reply("INVALID_CHANNEL_NUMBER") \in Task
        /\ Reply("LIB") \in Task
    BY TaskTypes DEF Answer, ErrorCode
  <2>2. recipients' \in [Device -> [InChannel -> SUBSET Client]]
    BY <1>12 DEF ReceiveWords
  <2>3. QED
    BY <1>4, <1>5, <1>12, <2>1, <2>2 DEF ReceiveWords
<1>13. ASSUME NEW d \in Device, AddDevice(d) \/ RemoveDevice(d)
       PROVE  TypeOK'
  <2>1. /\ FreshOwners \in [Channel -> Client \cup {NoOwner}]
        /\ FreshRecipients \in [InChannel -> SUBSET Client]
    BY DEF FreshOwners, FreshRecipients
  <2>2. CASE AddDevice(d)
    BY <2>1, <2>2 DEF AddDevice
  <2>3. CASE RemoveDevice(d)
    BY <2>1, <2>3, UsersBusy DEF RemoveDevice, UsersOf
  <2>4. QED
    BY <1>13, <2>2, <2>3
<1>14. ASSUME NEW c \in Client, RemoveDoomed(c)
       PROVE  TypeOK'
  <2>1. /\ owner' \in Owners
        /\ recipients' \in [Device -> [InChannel -> SUBSET Client]]
        /\ clientsMap' \subseteq Client
        /\ session' \in [Client -> {"new", "open", "removed"}]
        /\ doomed' \subseteq Client
        /\ UNCHANGED <<acceptor, gone, devices>>
    BY <1>14, RemovalTypes DEF RemoveDoomed, RemoveClient
  <2>2. task' \in [Client -> Task]
    BY <1>14, TaskTypes DEF RemoveDoomed
  <2>3. \A x \in Client : task[x].step \in Busy => task'[x] = task[x]
    BY <1>14 DEF RemoveDoomed
  <2>4. voided' \subseteq {x \in Client : task[x].step \in Busy}
    BY <1>14, UsersBusy DEF RemoveDoomed
  <2>5. QED
    BY <2>1, <2>2, <2>3, <2>4
<1>15. CASE UNCHANGED vars
  BY <1>15 DEF vars
<1> HIDE DEF TypeOK
<1>16. QED
  BY <1>2, <1>3, <1>6, <1>7, <1>8, <1>9, <1>10, <1>11, <1>12, <1>13, <1>14, <1>15,
     NextCases

(* The variables keep their types.                                         *)
THEOREM TypeCorrect == Spec => []TypeOK
<1>1. Init => TypeOK
  BY TaskTypes DEF Init, TypeOK, FreshOwners, FreshRecipients
<1>2. TypeOK /\ [Next]_vars => TypeOK'
  BY TypeStep
<1>3. QED
  BY <1>1, <1>2, PTL DEF Spec

-----------------------------------------------------------------------------
(* What the updates of the owner map do to one channel.                    *)
LEMMA ClaimValue ==
    ASSUME TypeOK, NEW c, NEW d, NEW chans, NEW e \in Device, NEW ch \in Channel
    PROVE  Claim(c, d, chans)[e][ch] =
             IF e = d /\ e \in devices /\ ch \in chans /\ owner[e][ch] = NoOwner
               THEN c ELSE owner[e][ch]
BY DEF TypeOK, Claim

LEMMA SetOwnerValue ==
    ASSUME TypeOK, NEW d, NEW k, NEW id, NEW e \in Device, NEW ch \in Channel
    PROVE  SetOwner(d, k, id)[e][ch] =
             IF e = d /\ e \in devices /\ ch = k THEN id ELSE owner[e][ch]
BY DEF TypeOK, SetOwner

(* A removal strips the client from every channel, and no other.           *)
LEMMA RemovalValue ==
    ASSUME TypeOK, NEW c \in Client, RemoveClient(c), NEW d \in Device
    PROVE  /\ \A ch \in Channel :
                owner'[d][ch] = IF owner[d][ch] = c THEN NoOwner ELSE owner[d][ch]
           /\ \A ch \in InChannel : recipients'[d][ch] = recipients[d][ch] \ {c}
BY DEF RemoveClient, OwnersWithout, RecipientsWithout, TypeOK

(* A device that is not in the map holds no owner and no reader.           *)
AbsentEmpty ==
    \A d \in Device \ devices :
        /\ \A ch \in Channel : owner[d][ch] = NoOwner
        /\ \A ch \in InChannel : recipients[d][ch] = {}

LEMMA AbsentStep ==
    ASSUME TypeOK, AbsentEmpty, [Next]_vars
    PROVE  AbsentEmpty'
<1> USE DEF AbsentEmpty, clientVars
<1>1. ASSUME NEW c \in Client, RemoveClient(c), devices' = devices
      PROVE  AbsentEmpty'
  BY <1>1, RemovalValue, Distinct
<1>2. ASSUME UNCHANGED <<devices, owner, recipients>>
      PROVE  AbsentEmpty'
  BY <1>2
<1>3. ASSUME NEW c \in Client,
             \/ Accept(c) \/ AddToClientList(c) \/ PeerLeaves(c)
             \/ CallLibrary(c) \/ ReplySent(c) \/ ReplySentMistaken(c)
             \/ PlainCommand(c) \/ WrongCommand(c)
      PROVE  AbsentEmpty'
  BY <1>2, <1>3 DEF Accept, AddToClientList, PeerLeaves, CallLibrary, ReplySent,
                    ReplySentMistaken, PlainCommand, WrongCommand
<1>4. ASSUME NEW c \in Client,
             \/ AcceptFails(c) \/ DropClient(c) \/ Disconnect(c) \/ RemoveDoomed(c)
      PROVE  AbsentEmpty'
  BY <1>1, <1>2, <1>4 DEF AcceptFails, DropClient, Disconnect, RemoveDoomed, EndClient
<1>5. ASSUME NEW c \in Client, NEW d, NEW chans, owner' = Claim(c, d, chans),
             UNCHANGED <<devices, recipients>>
      PROVE  AbsentEmpty'
  BY <1>5, ClaimValue
<1>6. ASSUME NEW d, NEW ch, NEW id, owner' = SetOwner(d, ch, id),
             UNCHANGED <<devices, recipients>>
      PROVE  AbsentEmpty'
  BY <1>6, SetOwnerValue
<1>7. ASSUME NEW c \in Client, Check(c) \/ Connect(c)
      PROVE  AbsentEmpty'
  BY <1>5, <1>6, <1>7 DEF Check, Connect
<1>8. ASSUME NEW c \in Client, NEW d, NEW chans, GetChannelStates(c, d, chans)
      PROVE  AbsentEmpty'
  BY <1>5, <1>8 DEF GetChannelStates
<1>9. ASSUME NEW c \in Client, NEW d, NEW ch,
             \/ ReleaseChannel(c, d, ch) \/ ConnectForced(c, d, ch)
             \/ Configure(c, d, ch) \/ ResetIn(c, d, ch) \/ SendWords(c, d, ch)
      PROVE  AbsentEmpty'
  BY <1>2, <1>5, <1>6, <1>9
     DEF ReleaseChannel, ConnectForced, Configure, ResetIn, SendWords
<1>10. ASSUME NEW c \in Client, NEW d, NEW ch, ReceiveWords(c, d, ch)
       PROVE  AbsentEmpty'
  BY <1>10 DEF ReceiveWords, TypeOK
<1>11. ASSUME NEW d \in Device, AddDevice(d)
       PROVE  AbsentEmpty'
  BY <1>11 DEF AddDevice, TypeOK
<1>12. ASSUME NEW d \in Device, RemoveDevice(d)
       PROVE  AbsentEmpty'
  BY <1>12 DEF RemoveDevice, FreshOwners, FreshRecipients, TypeOK
<1>13. CASE UNCHANGED vars
  BY <1>2, <1>13 DEF vars
<1> HIDE DEF AbsentEmpty
<1>14. QED
  BY <1>3, <1>4, <1>7, <1>8, <1>9, <1>10, <1>11, <1>12, <1>13, NextCases

-----------------------------------------------------------------------------
(* What a command of c may do to owners and readers.                       *)
OwnersFrom(c) ==
    \A d \in Device, ch \in Channel : owner'[d][ch] \in {c, NoOwner, owner[d][ch]}
ReadersFrom(c) ==
    \A d \in Device, ch \in InChannel :
        recipients'[d][ch] \subseteq recipients[d][ch] \cup {c}

LEMMA CommandOwners ==
    ASSUME TypeOK, NEW c \in Client, NEW d, NEW ch, NEW chans
    PROVE  /\ owner' = owner => OwnersFrom(c)
           /\ owner' = Claim(c, d, chans) => OwnersFrom(c)
           /\ owner' = SetOwner(d, ch, c) => OwnersFrom(c)
           /\ owner' = SetOwner(d, ch, NoOwner) => OwnersFrom(c)
           /\ recipients' = recipients => ReadersFrom(c)
BY ClaimValue, SetOwnerValue DEF OwnersFrom, ReadersFrom

LEMMA OrphanStep ==
    ASSUME TypeOK, NoOrphanLease, [Next]_vars
    PROVE  NoOrphanLease'
<1> USE DEF NoOrphanLease, clientVars
<1>1. ASSUME NEW c \in Client, RemoveClient(c),
             \A b \in Client \ {c} : Acting(b) => Acting(b)'
      PROVE  NoOrphanLease'
  <2>1. \A d \in Device, ch \in Channel : owner'[d][ch] # NoOwner =>
           owner'[d][ch] \in Client \ {c} /\ owner'[d][ch] = owner[d][ch]
    BY <1>1, RemovalValue, Distinct DEF TypeOK
  <2>2. \A d \in Device, ch \in InChannel : \A b \in recipients'[d][ch] :
           b \in Client \ {c} /\ b \in recipients[d][ch]
    BY <1>1, RemovalValue DEF TypeOK
  <2>3. QED
    BY <1>1, <2>1, <2>2
<1>2. ASSUME UNCHANGED <<owner, recipients>>,
             \A c \in Client : Acting(c) => Acting(c)'
      PROVE  NoOrphanLease'
  BY <1>2 DEF TypeOK
<1>3. ASSUME NEW c \in Client,
             \/ Accept(c) \/ AddToClientList(c) \/ PeerLeaves(c)
             \/ CallLibrary(c) \/ ReplySent(c) \/ ReplySentMistaken(c)
             \/ PlainCommand(c) \/ WrongCommand(c)
      PROVE  NoOrphanLease'
  <2>1. UNCHANGED <<owner, recipients>>
    BY <1>3 DEF Accept, AddToClientList, PeerLeaves, CallLibrary, ReplySent,
                ReplySentMistaken, PlainCommand, WrongCommand
  <2>2. \A b \in Client : Acting(b) => Acting(b)'
    BY <1>3, TaskFields DEF Accept, AddToClientList, PeerLeaves, CallLibrary,
         ReplySent, ReplySentMistaken, PlainCommand, WrongCommand, Acting, TypeOK
  <2>3. QED
    BY <1>2, <2>1, <2>2
<1>4. ASSUME NEW c \in Client, EndClient(c)
      PROVE  NoOrphanLease'
  <2>1. \A b \in Client \ {c} : Acting(b) => Acting(b)'
    BY <1>4 DEF EndClient, Acting, TypeOK
  <2>2. QED
    BY <1>1, <1>4, <2>1 DEF EndClient
<1>5. ASSUME NEW c \in Client, DropClient(c) \/ Disconnect(c)
      PROVE  NoOrphanLease'
  BY <1>4, <1>5 DEF DropClient, Disconnect
<1>6. ASSUME NEW c \in Client, AcceptFails(c)
      PROVE  NoOrphanLease'
  <2>1. CASE EndClient(c)
    BY <1>4, <2>1
  <2>2. CASE /\ session' = [session EXCEPT ![c] = "removed"]
             /\ UNCHANGED <<owner, recipients, task>>
    <3>1. \A b \in Client : Acting(b) => Acting(b)'
      BY <1>6, <2>2 DEF AcceptFails, Acting, TypeOK
    <3>2. QED
      BY <1>2, <2>2, <3>1
  <2>3. QED
    BY <1>6, <2>1, <2>2 DEF AcceptFails
<1>7. ASSUME NEW c \in Client, RemoveDoomed(c)
      PROVE  NoOrphanLease'
  <2>1. \A b \in Client \ {c} : Acting(b) => Acting(b)'
    BY <1>7 DEF RemoveDoomed, Acting, TypeOK
  <2>2. QED
    BY <1>1, <1>7, <2>1 DEF RemoveDoomed
<1>8. ASSUME NEW c \in Client, NEW t, t.step \notin {"idle", "late"},
             task' = [task EXCEPT ![c] = t], UNCHANGED session,
             OwnersFrom(c), ReadersFrom(c)
      PROVE  NoOrphanLease'
  <2>1. Acting(c)' /\ \A b \in Client : Acting(b) => Acting(b)'
    BY <1>8 DEF Acting, TypeOK
  <2>2. ASSUME NEW d \in Device, NEW ch \in Channel
        PROVE  owner'[d][ch] # NoOwner =>
                  \E b \in Client : owner'[d][ch] = b /\ Acting(b)'
    <3>1. owner[d][ch] \in Client \cup {NoOwner}
      BY DEF TypeOK
    <3>2. \/ owner'[d][ch] \in {c, NoOwner}
          \/ owner'[d][ch] = owner[d][ch] /\ owner[d][ch] \in Client
      BY <1>8, <3>1 DEF OwnersFrom
    <3>3. QED
      BY <2>1, <3>2, Distinct
  <2>3. ASSUME NEW d \in Device, NEW ch \in InChannel, NEW b \in recipients'[d][ch]
        PROVE  Acting(b)'
    <3>1. b = c \/ (b \in recipients[d][ch] /\ b \in Client)
      BY <1>8 DEF ReadersFrom, TypeOK
    <3>2. QED
      BY <2>1, <3>1
  <2>4. QED
    BY <2>2, <2>3 DEF Acting
<1>9. ASSUME NEW c \in Client, Check(c) \/ Connect(c)
      PROVE  NoOrphanLease'
  <2>1. \E t : t.step \notin {"idle", "late"} /\ task' = [task EXCEPT ![c] = t]
    BY <1>9, TaskFields DEF Check, Connect
  <2>2. OwnersFrom(c) /\ ReadersFrom(c) /\ UNCHANGED session
    BY <1>9, CommandOwners DEF Check, Connect
  <2>3. QED
    BY <1>8, <2>1, <2>2
<1>10. ASSUME NEW c \in Client, NEW d, NEW chans, GetChannelStates(c, d, chans)
       PROVE  NoOrphanLease'
  <2>1. \E t : t.step \notin {"idle", "late"} /\ task' = [task EXCEPT ![c] = t]
    BY <1>10, TaskFields DEF GetChannelStates
  <2>2. OwnersFrom(c) /\ ReadersFrom(c) /\ UNCHANGED session
    BY <1>10, CommandOwners DEF GetChannelStates
  <2>3. QED
    BY <1>8, <2>1, <2>2
<1>11. ASSUME NEW c \in Client, NEW d, NEW ch,
              \/ ReleaseChannel(c, d, ch) \/ ConnectForced(c, d, ch)
              \/ Configure(c, d, ch) \/ ResetIn(c, d, ch) \/ SendWords(c, d, ch)
       PROVE  NoOrphanLease'
  <2>1. \E t : t.step \notin {"idle", "late"} /\ task' = [task EXCEPT ![c] = t]
    BY <1>11, TaskFields
       DEF ReleaseChannel, ConnectForced, Configure, ResetIn, SendWords
  <2>2. OwnersFrom(c) /\ ReadersFrom(c) /\ UNCHANGED session
    BY <1>11, CommandOwners
       DEF ReleaseChannel, ConnectForced, Configure, ResetIn, SendWords
  <2>3. QED
    BY <1>8, <2>1, <2>2
<1>12. ASSUME NEW c \in Client, NEW d, NEW ch, ReceiveWords(c, d, ch)
       PROVE  NoOrphanLease'
  <2>1. \E t : t.step \notin {"idle", "late"} /\ task' = [task EXCEPT ![c] = t]
    BY <1>12, TaskFields DEF ReceiveWords
  <2>2. OwnersFrom(c) /\ ReadersFrom(c) /\ UNCHANGED session
    BY <1>12, CommandOwners DEF ReceiveWords, ReadersFrom, TypeOK
  <2>3. QED
    BY <1>8, <2>1, <2>2
<1>13. ASSUME NEW d \in Device, AddDevice(d) \/ RemoveDevice(d)
       PROVE  NoOrphanLease'
  <2>1. /\ \A ch \in Channel : FreshOwners[ch] = NoOwner
        /\ \A ch \in InChannel : FreshRecipients[ch] = {}
    BY DEF FreshOwners, FreshRecipients
  <2>2. UNCHANGED <<session, task>>
    BY <1>13 DEF AddDevice, RemoveDevice
  <2>3. CASE AddDevice(d)
    BY <2>1, <2>2, <2>3 DEF AddDevice, Acting, TypeOK
  <2>4. CASE RemoveDevice(d)
    BY <2>1, <2>2, <2>4 DEF RemoveDevice, Acting, TypeOK
  <2>5. QED
    BY <1>13, <2>3, <2>4
<1>14. CASE UNCHANGED vars
  BY <1>2, <1>14 DEF vars, Acting
<1> HIDE DEF NoOrphanLease
<1>15. QED
  BY <1>3, <1>5, <1>6, <1>7, <1>9, <1>10, <1>11, <1>12, <1>13, <1>14, NextCases

LEMMA ContextStep ==
    ASSUME TypeOK, ContextOwned, [Next]_vars
    PROVE  ContextOwned'
<1> USE DEF ContextOwned, clientVars, TypeOK
<1>1. ASSUME NEW c \in Client, EndClient(c) \/ RemoveDoomed(c)
      PROVE  ContextOwned'
  BY <1>1 DEF EndClient, RemoveDoomed, RemoveClient
<1>2. ASSUME UNCHANGED <<session, clientsMap, acceptor>>
      PROVE  ContextOwned'
  BY <1>2
<1>3. ASSUME NEW c \in Client, Accept(c)
      PROVE  ContextOwned'
  BY <1>3, Distinct DEF Accept
<1>4. ASSUME NEW c \in Client, AddToClientList(c) \/ PeerLeaves(c)
      PROVE  ContextOwned'
  BY <1>4 DEF AddToClientList, PeerLeaves
<1>5. ASSUME NEW c \in Client, AcceptFails(c) \/ DropClient(c) \/ Disconnect(c)
      PROVE  ContextOwned'
  BY <1>1, <1>5 DEF AcceptFails, DropClient, Disconnect
<1>6. ASSUME NEW c \in Client,
             \/ Check(c) \/ Connect(c) \/ CallLibrary(c) \/ ReplySent(c)
             \/ ReplySentMistaken(c) \/ PlainCommand(c) \/ WrongCommand(c)
      PROVE  ContextOwned'
  BY <1>2, <1>6 DEF Check, Connect, CallLibrary, ReplySent, ReplySentMistaken,
                    PlainCommand, WrongCommand
<1>7. ASSUME NEW c \in Client, NEW d, NEW chans, GetChannelStates(c, d, chans)
      PROVE  ContextOwned'
  BY <1>2, <1>7 DEF GetChannelStates
<1>8. ASSUME NEW c \in Client, NEW d, NEW ch,
             \/ ReleaseChannel(c, d, ch) \/ ConnectForced(c, d, ch)
             \/ Configure(c, d, ch) \/ ResetIn(c, d, ch)
             \/ SendWords(c, d, ch) \/ ReceiveWords(c, d, ch)
      PROVE  ContextOwned'
  BY <1>2, <1>8 DEF ReleaseChannel, ConnectForced, Configure, ResetIn, SendWords,
                    ReceiveWords
<1>9. ASSUME NEW d \in Device, AddDevice(d) \/ RemoveDevice(d)
      PROVE  ContextOwned'
  BY <1>2, <1>9 DEF AddDevice, RemoveDevice
<1>10. CASE UNCHANGED vars
  BY <1>2, <1>10 DEF vars
<1> HIDE DEF ContextOwned, TypeOK
<1>11. QED
  BY <1>1, <1>3, <1>4, <1>5, <1>6, <1>7, <1>8, <1>9, <1>10, NextCases

-----------------------------------------------------------------------------
(* The task t gives c the channel it uses, unless c is voided ...          *)
UseTaken(c, t) ==
    \A d \in Device, ch \in Channel :
        /\ c \notin voided'
        /\ t.dev = d /\ t.chan = ch
        /\ t.step \in {"connect", "call"} \/ (t.step = "write" /\ t.answer = "TRUE")
        => owner'[d][ch] = c

(* ... and any other user that is not voided keeps the channel it has.     *)
OthersKeep(c) ==
    \A b \in Client \ {c}, d \in Device, ch \in Channel :
        Uses(b, d, ch) /\ b \notin voided'
          => b \notin voided /\ (owner[d][ch] = b => owner'[d][ch] = b)

(* Then every use stays exclusive.                                         *)
LEMMA UseKept ==
    ASSUME TypeOK, ExclusiveUse, NEW c \in Client, NEW t,
           task' = [task EXCEPT ![c] = t], UseTaken(c, t), OthersKeep(c)
    PROVE  ExclusiveUse'
<1> SUFFICES ASSUME NEW b \in Client, b \notin voided', NEW d \in Device,
                    NEW ch \in Channel, Uses(b, d, ch)'
             PROVE  owner'[d][ch] = b
  BY DEF ExclusiveUse
<1>1. CASE b = c
  <2>1. task'[b] = t
    BY <1>1 DEF TypeOK
  <2>2. QED
    BY <1>1, <2>1 DEF Uses, UseTaken
<1>2. CASE b # c
  <2>1. Uses(b, d, ch)
    BY <1>2 DEF Uses, TypeOK
  <2>2. b \notin voided
    BY <1>2, <2>1 DEF OthersKeep
  <2>3. owner[d][ch] = b
    BY <2>1, <2>2 DEF ExclusiveUse
  <2>4. QED
    BY <1>2, <2>1, <2>3 DEF OthersKeep
<1>3. QED
  BY <1>1, <1>2

(* A Claim changes free channels only; after an affirmative answer the     *)
(* channel is c's.                                                         *)
LEMMA ClaimKeeps ==
    ASSUME TypeOK, NEW c \in Client, NEW d, NEW chans,
           NEW e \in Device, NEW ch \in Channel
    PROVE  /\ owner[e][ch] # NoOwner => Claim(c, d, chans)[e][ch] = owner[e][ch]
           /\ e = d /\ ch \in chans /\ Available(c, d, ch) = "TRUE"
                => Claim(c, d, chans)[e][ch] = c
BY ClaimValue DEF Available

LEMMA ExclusiveStep ==
    ASSUME TypeOK, AbsentEmpty, ExclusiveUse, [Next]_vars
    PROVE  ExclusiveUse'
<1> USE DEF clientVars
<1>1. ASSUME NEW c \in Client, NEW t, task' = [task EXCEPT ![c] = t],
             t.step \notin {"connect", "call", "write"}, OthersKeep(c)
      PROVE  ExclusiveUse'
  <2>1. UseTaken(c, t)
    BY <1>1 DEF UseTaken
  <2>2. QED
    BY <1>1, <2>1, UseKept
<1>2. ASSUME NEW c \in Client, NEW d, NEW chans,
             owner' = owner \/ owner' = Claim(c, d, chans),
             voided \ {c} \subseteq voided'
      PROVE  OthersKeep(c)
  BY <1>2, ClaimKeeps, Distinct DEF OthersKeep
<1>3. ASSUME NEW c \in Client, EndClient(c)
      PROVE  ExclusiveUse'
  <2>1. OthersKeep(c)
    BY <1>3, RemovalValue DEF EndClient, OthersKeep
  <2>2. QED
    BY <1>1, <1>3, <2>1, TaskFields DEF EndClient
<1>4. ASSUME UNCHANGED <<owner, task, voided>>
      PROVE  ExclusiveUse'
  BY <1>4 DEF ExclusiveUse, Uses
<1>5. ASSUME NEW c \in Client, Accept(c) \/ AddToClientList(c) \/ PeerLeaves(c)
      PROVE  ExclusiveUse'
  BY <1>4, <1>5 DEF Accept, AddToClientList, PeerLeaves
<1>6. ASSUME NEW c \in Client, AcceptFails(c) \/ DropClient(c) \/ Disconnect(c)
      PROVE  ExclusiveUse'
  BY <1>3, <1>4, <1>6 DEF AcceptFails, DropClient, Disconnect
<1>7. ASSUME NEW c \in Client, RemoveDoomed(c)
      PROVE  ExclusiveUse'
  <2> SUFFICES ASSUME NEW b \in Client, b \notin voided', NEW d \in Device,
                      NEW ch \in Channel, Uses(b, d, ch)'
               PROVE  owner'[d][ch] = b
    BY DEF ExclusiveUse
  <2>1. task'[b] \in {task[b], Late}
    BY <1>7 DEF RemoveDoomed, TypeOK
  <2>2. Uses(b, d, ch)
    BY <2>1, TaskFields DEF Uses
  <2>3. b # c /\ b \notin voided
    BY <1>7, <2>2 DEF RemoveDoomed
  <2>4. owner[d][ch] = b
    BY <2>2, <2>3 DEF ExclusiveUse
  <2>5. QED
    BY <1>7, <2>3, <2>4, RemovalValue DEF RemoveDoomed
<1>8. ASSUME NEW c \in Client, NEW d, NEW ch, owner' = Claim(c, d, {ch}),
             NEW step, NEW answer, task' = [task EXCEPT ![c] = At(step, d, ch, answer)],
             Available(c, d, ch) = "TRUE" \/ (step = "write" /\ answer # "TRUE"),
             voided' = voided
      PROVE  ExclusiveUse'
  <2>1. OthersKeep(c)
    BY <1>2, <1>8
  <2>2. UseTaken(c, At(step, d, ch, answer))
    <3>1. CASE Available(c, d, ch) = "TRUE"
      BY <1>8, <3>1, ClaimKeeps, TaskFields DEF UseTaken
    <3>2. CASE step = "write" /\ answer # "TRUE"
      BY <3>2, TaskFields DEF UseTaken
    <3>3. QED
      BY <1>8, <3>1, <3>2
  <2>3. QED
    BY <1>8, <2>1, <2>2, UseKept
<1>9. ASSUME NEW c \in Client, Check(c)
      PROVE  ExclusiveUse'
  <2> DEFINE d == task[c].dev
             ch == task[c].chan
  <2>1. owner' = Claim(c, d, {ch}) /\ voided' = voided
    BY <1>9 DEF Check
  <2>2. CASE Available(c, d, ch) = "TRUE"
    <3>1. task' = [task EXCEPT ![c] = At("connect", d, ch, "TRUE")]
      BY <1>9, <2>2 DEF Check
    <3>2. QED
      BY <1>8, <2>1, <2>2, <3>1
  <2>3. CASE Available(c, d, ch) # "TRUE"
    <3>1. task' = [task EXCEPT ![c] = Reply(Available(c, d, ch))]
      BY <1>9, <2>3 DEF Check
    <3>2. QED
      BY <1>1, <1>2, <2>1, <3>1, TaskFields
  <2>4. QED
    BY <2>2, <2>3
<1>10. ASSUME NEW c \in Client, Connect(c)
       PROVE  ExclusiveUse'
  <2> DEFINE d == task[c].dev
             ch == task[c].chan
  <2>1. owner' = SetOwner(d, ch, c)
    BY <1>10 DEF Connect
  <2>2. CASE SetOwnerResult(d, ch) # "TRUE"
    <3>1. task' = [task EXCEPT ![c] = Reply(SetOwnerResult(d, ch))]
      BY <1>10, <2>2 DEF Connect
    <3>2. owner' = owner /\ voided' = voided \ {c}
      BY <1>10, <2>1, <2>2 DEF Connect, SetOwner, SetOwnerResult
    <3>3. QED
      BY <1>1, <1>2, <3>1, <3>2, TaskFields
  <2>3. CASE SetOwnerResult(d, ch) = "TRUE"
    <3> DEFINE t == At("call", d, ch, "TRUE")
    <3>1. task' = [task EXCEPT ![c] = t] /\ t.dev = d /\ t.chan = ch
      BY <1>10, <2>3, TaskFields DEF Connect
    <3>2. d \in devices /\ ch \in Channel /\ d \in Device
      BY <2>3 DEF SetOwnerResult, TypeOK
    <3>3. owner'[d][ch] = c
      BY <2>1, <3>2, SetOwnerValue
    <3>4. UseTaken(c, t)
      BY <3>1, <3>3 DEF UseTaken
    <3> HIDE DEF t
    <3>5. CASE c \in voided
      <4>1. voided' = voided \cup Users(d, ch)
        BY <1>10, <2>3, <3>5 DEF Connect
      <4>2. OthersKeep(c)
        BY <2>1, <4>1, SetOwnerValue DEF Users, OthersKeep
      <4>3. QED
        BY <3>1, <3>4, <4>2, UseKept
    <3>6. CASE c \notin voided
      <4>1. voided' = voided
        BY <1>10, <2>3, <3>6 DEF Connect
      <4>2. owner[d][ch] = c
        BY <1>10, <3>2, <3>6 DEF Connect, Uses, ExclusiveUse
      <4>3. \A e \in Device, k \in Channel : owner'[e][k] = owner[e][k]
        BY <2>1, <4>2, SetOwnerValue
      <4>4. OthersKeep(c)
        BY <4>1, <4>3 DEF OthersKeep
      <4>5. QED
        BY <3>1, <3>4, <4>4, UseKept
    <3>7. QED
      BY <3>5, <3>6
  <2>4. QED
    BY <2>2, <2>3
<1>11. ASSUME NEW c \in Client,
              \/ CallLibrary(c) \/ ReplySent(c) \/ ReplySentMistaken(c)
              \/ PlainCommand(c) \/ WrongCommand(c)
       PROVE  ExclusiveUse'
  <2>1. \E t : /\ t.step \notin {"connect", "call", "write"}
               /\ task' = [task EXCEPT ![c] = t]
    BY <1>11, TaskFields DEF CallLibrary, ReplySent, ReplySentMistaken, PlainCommand,
                             WrongCommand
  <2>2. owner' = owner /\ voided \ {c} \subseteq voided'
    BY <1>11 DEF CallLibrary, ReplySent, ReplySentMistaken, PlainCommand, WrongCommand
  <2>3. QED
    BY <1>1, <1>2, <2>1, <2>2
<1>12. ASSUME NEW c \in Client, NEW d, NEW chans, GetChannelStates(c, d, chans)
       PROVE  ExclusiveUse'
  BY <1>1, <1>2, <1>12, TaskFields DEF GetChannelStates
<1>13. ASSUME NEW c \in Client, NEW d, NEW ch,
              \/ Configure(c, d, ch) \/ ResetIn(c, d, ch) \/ ReceiveWords(c, d, ch)
       PROVE  ExclusiveUse'
  BY <1>1, <1>2, <1>13, TaskFields DEF Configure, ResetIn, ReceiveWords
<1>14. ASSUME NEW c \in Client, NEW d, NEW ch, ReleaseChannel(c, d, ch)
       PROVE  ExclusiveUse'
  <2>1. OthersKeep(c)
    BY <1>14, SetOwnerValue, Distinct DEF ReleaseChannel, Available, OthersKeep
  <2>2. task' = [task EXCEPT ![c] = Reply(Available(c, d, ch))] /\ voided' = voided
    BY <1>14 DEF ReleaseChannel
  <2>3. QED
    BY <1>1, <2>1, <2>2, TaskFields
<1>15. ASSUME NEW c \in Client, NEW d, NEW ch, ConnectForced(c, d, ch)
       PROVE  ExclusiveUse'
  <2>1. /\ owner' = SetOwner(d, ch, c)
        /\ voided' = IF SetOwnerResult(d, ch) = "TRUE"
                       THEN voided \cup (Users(d, ch) \ {c}) ELSE voided
        /\ task' = [task EXCEPT ![c] = Reply(SetOwnerResult(d, ch))]
    BY <1>15 DEF ConnectForced
  <2>2. OthersKeep(c)
    <3>1. CASE SetOwnerResult(d, ch) = "TRUE"
      BY <2>1, <3>1, SetOwnerValue DEF Users, OthersKeep
    <3>2. CASE SetOwnerResult(d, ch) # "TRUE"
      BY <2>1, <3>2 DEF SetOwner, SetOwnerResult, OthersKeep
    <3>3. QED
      BY <3>1, <3>2
  <2>3. QED
    BY <1>1, <2>1, <2>2, TaskFields
<1>16. ASSUME NEW c \in Client, NEW d, NEW ch, SendWords(c, d, ch)
       PROVE  ExclusiveUse'
  <2>1. owner' = Claim(c, d, {ch}) /\ voided' = voided
    BY <1>16 DEF SendWords
  <2>2. CASE Available(c, d, ch) = "FALSE"
    <3>1. task' = [task EXCEPT ![c] = Reply("ACCESS_DENIED")]
      BY <1>16, <2>2 DEF SendWords
    <3>2. QED
      BY <1>1, <1>2, <2>1, <3>1, TaskFields
  <2>3. CASE Available(c, d, ch) # "FALSE"
    <3>1. task' = [task EXCEPT ![c] = At("write", d, ch, Available(c, d, ch))]
      BY <1>16, <2>3 DEF SendWords
    <3>2. QED
      BY <1>8, <2>1, <3>1
  <2>4. QED
    BY <2>2, <2>3
<1>17. ASSUME NEW d \in Device, AddDevice(d)
       PROVE  ExclusiveUse'
  <2>1. \A e \in Device, ch \in Channel : owner'[e][ch] = owner[e][ch]
    BY <1>17 DEF AddDevice, AbsentEmpty, FreshOwners, TypeOK
  <2>2. QED
    BY <1>17, <2>1 DEF AddDevice, ExclusiveUse, Uses
<1>18. ASSUME NEW d \in Device, RemoveDevice(d)
       PROVE  ExclusiveUse'
  BY <1>18 DEF RemoveDevice, ExclusiveUse, Uses, UsersOf, TypeOK
<1>19. CASE UNCHANGED vars
  BY <1>4, <1>19 DEF vars
<1>20. QED
  BY <1>5, <1>6, <1>7, <1>9, <1>10, <1>11, <1>12, <1>13, <1>14, <1>15, <1>16, <1>17,
     <1>18, <1>19, NextCases

-----------------------------------------------------------------------------
(* The inductive invariant: exclusive use needs that an absent device has  *)
(* no owners (plugging it in then takes nothing from anybody).             *)
IInv ==
    /\ TypeOK
    /\ AbsentEmpty
    /\ NoOrphanLease
    /\ ContextOwned
    /\ ExclusiveUse

LEMMA InductiveInvariant == Spec => []IInv
<1>1. Init => IInv
  <2> SUFFICES ASSUME Init
               PROVE  IInv
    OBVIOUS
  <2>1. TypeOK
    BY TaskTypes DEF Init, TypeOK, FreshOwners, FreshRecipients
  <2>2. AbsentEmpty /\ NoOrphanLease
    BY DEF Init, AbsentEmpty, NoOrphanLease, FreshOwners, FreshRecipients
  <2>3. ContextOwned
    BY DEF Init, ContextOwned
  <2>4. ExclusiveUse
    BY TaskFields DEF Init, ExclusiveUse, Uses
  <2>5. QED
    BY <2>1, <2>2, <2>3, <2>4 DEF IInv
<1>2. IInv /\ [Next]_vars => IInv'
  BY TypeStep, AbsentStep, OrphanStep, ContextStep, ExclusiveStep DEF IInv
<1>3. QED
  BY <1>1, <1>2, PTL DEF Spec

(* Channels are owned and read only by clients being served and by removed *)
(* clients for which a worker is still acting, however the steps of the    *)
(* workers interleave.                                                     *)
THEOREM NoLeaseIsOrphaned == Spec => []NoOrphanLease
<1>1. IInv => NoOrphanLease
  BY DEF IInv
<1>2. QED
  BY <1>1, InductiveInvariant, PTL

(* The context of a served client is in _clientsMap or with the accept     *)
(* thread.                                                                 *)
THEOREM ContextIsOwned == Spec => []ContextOwned
<1>1. IInv => ContextOwned
  BY DEF IInv
<1>2. QED
  BY <1>1, InductiveInvariant, PTL

(* From its availability check to its library call a client is the owner   *)
(* of the channel, unless the command has been voided.                     *)
THEOREM UseIsExclusive == Spec => []ExclusiveUse
<1>1. IInv => ExclusiveUse
  BY DEF IInv
<1>2. QED
  BY <1>1, InductiveInvariant, PTL

-----------------------------------------------------------------------------
(* Refinement of ChannelLease.                                             *)
Live == {c \in Client : session[c] = "open" \/ task[c].step # "idle"}

(* A step of a command leaves its client among those acted for.            *)
LEMMA LiveKept ==
    ASSUME TypeOK, NEW c \in Live, NEW t, t.step # "idle" \/ session[c] = "open",
           task' = [task EXCEPT ![c] = t], UNCHANGED session
    PROVE  Live' = Live
BY DEF Live, TypeOK

LEMMA RefinementStep ==
    ASSUME IInv, [Next]_vars
    PROVE  [Lease!LeaseNext]_(Lease!leaseVars)
<1> USE DEF IInv, clientVars
<1>1. ASSUME Live' = Live, UNCHANGED <<voided, owner>>
      PROVE  UNCHANGED Lease!leaseVars
  BY <1>1 DEF Lease!leaseVars, Live
<1>2. ASSUME NEW c \in Client, EndClient(c)
      PROVE  Lease!LeaseNext
  <2>1. Live' = Live \ {c}
    BY <1>2, TaskFields DEF EndClient, Live, TypeOK
  <2>2. Lease!Leave(c)
    BY <1>2, <2>1 DEF EndClient, RemoveClient, OwnersWithout, Lease!Leave, Live
  <2>3. QED
    BY <2>2 DEF Lease!LeaseNext
<1>3. ASSUME NEW c \in Live, NEW d, NEW chans,
             owner' = Claim(c, d, chans), Live' = Live, UNCHANGED voided
      PROVE  [Lease!LeaseNext]_(Lease!leaseVars)
  <2>1. CASE d \notin devices
    BY <1>1, <1>3, <2>1 DEF Claim
  <2>2. CASE d \in devices
    <3> DEFINE free == {ch \in Channel : owner[d][ch] = NoOwner}
    <3>1. d \in Device /\ c \in Client
      BY <1>3, <2>2 DEF TypeOK, Live
    <3>2. owner' = [owner EXCEPT ![d] =
             [ch \in Channel |-> IF ch \in chans \cap free THEN c ELSE owner[d][ch]]]
      BY <1>3, <2>2 DEF Claim
    <3>3. Lease!Grant(c, d)
      BY <1>3, <3>1, <3>2 DEF Lease!Grant, Lease!Free, Live
    <3>4. QED
      BY <3>1, <3>3 DEF Lease!LeaseNext
  <2>3. QED
    BY <2>1, <2>2
<1>4. ASSUME NEW d \in Device, NEW ch \in Channel
      PROVE  Users(d, ch) \ voided \subseteq {owner[d][ch]} \ {NoOwner}
  BY <1>4, Distinct DEF Users, ExclusiveUse
<1>5. ASSUME NEW c \in Live, NEW d \in devices, NEW ch \in Channel,
             owner' = SetOwner(d, ch, c), Live' = Live,
             voided' = voided \cup Users(d, ch) \/ voided' = voided \cup (Users(d, ch) \ {c}),
             ch \in Forceable \/ c \in voided
      PROVE  Lease!LeaseNext
  <2>1. d \in Device /\ c \in Client
    BY DEF TypeOK, Live
  <2>2. \E T \in SUBSET ({owner[d][ch]} \ {NoOwner}) : voided' = voided \cup T
    <3>1. CASE voided' = voided \cup Users(d, ch)
      <4>1. voided' = voided \cup (Users(d, ch) \ voided)
        BY <3>1
      <4>2. QED
        BY <1>4, <2>1, <4>1
    <3>2. CASE voided' = voided \cup (Users(d, ch) \ {c})
      <4>1. voided' = voided \cup ((Users(d, ch) \ voided) \ {c})
        BY <3>2
      <4>2. (Users(d, ch) \ voided) \ {c} \subseteq {owner[d][ch]} \ {NoOwner}
        BY <1>4, <2>1
      <4>3. QED
        BY <4>1, <4>2
    <3>3. QED
      BY <1>5, <3>1, <3>2
  <2>3. owner' = [owner EXCEPT ![d][ch] = c]
    BY <1>5 DEF SetOwner
  <2>4. Lease!Force(c, d, ch)
    BY <1>5, <2>2, <2>3 DEF Lease!Force, Lease!MayOvertake, Live
  <2>5. QED
    BY <2>1, <2>4 DEF Lease!LeaseNext
<1>6. ASSUME NEW c \in Client, Live' = Live, voided' = voided \ {c}, UNCHANGED owner
      PROVE  Lease!LeaseNext
  <2>1. Lease!Finish(c)
    BY <1>6 DEF Lease!Finish, Live
  <2>2. QED
    BY <2>1 DEF Lease!LeaseNext
<1>7. ASSUME NEW c \in Client, Accept(c)
      PROVE  Lease!LeaseNext
  <2>1. Live' = Live \cup {c}
    BY <1>7 DEF Accept, TypeOK, Live
  <2>2. Lease!Join(c)
    BY <1>7, <2>1 DEF Accept, Lease!Join, Live
  <2>3. QED
    BY <2>2 DEF Lease!LeaseNext
<1>8. ASSUME NEW c \in Client, AcceptFails(c)
      PROVE  [Lease!LeaseNext]_(Lease!leaseVars)
  <2>1. CASE EndClient(c)
    BY <1>2, <2>1
  <2>2. CASE /\ session' = [session EXCEPT ![c] = "removed"]
             /\ UNCHANGED <<owner, task, voided>>
    <3>1. Live' = Live
      BY <1>8, <2>2 DEF AcceptFails, TypeOK, Live
    <3>2. QED
      BY <1>1, <2>2, <3>1
  <2>3. QED
    BY <1>8, <2>1, <2>2 DEF AcceptFails
<1>9. ASSUME NEW c \in Client, DropClient(c) \/ Disconnect(c)
      PROVE  Lease!LeaseNext
  BY <1>2, <1>9 DEF DropClient, Disconnect
<1>10. ASSUME NEW c \in Client, AddToClientList(c) \/ PeerLeaves(c)
       PROVE  UNCHANGED Lease!leaseVars
  BY <1>10 DEF AddToClientList, PeerLeaves, Lease!leaseVars
<1>11. ASSUME NEW c \in Client, Receives(c)
       PROVE  c \in Live
  BY <1>11 DEF Receives, Live
<1>12. ASSUME NEW c \in Client,
              \/ ReplySent(c) \/ ReplySentMistaken(c)
              \/ PlainCommand(c) \/ WrongCommand(c)
       PROVE  UNCHANGED Lease!leaseVars
  <2>1. /\ c \in Live
        /\ \E t : /\ t.step # "idle" \/ session[c] = "open"
                  /\ task' = [task EXCEPT ![c] = t]
        /\ UNCHANGED <<session, owner, voided>>
    BY <1>11, <1>12, TaskFields
       DEF ReplySent, ReplySentMistaken, PlainCommand, WrongCommand, Live
  <2>2. QED
    BY <1>1, <2>1, LiveKept
<1>13. ASSUME NEW c \in Client, CallLibrary(c)
       PROVE  Lease!LeaseNext
  <2>1. c \in Live
    BY <1>13 DEF CallLibrary, Live
  <2>2. QED
    BY <1>6, <1>13, <2>1, LiveKept, TaskFields DEF CallLibrary
<1>14. ASSUME NEW c \in Client, RemoveDoomed(c)
       PROVE  Lease!LeaseNext
  <2>1. Live' \in {Live, Live \ {c}}
    <3>1. \A x \in Client \ {c} : x \in Live' <=> x \in Live
      BY <1>14 DEF RemoveDoomed, Live, TypeOK
    <3>2. c \in Live' => c \in Live
      BY <1>14 DEF RemoveDoomed, Live, TypeOK
    <3>3. Live \subseteq Client /\ Live' \subseteq Client
      BY DEF Live
    <3>4. QED
      BY <3>1, <3>2, <3>3
  <2>2. voided' \in {voided, voided \cup {c}}
    BY <1>14 DEF RemoveDoomed
  <2>3. Lease!Leave(c)
    BY <1>14, <2>1, <2>2 DEF RemoveDoomed, RemoveClient, OwnersWithout, Lease!Leave, Live
  <2>4. QED
    BY <2>3 DEF Lease!LeaseNext
<1>15. ASSUME NEW c \in Client, Check(c)
       PROVE  [Lease!LeaseNext]_(Lease!leaseVars)
  <2>1. c \in Live
    BY <1>15 DEF Check, Live
  <2>2. Live' = Live
    <3> DEFINE t1 == At("connect", task[c].dev, task[c].chan, "TRUE")
               t2 == Reply(Available(c, task[c].dev, task[c].chan))
    <3>1. task' = [task EXCEPT ![c] = t1] \/ task' = [task EXCEPT ![c] = t2]
      BY <1>15 DEF Check
    <3>2. t1.step # "idle" /\ t2.step # "idle"
      BY TaskFields
    <3> HIDE DEF t1, t2
    <3>3. QED
      BY <1>15, <2>1, <3>1, <3>2, LiveKept DEF Check
  <2>3. QED
    BY <1>3, <1>15, <2>1, <2>2 DEF Check
<1>16. ASSUME NEW c \in Client, Connect(c)
       PROVE  [Lease!LeaseNext]_(Lease!leaseVars)
  <2> DEFINE d == task[c].dev
             ch == task[c].chan
  <2>1. c \in Live /\ owner' = SetOwner(d, ch, c)
    BY <1>16 DEF Connect, Live
  <2>2. Live' = Live
    <3> DEFINE t1 == At("call", task[c].dev, task[c].chan, "TRUE")
               t2 == Reply(SetOwnerResult(task[c].dev, task[c].chan))
    <3>1. task' = [task EXCEPT ![c] = t1] \/ task' = [task EXCEPT ![c] = t2]
      BY <1>16 DEF Connect
    <3>2. t1.step # "idle" /\ t2.step # "idle"
      BY TaskFields
    <3> HIDE DEF t1, t2
    <3>3. QED
      BY <1>16, <2>1, <3>1, <3>2, LiveKept DEF Connect
  <2>3. CASE SetOwnerResult(d, ch) # "TRUE"
    <3>1. owner' = owner /\ voided' = voided \ {c}
      BY <1>16, <2>3 DEF Connect, SetOwner, SetOwnerResult
    <3>2. QED
      BY <1>6, <2>2, <3>1
  <2>4. CASE SetOwnerResult(d, ch) = "TRUE"
    <3>1. d \in devices /\ ch \in Channel
      BY <2>4 DEF SetOwnerResult
    <3>2. CASE c \in voided
      <4>1. voided' = voided \cup Users(d, ch)
        BY <1>16, <2>4, <3>2 DEF Connect
      <4>2. QED
        BY <1>5, <2>1, <2>2, <3>1, <3>2, <4>1
    <3>3. CASE c \notin voided
      <4>1. voided' = voided
        BY <1>16, <2>4, <3>3 DEF Connect
      <4>2. owner[d][ch] = c
        BY <1>16, <3>1, <3>3 DEF Connect, Uses, ExclusiveUse, TypeOK
      <4>3. owner' = owner
        BY <2>1, <4>2 DEF SetOwner, TypeOK
      <4>4. QED
        BY <1>1, <2>2, <4>1, <4>3
    <3>4. QED
      BY <3>2, <3>3
  <2>5. QED
    BY <2>3, <2>4
<1>17. ASSUME NEW c \in Client, NEW d, NEW chans, GetChannelStates(c, d, chans)
       PROVE  [Lease!LeaseNext]_(Lease!leaseVars)
  <2>1. c \in Live
    BY <1>11, <1>17 DEF GetChannelStates
  <2>2. Live' = Live
    BY <1>17, <2>1, LiveKept, TaskFields DEF GetChannelStates
  <2>3. QED
    BY <1>3, <1>17, <2>1, <2>2 DEF GetChannelStates
<1>18. ASSUME NEW c \in Client, NEW d \in Device, NEW ch, ReleaseChannel(c, d, ch)
       PROVE  [Lease!LeaseNext]_(Lease!leaseVars)
  <2>1. c \in Live
    BY <1>11, <1>18 DEF ReleaseChannel
  <2>2. Live' = Live /\ UNCHANGED voided
    BY <1>18, <2>1, LiveKept, TaskFields DEF ReleaseChannel
  <2>3. CASE Available(c, d, ch) = "TRUE" /\ owner[d][ch] = c
    <3>1. d \in devices /\ ch \in Channel
      BY <2>3 DEF Available
    <3>2. Lease!Yield(c, d, ch)
      BY <1>18, <2>2, <2>3, <3>1 DEF ReleaseChannel, SetOwner, Lease!Yield, Live
    <3>3. QED
      BY <3>1, <3>2 DEF Lease!LeaseNext
  <2>4. CASE Available(c, d, ch) = "TRUE" /\ owner[d][ch] # c
    <3>1. d \in devices /\ ch \in Channel /\ owner[d][ch] = NoOwner
      BY <2>4 DEF Available
    <3>2. owner' = owner
      BY <1>18, <2>4, <3>1 DEF ReleaseChannel, SetOwner, TypeOK
    <3>3. QED
      BY <1>1, <2>2, <3>2
  <2>5. CASE Available(c, d, ch) # "TRUE"
    BY <1>1, <1>18, <2>2, <2>5 DEF ReleaseChannel
  <2>6. QED
    BY <2>3, <2>4, <2>5
<1>19. ASSUME NEW c \in Client, NEW d, NEW ch, ConnectForced(c, d, ch)
       PROVE  [Lease!LeaseNext]_(Lease!leaseVars)
  <2>1. c \in Live /\ owner' = SetOwner(d, ch, c)
    BY <1>11, <1>19 DEF ConnectForced
  <2>2. Live' = Live
    BY <1>19, <2>1, LiveKept, TaskFields DEF ConnectForced
  <2>3. CASE SetOwnerResult(d, ch) # "TRUE"
    <3>1. owner' = owner /\ voided' = voided
      BY <1>19, <2>3 DEF ConnectForced, SetOwner, SetOwnerResult
    <3>2. QED
      BY <1>1, <2>2, <3>1
  <2>4. CASE SetOwnerResult(d, ch) = "TRUE"
    <3>1. d \in devices /\ ch \in Channel
      BY <2>4 DEF SetOwnerResult
    <3>2. ch \in Forceable
      BY <1>19, <3>1, Distinct DEF ConnectForced
    <3>3. voided' = voided \cup (Users(d, ch) \ {c})
      BY <1>19, <2>4 DEF ConnectForced
    <3>4. QED
      BY <1>5, <2>1, <2>2, <3>1, <3>2, <3>3
  <2>5. QED
    BY <2>3, <2>4
<1>20. ASSUME NEW c \in Client, NEW d, NEW ch,
              \/ Configure(c, d, ch) \/ ResetIn(c, d, ch)
              \/ SendWords(c, d, ch) \/ ReceiveWords(c, d, ch)
       PROVE  [Lease!LeaseNext]_(Lease!leaseVars)
  <2>1. c \in Live /\ UNCHANGED <<session, voided>>
    BY <1>11, <1>20 DEF Configure, ResetIn, SendWords, ReceiveWords
  <2>2. \E t : t.step # "idle" /\ task' = [task EXCEPT ![c] = t]
    BY <1>20, TaskFields DEF Configure, ResetIn, SendWords, ReceiveWords
  <2>3. Live' = Live
    BY <2>1, <2>2, LiveKept
  <2>4. owner' = owner \/ owner' = Claim(c, d, {ch})
    BY <1>20 DEF Configure, ResetIn, SendWords, ReceiveWords
  <2>5. QED
    BY <1>1, <1>3, <2>1, <2>3, <2>4
<1>21. ASSUME NEW d \in Device, AddDevice(d)
       PROVE  UNCHANGED Lease!leaseVars
  <2>1. Live' = Live /\ UNCHANGED voided
    BY <1>21 DEF AddDevice, Live
  <2>2. CASE d \in devices
    BY <1>1, <1>21, <2>1, <2>2 DEF AddDevice
  <2>3. CASE d \notin devices
    <3>1. owner[d] = FreshOwners
      BY <2>3 DEF AbsentEmpty, FreshOwners, TypeOK
    <3>2. owner' = owner
      BY <1>21, <2>3, <3>1 DEF AddDevice, TypeOK
    <3>3. QED
      BY <1>1, <2>1, <3>2
  <2>4. QED
    BY <2>2, <2>3
<1>22. ASSUME NEW d \in Device, RemoveDevice(d)
       PROVE  Lease!LeaseNext
  <2> DEFINE T == UsersOf(d) \ voided
  <2>1. T \subseteq Lease!Holders(d)
    BY Distinct DEF UsersOf, ExclusiveUse, Lease!Holders
  <2>2. voided' = voided \cup T
    BY <1>22 DEF RemoveDevice
  <2>3. Live' = Live
    BY <1>22 DEF RemoveDevice, Live
  <2> HIDE DEF T
  <2>4. Lease!Void(d)
    BY <1>22, <2>1, <2>2, <2>3
       DEF RemoveDevice, FreshOwners, Lease!Void, Lease!MayOvertake, Live
  <2>5. QED
    BY <2>4 DEF Lease!LeaseNext
<1>23. CASE UNCHANGED vars
  <2>1. Live' = Live
    BY <1>23 DEF vars, Live
  <2>2. QED
    BY <1>1, <1>23, <2>1 DEF vars
<1> HIDE DEF IInv
<1>24. QED
  BY <1>7, <1>8, <1>9, <1>10, <1>12, <1>13, <1>14, <1>15, <1>16, <1>17, <1>18, <1>19,
     <1>20, <1>21, <1>22, <1>23, NextCases

(* The channel manager implements the lease specification for any number   *)
(* of clients, devices and channels.                                       *)
THEOREM ImplementsLease == Spec => LeaseRefinement
<1>1. Init => Lease!LeaseInit
  BY TaskFields DEF Init, FreshOwners, Lease!LeaseInit
<1>2. IInv /\ [Next]_vars => [Lease!LeaseNext]_(Lease!leaseVars)
  BY RefinementStep
<1>3. QED
  BY <1>1, <1>2, InductiveInvariant, PTL
     DEF Spec, LeaseRefinement, Lease!LeaseSpec
=============================================================================
