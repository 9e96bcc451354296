-------------------------- MODULE DeviceNotification --------------------------
(***************************************************************************)
(* From a device that is plugged in to the program that is told of it: the *)
(* callbacks of the device library and the end of SccServerIOCP::Start,    *)
(* which fill _devicesMap and send a UDP datagram for every change, the    *)
(* multicast group, and the listening thread of a client library, which    *)
(* calls the handlers of the program.                                      *)
(*                                                                         *)
(* The library is not in the repository.  As src/ uses it, it knows what   *)
(* is plugged in, calls the handler that is set, if one is, and makes the  *)
(* calls for one device in the order of its changes; calls for different   *)
(* devices, and the thread in Start, run at once.  AddDevice and           *)
(* RemoveDevice change the map under its lock and send after releasing it, *)
(* hence the two steps of each.                                            *)
(***************************************************************************)
EXTENDS Integers, FiniteSets, SequencesExt

CONSTANTS
    Device,
    Address,    \* of the servers in the group
    Own,        \* the one this server sends from, and this client expects
    Contained,  \* addresses whose text occurs in the text of Own
    MaxChanges, \* bound on what is plugged in or out
    MaxFlight   \* bound on datagrams in flight when one more is sent by another
                \* server, or by a Start that has run past its list

ASSUME DeviceAssumption == IsFiniteSet(Device)
ASSUME AddressAssumption == Own \in Contained /\ Contained \subseteq Address
ASSUME BoundAssumption == MaxChanges \in Nat /\ MaxFlight \in Nat

VARIABLES
    plugged,    \* what the library knows
    changes,    \* how many changes there have been
    start,      \* where Start is, from line 857 on
    count,      \* what GetDeviceCount has answered
    todo,       \* listed devices InitializeVirtualDevices has yet to add
    adding,     \* the one that is in the map and yet to be sent
    callback,   \* [Device -> where the library's call for it is]
    devicesMap, \* _devicesMap
    net,        \* datagrams on their way to the client
    view,       \* devices the program was last told to be there
    disturbed,  \* history: devices the map has wrong, or will, and Start is why
    untold      \* history: devices with a datagram lost, overtaken, not sent or
                \* taken from another server, or unplugged while Start adds them

library == <<plugged, changes, callback>>
starting == <<start, count, todo, adding>>
history == <<disturbed, untold>>
vars == <<library, starting, devicesMap, net, view, history>>

Command == {"Attached", "Detached"}
Datagram == [command : Command, device : Device, from : Address]

TypeOK ==
    /\ plugged \subseteq Device
    /\ changes \in 0 .. MaxChanges
    /\ start \in {"new", "attachedSet", "detachedSet", "counted", "adding", "sending",
                  "overrun", "overrunSend", "done", "failed", "crashed"}
    /\ count \in Nat
    /\ todo \subseteq Device
    /\ adding \subseteq Device
    /\ callback \in [Device -> {"idle", "add", "remove", "addSend", "removeSend"}]
    /\ devicesMap \subseteq Device
    /\ net \in Seq(Datagram)
    /\ view \subseteq Device
    /\ disturbed \subseteq Device
    /\ untold \subseteq Device

Init ==
    /\ plugged \in SUBSET Device
    /\ changes = 0
    /\ start = "new"
    /\ count = 0
    /\ todo = {}
    /\ adding = {}
    /\ callback = [d \in Device |-> "idle"]
    /\ devicesMap = {}
    /\ net = <<>>
    /\ view = {}
    /\ disturbed = {}
    /\ untold = {}

-----------------------------------------------------------------------------
(* The library (external)                                                  *)

AttachedSet == start # "new"
DetachedSet == start \notin {"new", "attachedSet"}

\* Devices Start is still about to add.
Pending == IF start \in {"adding", "sending"} THEN todo ELSE {}

\* Those of a set that are not in the map and that no call is about to add.
Unserved(devices) == {d \in devices : d \notin devicesMap /\ callback[d] # "add"}

Plug(d) ==
    /\ d \notin plugged
    /\ callback[d] = "idle"
    /\ changes < MaxChanges
    /\ changes' = changes + 1
    /\ plugged' = plugged \union {d}
    /\ callback' = [callback EXCEPT ![d] = IF AttachedSet THEN "add" ELSE @]
    /\ UNCHANGED <<starting, devicesMap, net, view, history>>

\* Nobody is told of a device in the map that goes before the detached handler is
\* set.  One that goes while Start is about to add it is added afterwards, and the
\* datagrams of the two may come in either order.
Unplug(d) ==
    /\ d \in plugged
    /\ callback[d] = "idle"
    /\ changes < MaxChanges
    /\ changes' = changes + 1
    /\ plugged' = plugged \ {d}
    /\ callback' = [callback EXCEPT ![d] = IF DetachedSet THEN "remove" ELSE @]
    /\ disturbed' = IF d \in Pending \/ (start = "attachedSet" /\ d \in devicesMap)
                    THEN disturbed \union {d} ELSE disturbed
    /\ untold' = IF d \in Pending \union adding THEN untold \union {d} ELSE untold
    /\ UNCHANGED <<starting, devicesMap, net, view>>

-----------------------------------------------------------------------------
(* AddDevice and RemoveDevice                                              *)

\* Send of the UDP stream: the datagram leaves, or sendto fails.
Sends(command, d) ==
    /\ net' = Append(net, [command |-> command, device |-> d, from |-> Own])
    /\ UNCHANGED untold

SendFails(d) ==
    /\ untold' = untold \union {d}
    /\ UNCHANGED net

\* What the library has said last of a device counts, unless Start is still about
\* to add it.
Corrects(d) == disturbed' = IF d \in Pending THEN disturbed ELSE disturbed \ {d}

\* Fault: a call that comes before Start is through is dropped.
CallbackIgnored(d) ==
    /\ callback[d] \in {"add", "remove"}
    /\ callback' = [callback EXCEPT ![d] = "idle"]
    /\ devicesMap' = IF start \notin {"done", "failed"} THEN devicesMap
                     ELSE IF callback[d] = "add" THEN devicesMap \union {d}
                     ELSE devicesMap \ {d}
    /\ Corrects(d)
    /\ UNCHANGED <<plugged, changes, starting, net, view, untold>>

\* Fault: the lock is only tried, and the change dropped when it is taken.
CallbackTries(d) ==
    /\ callback[d] \in {"add", "remove"}
    /\ callback' = [callback EXCEPT ![d] = IF @ = "add" THEN "addSend" ELSE "removeSend"]
    /\ \/ devicesMap' = IF callback[d] = "add" THEN devicesMap \union {d} ELSE devicesMap \ {d}
       \/ devicesMap' = devicesMap
    /\ Corrects(d)
    /\ UNCHANGED <<plugged, changes, starting, net, view, untold>>

\* Fault: what is detached stays in the map.
CallbackForgets(d) ==
    /\ callback[d] \in {"add", "remove"}
    /\ callback' = [callback EXCEPT ![d] = IF @ = "add" THEN "addSend" ELSE "removeSend"]
    /\ devicesMap' = IF callback[d] = "add" THEN devicesMap \union {d} ELSE devicesMap
    /\ Corrects(d)
    /\ UNCHANGED <<plugged, changes, starting, net, view, untold>>

\* OnDeviceAttached, OnDeviceDetached: the map first, under its lock; a device
\* that is there already stays as it is, ...
CallbackMap(d) ==
    /\ callback[d] \in {"add", "remove"}
    /\ callback' = [callback EXCEPT ![d] = IF @ = "add" THEN "addSend" ELSE "removeSend"]
    /\ devicesMap' = IF callback[d] = "add" THEN devicesMap \union {d} ELSE devicesMap \ {d}
    /\ Corrects(d)
    /\ UNCHANGED <<plugged, changes, starting, net, view, untold>>

\* Fault: the second function, a copy of the first, keeps its header.
CallbackSendsAttached(d) ==
    /\ callback[d] \in {"addSend", "removeSend"}
    /\ callback' = [callback EXCEPT ![d] = "idle"]
    /\ Sends("Attached", d) \/ SendFails(d)
    /\ UNCHANGED <<plugged, changes, starting, devicesMap, view, disturbed>>

\* ... then the datagram; nobody looks at the result.
CallbackSend(d) ==
    /\ callback[d] \in {"addSend", "removeSend"}
    /\ callback' = [callback EXCEPT ![d] = "idle"]
    /\ \/ Sends(IF callback[d] = "addSend" THEN "Attached" ELSE "Detached", d)
       \/ SendFails(d)
    /\ UNCHANGED <<plugged, changes, starting, devicesMap, view, disturbed>>

-----------------------------------------------------------------------------
(* The end of Start                                                        *)

SetAttachedHandler ==
    /\ start = "new"
    /\ start' = "attachedSet"
    /\ UNCHANGED <<library, count, todo, adding, devicesMap, net, view, history>>

SetDetachedHandler ==
    /\ start = "attachedSet"
    /\ start' = "detachedSet"
    /\ UNCHANGED <<library, count, todo, adding, devicesMap, net, view, history>>

\* What GetDeviceCount answers: the number, or an error below zero.
CountAnswer == {Cardinality(plugged), -1}

\* Fault: any answer but zero is taken for a number.
CountDevicesNonzero ==
    /\ start = "detachedSet"
    /\ \E answer \in CountAnswer :
          IF answer # 0
          THEN count' = answer /\ start' = "counted" /\ UNCHANGED disturbed
          ELSE start' = "done" /\ UNCHANGED <<count, disturbed>>
    /\ UNCHANGED <<library, todo, adding, devicesMap, net, view, untold>>

\* InitializeVirtualDevices: GetDeviceCount, and nothing more after an error, ...
CountDevices ==
    /\ start = "detachedSet"
    /\ \E answer \in CountAnswer :
          IF answer > 0
          THEN count' = answer /\ start' = "counted" /\ UNCHANGED disturbed
          ELSE /\ start' = "done"
               /\ disturbed' = IF answer < 0 THEN disturbed \union Unserved(plugged)
                               ELSE disturbed
               /\ UNCHANGED count
    /\ UNCHANGED <<library, todo, adding, devicesMap, net, view, untold>>

\* ... GetDeviceNumsRaw for an array of that size.  A device that has come since
\* may push any other out of the list.  An error below zero is compared with an
\* index of type size_t, and is greater than any.
ListDevices ==
    /\ start = "counted"
    /\ \/ \E listed \in SUBSET plugged :
            /\ Cardinality(listed) = IF Cardinality(plugged) < count
                                     THEN Cardinality(plugged) ELSE count
            /\ todo' = listed
            /\ start' = IF listed = {} THEN "done" ELSE "adding"
            /\ disturbed' = disturbed \union Unserved(plugged \ listed)
       \/ /\ start' = "overrun"
          /\ disturbed' = disturbed \union Unserved(plugged)
          /\ UNCHANGED todo
    /\ UNCHANGED <<library, count, adding, devicesMap, net, view, untold>>

\* AddDevice for one after the other: the map, ...
AddListed(d) ==
    /\ start = "adding"
    /\ d \in todo
    /\ start' = "sending"
    /\ todo' = todo \ {d}
    /\ adding' = {d}
    /\ devicesMap' = devicesMap \union {d}
    /\ disturbed' = IF d \in plugged THEN disturbed \ {d} ELSE disturbed
    /\ UNCHANGED <<library, count, net, view, untold>>

\* ... then the datagram.  A failure ends the loop: the devices that are left
\* are not added, and Start returns NOERROR all the same.
SendListed(d) ==
    /\ start = "sending"
    /\ d \in adding
    /\ adding' = {}
    /\ \/ /\ Sends("Attached", d)
          /\ start' = IF todo = {} THEN "done" ELSE "adding"
          /\ UNCHANGED disturbed
       \/ /\ SendFails(d)
          /\ start' = "failed"
          /\ disturbed' = (disturbed \ todo) \union Unserved(todo \intersect plugged)
    /\ UNCHANGED <<library, count, todo, devicesMap, view>>

\* Past the list AddDevice is called for whatever is in the memory there, which may
\* be the number of a device (other numbers are left out), ...
AddGarbage(d) ==
    /\ start = "overrun"
    /\ Len(net) < MaxFlight
    /\ start' = "overrunSend"
    /\ adding' = {d}
    /\ devicesMap' = devicesMap \union {d}
    /\ IF d \in plugged
         THEN disturbed' = disturbed \ {d} /\ UNCHANGED untold
         ELSE disturbed' = disturbed \union {d} /\ untold' = untold \union {d}
    /\ UNCHANGED <<library, count, todo, net, view>>

\* ... until a datagram cannot be sent ...
SendGarbage(d) ==
    /\ start = "overrunSend"
    /\ d \in adding
    /\ adding' = {}
    /\ \/ Sends("Attached", d) /\ start' = "overrun"
       \/ SendFails(d) /\ start' = "failed"
    /\ UNCHANGED <<library, count, todo, devicesMap, view, disturbed>>

\* ... or the memory ends, and the process with it.
Crash ==
    /\ start = "overrun"
    /\ start' = "crashed"
    /\ UNCHANGED <<library, count, todo, adding, devicesMap, net, view, history>>

-----------------------------------------------------------------------------
(* The group and the client                                                *)

Lose(k) ==
    /\ net' = RemoveAt(net, k)
    /\ untold' = IF net[k].from = Own THEN untold \union {net[k].device} ELSE untold
    /\ UNCHANGED <<library, starting, devicesMap, view, disturbed>>

\* Another server of the group has a device attached or detached.
ForeignSends(datagram) ==
    /\ datagram.from # Own
    /\ Len(net) < MaxFlight
    /\ net' = Append(net, datagram)
    /\ UNCHANGED <<library, starting, devicesMap, view, history>>

\* strstr(ipPr, recIp): the address received occurs in the one expected.
ExpectedAddress(a) == a \in Contained

\* Does the k-th datagram come before an earlier one about its device, or from
\* another server whose address is taken for this one's?
Misleads(k) ==
    IF net[k].from = Own
    THEN \E j \in 1 .. k - 1 : net[j].device = net[k].device /\ net[j].from = Own
    ELSE ExpectedAddress(net[k].from)

\* DeviceNotificationThread: the k-th datagram arrives, perhaps before others.
\* The handlers of the program are called with the device alone.
Handle(k) ==
    /\ LET n == net[k]
       IN  /\ net' = RemoveAt(net, k)
           /\ untold' = IF Misleads(k) THEN untold \union {n.device} ELSE untold
           /\ view' = IF ~ ExpectedAddress(n.from) THEN view
                      ELSE IF n.command = "Attached" THEN view \union {n.device}
                      ELSE view \ {n.device}
    /\ UNCHANGED <<library, starting, devicesMap, disturbed>>

-----------------------------------------------------------------------------

Starting ==
    \/ SetAttachedHandler \/ SetDetachedHandler \/ CountDevices \/ ListDevices \/ Crash
    \/ \E d \in Device : AddListed(d) \/ SendListed(d) \/ AddGarbage(d) \/ SendGarbage(d)

Running == start # "crashed"

Callback(d) == Running /\ (CallbackMap(d) \/ CallbackSend(d))

Next ==
    \/ Starting
    \/ \E d \in Device : Running /\ (Plug(d) \/ Unplug(d))
    \/ \E d \in Device : Callback(d)
    \/ \E k \in 1 .. Len(net) : Lose(k) \/ Handle(k)
    \/ \E datagram \in Datagram : ForeignSends(datagram)

Spec == Init /\ [][Next]_vars

\* The thread in Start and the library's calls run on.
FairSpec == Spec /\ WF_vars(Starting) /\ \A d \in Device : WF_vars(Callback(d))

-----------------------------------------------------------------------------
(* Properties                                                              *)

\* Start is through and no call of the library is being handled.
Quiet == start \in {"done", "failed"} /\ \A d \in Device : callback[d] = "idle"

\* Once things are quiet the server has exactly the devices that are plugged in,
\* save those Start has left out or put in wrongly and the library has said nothing
\* of since: none is missing that came before the handlers were set, or while the
\* list was worked through, and none stays that was detached meanwhile.
MapFollowsDevices ==
    Quiet => devicesMap \ disturbed = plugged \ disturbed

\* The program is told the truth of every device whose datagrams have all come,
\* and in order; what a callback and Start send of the same device agree.
ViewFollowsMap ==
    Quiet /\ (\A k \in 1 .. Len(net) : net[k].from # Own)
    => view \ untold = devicesMap \ untold

\* Who is told of a device finds it: from the moment the datagram is on its way
\* the device is in the map, until it is detached again.
NoticeAfterMap ==
    \A k \in 1 .. Len(net) :
        LET d == net[k].device
            later == {j \in k + 1 .. Len(net) : net[j].device = d /\ net[j].from = Own}
        IN  /\ net[k].from = Own
            /\ net[k].command = "Attached"
            /\ later = {}
            /\ callback[d] # "removeSend"
            /\ d \notin untold
            => d \in devicesMap

\* "If recieved ip address is the same as expected raise callback / Else ignore
\* Add/Dell device event from remote server" (SccMediator.cpp:95-96).
OnlyOwnServer ==
    [][view' # view =>
          \E k \in 1 .. Len(net) : net[k].from = Own /\ net' = RemoveAt(net, k)]_vars

\* A device that stays plugged in is served in the end, unless Start has left it
\* out, or the process is gone.
DeviceServed ==
    \A d \in Device :
        d \in plugged ~> d \in devicesMap \/ d \notin plugged \/ d \in disturbed \/ ~Running

\* Start, which reports no error, has served every device it has listed.
NoDeviceMissing ==
    start \in {"done", "failed"} => todo \subseteq devicesMap

\* A server that is started has no device that is not there.
NoGhost == Quiet => devicesMap \subseteq plugged
===============================================================================
