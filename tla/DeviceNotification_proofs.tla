----------------------- MODULE DeviceNotification_proofs -----------------------
(***************************************************************************)
(* Theorems about DeviceNotification, for any finite set of devices, any   *)
(* number of changes and any datagrams of other servers.                   *)
(***************************************************************************)
EXTENDS DeviceNotification, FiniteSetTheorems, SequenceTheorems, TLAPS

-----------------------------------------------------------------------------
(* Types                                                                   *)

(* What RemoveAt leaves of a sequence.                                     *)
LEMMA Removed ==
    ASSUME NEW S, NEW s \in Seq(S), NEW k \in 1 .. Len(s)
    PROVE  /\ RemoveAt(s, k) \in Seq(S)
           /\ Len(RemoveAt(s, k)) = Len(s) - 1
           /\ \A j \in 1 .. Len(s) - 1 :
                RemoveAt(s, k)[j] = IF j < k THEN s[j] ELSE s[j + 1]
<1>0. Len(s) \in Nat /\ k \in Nat \ {0}
  OBVIOUS
<1> DEFINE a == SubSeq(s, 1, k - 1)
           b == SubSeq(s, k + 1, Len(s))
<1>1. /\ a \in Seq(S) /\ Len(a) = k - 1
      /\ \A j \in 1 .. k - 1 : a[j] = s[j]
  OBVIOUS
<1>2. /\ b \in Seq(S) /\ Len(b) = Len(s) - k
      /\ \A j \in 1 .. Len(s) - k : b[j] = s[k + j]
  OBVIOUS
<1> HIDE DEF a, b
<1>3. /\ a \o b \in Seq(S) /\ Len(a \o b) = Len(s) - 1
      /\ \A j \in 1 .. Len(s) - 1 : (a \o b)[j] = IF j <= k - 1 THEN a[j] ELSE b[j - (k - 1)]
  <2>1. Len(a) \in Nat /\ Len(b) \in Nat /\ Len(a) + Len(b) = Len(s) - 1
    BY <1>0, <1>1, <1>2
  <2>2. /\ a \o b \in Seq(S) /\ Len(a \o b) = Len(a) + Len(b)
        /\ \A j \in 1 .. Len(a) + Len(b) :
             (a \o b)[j] = IF j <= Len(a) THEN a[j] ELSE b[j - Len(a)]
    BY <1>1, <1>2, ConcatProperties
  <2>3. QED
    BY <2>1, <2>2, <1>1
<1>4. ASSUME NEW j \in 1 .. Len(s) - 1
      PROVE  (a \o b)[j] = IF j < k THEN s[j] ELSE s[j + 1]
  <2>1. CASE j < k
    BY <2>1, <1>1, <1>3
  <2>2. CASE j >= k
    <3>1. j - (k - 1) \in 1 .. Len(s) - k /\ ~(j <= k - 1) /\ k + (j - (k - 1)) = j + 1
      BY <2>2
    <3>2. b[j - (k - 1)] = s[j + 1]
      BY <3>1, <1>2
    <3>3. QED
      BY <2>2, <3>1, <3>2, <1>3
  <2>3. j < k \/ j >= k
    BY <1>0
  <2>4. QED
    BY <2>1, <2>2, <2>3
<1>5. QED
  BY <1>3, <1>4 DEF RemoveAt, a, b

LEMMA InitTypes == Init => TypeOK
<1>1. <<>> \in Seq(Datagram)
  OBVIOUS
<1>2. QED
  BY <1>1, BoundAssumption DEF Init, TypeOK

LEMMA PluggedFinite ==
    ASSUME TypeOK
    PROVE  IsFiniteSet(plugged) /\ Cardinality(plugged) \in Nat
BY DeviceAssumption, FS_Subset, FS_CardinalityType DEF TypeOK

LEMMA SendsTypes ==
    ASSUME TypeOK, NEW command \in Command, NEW d \in Device,
           Sends(command, d) \/ SendFails(d)
    PROVE  net' \in Seq(Datagram) /\ untold' \subseteq Device
<1>1. [command |-> command, device |-> d, from |-> Own] \in Datagram
  BY AddressAssumption DEF Datagram
<1>2. QED
  BY <1>1 DEF Sends, SendFails, TypeOK

LEMMA TypeStep == TypeOK /\ [Next]_vars => TypeOK'
<1> SUFFICES ASSUME TypeOK, [Next]_vars PROVE TypeOK'
  OBVIOUS
<1> USE DEF library, starting, history
<1>1. CASE Starting
  <2>1. CASE SetAttachedHandler \/ SetDetachedHandler
    BY <2>1 DEF SetAttachedHandler, SetDetachedHandler, TypeOK
  <2>2. CASE CountDevices
    BY <2>2, PluggedFinite DEF CountDevices, CountAnswer, Unserved, TypeOK
  <2>3. CASE ListDevices
    BY <2>3 DEF ListDevices, Unserved, TypeOK
  <2>4. ASSUME NEW d \in Device, AddListed(d)
        PROVE  TypeOK'
    BY <2>4 DEF AddListed, TypeOK
  <2>5. ASSUME NEW d \in Device, SendListed(d)
        PROVE  TypeOK'
    <3>1. net' \in Seq(Datagram) /\ untold' \subseteq Device
      BY <2>5, SendsTypes DEF SendListed, Command
    <3>2. QED
      BY <2>5, <3>1 DEF SendListed, Unserved, TypeOK
  <2>6. ASSUME NEW d \in Device, AddGarbage(d)
        PROVE  TypeOK'
    BY <2>6 DEF AddGarbage, TypeOK
  <2>7. ASSUME NEW d \in Device, SendGarbage(d)
        PROVE  TypeOK'
    <3>1. net' \in Seq(Datagram) /\ untold' \subseteq Device
      BY <2>7, SendsTypes DEF SendGarbage, Command
    <3>2. QED
      BY <2>7, <3>1 DEF SendGarbage, TypeOK
  <2>8. CASE Crash
    BY <2>8 DEF Crash, TypeOK
  <2>9. QED
    BY <1>1, <2>1, <2>2, <2>3, <2>4, <2>5, <2>6, <2>7, <2>8 DEF Starting
<1>2. ASSUME NEW d \in Device, Plug(d) \/ Unplug(d)
      PROVE  TypeOK'
  BY <1>2, BoundAssumption DEF Plug, Unplug, TypeOK
<1>3. ASSUME NEW d \in Device, CallbackMap(d)
      PROVE  TypeOK'
  BY <1>3 DEF CallbackMap, Corrects, TypeOK
<1>4. ASSUME NEW d \in Device, CallbackSend(d)
      PROVE  TypeOK'
  <2>1. net' \in Seq(Datagram) /\ untold' \subseteq Device
    BY <1>4, SendsTypes DEF CallbackSend, Command
  <2>2. QED
    BY <1>4, <2>1 DEF CallbackSend, TypeOK
<1>5. ASSUME NEW k \in 1 .. Len(net), Lose(k) \/ Handle(k)
      PROVE  TypeOK'
  <2>1. net[k].device \in Device
    <3>1. net[k] \in Datagram
      BY DEF TypeOK
    <3>2. QED
      BY <3>1 DEF Datagram
  <2>2. net' \in Seq(Datagram)
    BY <1>5, Removed DEF Lose, Handle, TypeOK
  <2>3. untold' \subseteq Device /\ view' \subseteq Device
    BY <1>5, <2>1 DEF Lose, Handle, TypeOK
  <2>4. QED
    BY <1>5, <2>2, <2>3 DEF Lose, Handle, TypeOK
<1>6. ASSUME NEW datagram \in Datagram, ForeignSends(datagram)
      PROVE  TypeOK'
  BY <1>6 DEF ForeignSends, TypeOK
<1>7. CASE UNCHANGED vars
  BY <1>7 DEF vars, TypeOK
<1>8. QED
  BY <1>1, <1>2, <1>3, <1>4, <1>5, <1>6, <1>7 DEF Next, Callback

(* The variables keep their types.                                         *)
THEOREM TypeCorrect == Spec => []TypeOK
BY InitTypes, TypeStep, PTL DEF Spec

-----------------------------------------------------------------------------
(* The map and what is plugged in                                          *)

Early == {"new", "attachedSet", "detachedSet", "counted"}

(* What Start still has to add, and the device it is about to tell of.     *)
Stages ==
    /\ start \in Early \union {"done"} => todo = {}
    /\ start \notin {"sending", "overrunSend"} => adding = {}
    /\ \A a, b \in adding : a = b
    /\ start = "new" => devicesMap = {} /\ \A d \in Device : callback[d] = "idle"

(* A call of the library says what is so.                                  *)
Called(d) ==
    /\ callback[d] \in {"add", "addSend"} => d \in plugged
    /\ callback[d] \in {"remove", "removeSend"} => d \notin plugged
    /\ callback[d] = "addSend" => d \in devicesMap

(* A device in the map is plugged in, or the call that takes it out is on  *)
(* its way.                                                                *)
NoStale(d) ==
    /\ callback[d] = "removeSend" => d \notin devicesMap
    /\ d \in devicesMap => d \in plugged \/ callback[d] = "remove"

(* One that is plugged in is in the map, or a call or Start will put it    *)
(* there.                                                                  *)
NoneMissing(d) ==
    /\ d \in Pending => d \in plugged
    /\ d \in plugged => d \in devicesMap \/ callback[d] = "add" \/ d \in Pending \/ start \in Early

(* What is known of one device.  Those Start is about to add are stale in  *)
(* no case, for they may be left out of its list again.                    *)
Follows(d) ==
    /\ Called(d)
    /\ d \in Pending \/ d \notin disturbed => NoStale(d)
    /\ d \notin disturbed => NoneMissing(d)

MapInv == Stages /\ \A d \in Device : Follows(d)

LEMMA InitMap == Init => MapInv
BY DEF Init, MapInv, Stages, Follows, Called, NoStale, NoneMissing, Early, Pending

LEMMA StagesStep == TypeOK /\ Stages /\ [Next]_vars => Stages'
<1> SUFFICES ASSUME TypeOK, Stages, [Next]_vars PROVE Stages'
  OBVIOUS
<1> USE DEF Stages, Early, library, starting, history
<1>1. CASE SetAttachedHandler \/ SetDetachedHandler \/ Crash
  BY <1>1 DEF SetAttachedHandler, SetDetachedHandler, Crash
<1>2. CASE CountDevices
  BY <1>2 DEF CountDevices
<1>3. CASE ListDevices
  BY <1>3 DEF ListDevices
<1>4. ASSUME NEW d \in Device, AddListed(d) \/ AddGarbage(d)
      PROVE  Stages'
  BY <1>4 DEF AddListed, AddGarbage
<1>5. ASSUME NEW d \in Device, SendListed(d) \/ SendGarbage(d)
      PROVE  Stages'
  BY <1>5 DEF SendListed, SendGarbage
<1>6. ASSUME NEW d \in Device, Plug(d) \/ Unplug(d) \/ CallbackMap(d) \/ CallbackSend(d)
      PROVE  Stages'
  BY <1>6 DEF Plug, Unplug, CallbackMap, CallbackSend, AttachedSet, DetachedSet, TypeOK
<1>7. ASSUME NEW k \in 1 .. Len(net), Lose(k) \/ Handle(k)
      PROVE  Stages'
  BY <1>7 DEF Lose, Handle
<1>8. ASSUME NEW datagram \in Datagram, ForeignSends(datagram)
      PROVE  Stages'
  BY <1>8 DEF ForeignSends
<1>9. CASE UNCHANGED vars
  BY <1>9 DEF vars
<1>10. QED
  BY <1>1, <1>2, <1>3, <1>4, <1>5, <1>6, <1>7, <1>8, <1>9 DEF Next, Starting, Callback

LEMMA FollowsStep ==
    ASSUME TypeOK, MapInv, [Next]_vars, NEW d \in Device
    PROVE  Follows(d)'
<1> USE DEF library, starting, history
<1>1. Stages /\ Follows(d)
  BY DEF MapInv
<1>2. CASE SetAttachedHandler \/ SetDetachedHandler
  BY <1>1, <1>2 DEF SetAttachedHandler, SetDetachedHandler, Follows, Called, NoStale, NoneMissing,
                    Pending, Early
<1>3. CASE CountDevices
  <2>1. UNCHANGED <<plugged, callback, devicesMap>>
    BY <1>3 DEF CountDevices
  <2>2. Pending = {} /\ Pending' = {}
    BY <1>3 DEF CountDevices, Pending
  <2>3. CASE start' = "counted"
    BY <1>1, <1>3, <2>1, <2>2, <2>3 DEF CountDevices, Follows, Called, NoStale, NoneMissing, Early
  <2>4. CASE start' # "counted"
    <3>1. PICK answer \in CountAnswer :
            /\ ~(answer > 0)
            /\ disturbed' = IF answer < 0 THEN disturbed \union Unserved(plugged) ELSE disturbed
      BY <1>3, <2>4 DEF CountDevices
    <3>2. d \in plugged => d \in devicesMap \/ callback[d] = "add" \/ d \in disturbed'
      <4>1. CASE answer = -1
        BY <3>1, <4>1 DEF Unserved
      <4>2. CASE answer = Cardinality(plugged)
        BY <3>1, <4>2, PluggedFinite, FS_EmptySet
      <4>3. QED
        BY <4>1, <4>2 DEF CountAnswer
    <3>3. disturbed \subseteq disturbed'
      BY <3>1
    <3>4. QED
      BY <1>1, <2>1, <2>2, <3>2, <3>3 DEF Follows, Called, NoStale, NoneMissing
  <2>5. QED
    BY <2>3, <2>4
<1>4. CASE ListDevices
  <2>1. UNCHANGED <<plugged, callback, devicesMap>> /\ Pending = {}
    BY <1>4 DEF ListDevices, Pending
  <2>2. PICK listed \in SUBSET plugged :
          /\ Pending' = listed
          /\ disturbed' = disturbed \union Unserved(plugged \ listed)
    BY <1>4 DEF ListDevices, Pending
  <2>3. d \in listed => NoStale(d)
    BY <1>1, <2>2 DEF Follows, Called, NoStale
  <2>4. d \in plugged => d \in listed \/ d \in devicesMap \/ callback[d] = "add" \/ d \in disturbed'
    BY <2>2 DEF Unserved
  <2>5. QED
    BY <1>1, <2>1, <2>2, <2>3, <2>4 DEF Follows, Called, NoStale, NoneMissing
<1>5. ASSUME NEW e \in Device, AddListed(e)
      PROVE  Follows(d)'
  BY <1>1, <1>5 DEF AddListed, Follows, Called, NoStale, NoneMissing, Pending, Early
<1>6. ASSUME NEW e \in Device, SendListed(e)
      PROVE  Follows(d)'
  <2>1. CASE start' = "failed"
    BY <1>1, <1>6, <2>1 DEF SendListed, Follows, Called, NoStale, NoneMissing, Pending, Early,
                            Unserved
  <2>2. CASE start' # "failed"
    BY <1>1, <1>6, <2>2 DEF SendListed, Follows, Called, NoStale, NoneMissing, Pending, Early
  <2>3. QED
    BY <2>1, <2>2
<1>7. ASSUME NEW e \in Device, AddGarbage(e)
      PROVE  Follows(d)'
  BY <1>1, <1>7 DEF AddGarbage, Follows, Called, NoStale, NoneMissing, Pending, Early
<1>8. CASE Crash \/ \E e \in Device : SendGarbage(e)
  BY <1>1, <1>8 DEF Crash, SendGarbage, Follows, Called, NoStale, NoneMissing, Pending, Early
<1>9. ASSUME NEW e \in Device, Plug(e)
      PROVE  Follows(d)'
  BY <1>1, <1>9 DEF Plug, AttachedSet, Follows, Called, NoStale, NoneMissing, Pending, Early,
                    Stages, TypeOK
<1>10. ASSUME NEW e \in Device, Unplug(e)
       PROVE  Follows(d)'
  BY <1>1, <1>10 DEF Unplug, DetachedSet, Follows, Called, NoStale, NoneMissing, Pending, Early,
                     Stages, TypeOK
<1>11. ASSUME NEW e \in Device, CallbackMap(e)
       PROVE  Follows(d)'
  BY <1>1, <1>11 DEF CallbackMap, Corrects, Follows, Called, NoStale, NoneMissing, Pending, Early,
                     TypeOK
<1>12. ASSUME NEW e \in Device, CallbackSend(e)
       PROVE  Follows(d)'
  BY <1>1, <1>12 DEF CallbackSend, Follows, Called, NoStale, NoneMissing, Pending, Early, TypeOK
<1>13. CASE \/ \E k \in 1 .. Len(net) : Lose(k) \/ Handle(k)
            \/ \E datagram \in Datagram : ForeignSends(datagram)
            \/ UNCHANGED vars
  <2>1. UNCHANGED <<plugged, callback, start, todo, devicesMap, disturbed>>
    BY <1>13 DEF Lose, Handle, ForeignSends, vars
  <2>2. QED
    BY <1>1, <2>1 DEF Follows, Called, NoStale, NoneMissing, Pending
<1>14. QED
  BY <1>2, <1>3, <1>4, <1>5, <1>6, <1>7, <1>8, <1>9, <1>10, <1>11, <1>12, <1>13
     DEF Next, Starting, Callback

LEMMA MapAlways == Spec => [](TypeOK /\ MapInv)
<1>1. TypeOK /\ MapInv /\ [Next]_vars => MapInv'
  BY StagesStep, FollowsStep DEF MapInv
<1>2. QED
  BY <1>1, InitTypes, TypeStep, InitMap, PTL DEF Spec

(* When all is quiet the server has the devices that are plugged in, save  *)
(* those Start has wrong.                                                  *)
THEOREM MapFollows == Spec => []MapFollowsDevices
<1>1. TypeOK /\ MapInv => MapFollowsDevices
  BY DEF TypeOK, MapInv, Follows, NoStale, NoneMissing, Pending, Early, MapFollowsDevices, Quiet
<1>2. QED
  BY <1>1, MapAlways, PTL

-----------------------------------------------------------------------------
(* The datagrams and the map                                               *)

Truth == Device \ untold

(* Start tells of what is there, and a call of what the map has.           *)
Told(d) ==
    /\ d \in Pending => d \in plugged
    /\ d \in adding => d \in plugged /\ d \in devicesMap
    /\ callback[d] = "removeSend" => d \notin devicesMap

ToldInv == MapInv /\ \A d \in Truth : Told(d)

Ours(k, d) == net[k].from = Own /\ net[k].device = d

(* The k-th datagram is the last word of this server on d.                 *)
LastWord(k, d) ==
    /\ Ours(k, d)
    /\ \A j \in k + 1 .. Len(net) : ~Ours(j, d)

(* A program that was told of d, or that d has gone, is right, or the next *)
(* datagram about d is about to be sent.                                   *)
MayBeIn(d) == d \in devicesMap \/ callback[d] = "removeSend"
MayBeOut(d) == d \notin devicesMap \/ callback[d] = "addSend" \/ d \in adding

Announced ==
    \A d \in Truth, k \in 1 .. Len(net) :
        LastWord(k, d) => IF net[k].command = "Attached" THEN MayBeIn(d) ELSE MayBeOut(d)

Heard ==
    \A d \in Truth :
        (\A k \in 1 .. Len(net) : ~Ours(k, d)) =>
            IF d \in view THEN MayBeIn(d) ELSE MayBeOut(d)

LEMMA InitWords == Init => Announced /\ Heard
<1>1. Len(<<>>) = 0
  OBVIOUS
<1>2. QED
  BY <1>1 DEF Init, Announced, Heard, MayBeIn, MayBeOut

LEMMA InitTold == Init => ToldInv
BY InitMap DEF Init, ToldInv, Told, Pending

(* A device whose datagrams are not told in full stays so.                 *)
LEMMA UntoldGrows ==
    ASSUME TypeOK, [Next]_vars, NEW d \in Truth'
    PROVE  d \in Truth /\ d \in Device
<1>1. untold \subseteq untold'
  <2> USE DEF library, starting, history
  <2>1. CASE Starting
    BY <2>1 DEF Starting, SetAttachedHandler, SetDetachedHandler, CountDevices, ListDevices,
                AddListed, SendListed, AddGarbage, SendGarbage, Crash, Sends, SendFails
  <2>2. CASE \/ \E e \in Device : Plug(e) \/ Unplug(e) \/ CallbackMap(e) \/ CallbackSend(e)
             \/ \E datagram \in Datagram : ForeignSends(datagram)
             \/ UNCHANGED vars
    BY <2>2 DEF Plug, Unplug, CallbackMap, CallbackSend, ForeignSends, vars, Sends, SendFails
  <2>3. ASSUME NEW k \in 1 .. Len(net), Lose(k) \/ Handle(k)
        PROVE  untold \subseteq untold'
    BY <2>3 DEF Lose, Handle
  <2>4. QED
    BY <2>1, <2>2, <2>3 DEF Next, Callback
<1>2. QED
  BY <1>1 DEF Truth

LEMMA ToldStep ==
    ASSUME TypeOK, ToldInv, [Next]_vars, NEW d \in Truth'
    PROVE  Told(d)'
<1> USE DEF library, starting, history
<1>1. Stages /\ Called(d) /\ Told(d) /\ d \in Device /\ d \notin untold'
  BY UntoldGrows DEF ToldInv, MapInv, Follows, Truth
<1>2. CASE SetAttachedHandler \/ SetDetachedHandler \/ CountDevices \/ ListDevices \/ Crash
  BY <1>1, <1>2 DEF SetAttachedHandler, SetDetachedHandler, CountDevices, ListDevices, Crash,
                    Told, Pending
<1>3. ASSUME NEW e \in Device, AddListed(e) \/ AddGarbage(e)
      PROVE  Told(d)'
  BY <1>1, <1>3 DEF AddListed, AddGarbage, Told, Called, Pending
<1>4. ASSUME NEW e \in Device, SendListed(e) \/ SendGarbage(e)
      PROVE  Told(d)'
  BY <1>1, <1>4 DEF SendListed, SendGarbage, Told, Pending
<1>5. ASSUME NEW e \in Device, Plug(e) \/ Unplug(e)
      PROVE  Told(d)'
  BY <1>1, <1>5 DEF Plug, Unplug, Told, Pending, TypeOK
<1>6. ASSUME NEW e \in Device, CallbackMap(e) \/ CallbackSend(e)
      PROVE  Told(d)'
  BY <1>1, <1>6 DEF CallbackMap, CallbackSend, Told, Called, Pending, TypeOK
<1>7. CASE \/ \E k \in 1 .. Len(net) : Lose(k) \/ Handle(k)
           \/ \E datagram \in Datagram : ForeignSends(datagram)
           \/ UNCHANGED vars
  <2>1. UNCHANGED <<plugged, callback, start, todo, adding, devicesMap>>
    BY <1>7 DEF Lose, Handle, ForeignSends, vars
  <2>2. QED
    BY <1>1, <2>1 DEF Told, Pending
<1>8. QED
  BY <1>2, <1>3, <1>4, <1>5, <1>6, <1>7 DEF Next, Starting, Callback

LEMMA ToldAlways == Spec => [](TypeOK /\ ToldInv)
<1>1. TypeOK /\ MapInv /\ MapInv' /\ ToldInv /\ [Next]_vars => ToldInv'
  BY ToldStep DEF ToldInv
<1>2. QED
  BY <1>1, InitTold, MapAlways, PTL DEF Spec

(* A step that sends nothing of d and is no arrival.                       *)
LEMMA BeliefKept ==
    ASSUME TypeOK, ToldInv, [Next]_vars, NEW d \in Truth',
           \/ SetAttachedHandler \/ SetDetachedHandler \/ CountDevices \/ ListDevices \/ Crash
           \/ \E e \in Device : \/ AddListed(e) \/ AddGarbage(e) \/ Plug(e) \/ Unplug(e)
                                \/ CallbackMap(e)
           \/ \E e \in Device \ {d} : CallbackSend(e) \/ SendListed(e) \/ SendGarbage(e)
           \/ UNCHANGED <<devicesMap, callback, adding>>
    PROVE  (MayBeIn(d) => MayBeIn(d)') /\ (MayBeOut(d) => MayBeOut(d)')
<1> USE DEF library, starting, history
<1>0. Stages /\ Called(d) /\ d \in Device
  BY UntoldGrows DEF ToldInv, MapInv, Follows
<1>1. CASE SetAttachedHandler \/ SetDetachedHandler \/ CountDevices \/ ListDevices \/ Crash
  BY <1>0, <1>1 DEF SetAttachedHandler, SetDetachedHandler, CountDevices, ListDevices, Crash,
                    Stages, MayBeIn, MayBeOut
<1>2. ASSUME NEW e \in Device, AddListed(e) \/ AddGarbage(e)
      PROVE  (MayBeIn(d) => MayBeIn(d)') /\ (MayBeOut(d) => MayBeOut(d)')
  BY <1>0, <1>2 DEF AddListed, AddGarbage, Stages, MayBeIn, MayBeOut
<1>3. ASSUME NEW e \in Device, Plug(e) \/ Unplug(e)
      PROVE  (MayBeIn(d) => MayBeIn(d)') /\ (MayBeOut(d) => MayBeOut(d)')
  BY <1>0, <1>3 DEF Plug, Unplug, MayBeIn, MayBeOut, TypeOK
<1>4. ASSUME NEW e \in Device, CallbackMap(e)
      PROVE  (MayBeIn(d) => MayBeIn(d)') /\ (MayBeOut(d) => MayBeOut(d)')
  BY <1>0, <1>4 DEF CallbackMap, MayBeIn, MayBeOut, TypeOK
<1>5. ASSUME NEW e \in Device \ {d}, CallbackSend(e)
      PROVE  (MayBeIn(d) => MayBeIn(d)') /\ (MayBeOut(d) => MayBeOut(d)')
  BY <1>0, <1>5 DEF CallbackSend, MayBeIn, MayBeOut, TypeOK
<1>6. ASSUME NEW e \in Device \ {d}, SendListed(e) \/ SendGarbage(e)
      PROVE  (MayBeIn(d) => MayBeIn(d)') /\ (MayBeOut(d) => MayBeOut(d)')
  BY <1>0, <1>6 DEF SendListed, SendGarbage, Stages, MayBeIn, MayBeOut
<1>7. CASE UNCHANGED <<devicesMap, callback, adding>>
  BY <1>7 DEF MayBeIn, MayBeOut
<1>8. QED
  BY <1>1, <1>2, <1>3, <1>4, <1>5, <1>6, <1>7

(* A datagram of this server about e has been sent.                        *)
LEMMA WordsSent ==
    ASSUME TypeOK, NEW e \in Device, NEW command \in Command, Sends(command, e)
    PROVE  /\ Len(net') = Len(net) + 1 /\ Len(net) \in Nat
           /\ \A k \in 1 .. Len(net) : net'[k] = net[k]
           /\ net'[Len(net) + 1] = [command |-> command, device |-> e, from |-> Own]
BY DEF Sends, TypeOK

(* After a datagram about e the last word on e is that one, and the last   *)
(* words on the others are what they were.                                 *)
LEMMA LastWordSent ==
    ASSUME TypeOK, NEW e \in Device, NEW command \in Command, Sends(command, e),
           NEW d \in Device
    PROVE  /\ d = e =>
                /\ \A k \in 1 .. Len(net') : LastWord(k, d)' => net'[k].command = command
                /\ \E k \in 1 .. Len(net') : Ours(k, d)'
           /\ d # e =>
                /\ \A k \in 1 .. Len(net') : LastWord(k, d)' =>
                      k \in 1 .. Len(net) /\ LastWord(k, d) /\ net'[k].command = net[k].command
                /\ (\A k \in 1 .. Len(net') : ~Ours(k, d)') =>
                      (\A k \in 1 .. Len(net) : ~Ours(k, d))
<1>0. PICK n \in Nat : n = Len(net)
  BY WordsSent
<1>1. /\ Len(net') = n + 1
      /\ \A k \in 1 .. n : net'[k] = net[k]
      /\ net'[n + 1] = [command |-> command, device |-> e, from |-> Own]
  BY <1>0, WordsSent
<1>2. Ours(n + 1, d)' <=> d = e
  BY <1>0, <1>1 DEF Ours
<1>3. \A k \in 1 .. n : Ours(k, d)' <=> Ours(k, d)
  BY <1>0, <1>1 DEF Ours
<1>4. CASE d = e
  <2>1. ASSUME NEW k \in 1 .. Len(net'), LastWord(k, d)'
        PROVE  net'[k].command = command
    <3>1. \A j \in k + 1 .. n + 1 : ~Ours(j, d)'
      BY <1>0, <1>1, <2>1 DEF LastWord
    <3>2. k = n + 1
      BY <1>0, <1>1, <1>2, <1>4, <3>1
    <3>3. QED
      BY <1>0, <1>1, <3>2
  <2>2. QED
    BY <1>0, <1>1, <1>2, <1>4, <2>1
<1>5. CASE d # e
  <2>1. ASSUME NEW k \in 1 .. Len(net'), LastWord(k, d)'
        PROVE  k \in 1 .. n /\ LastWord(k, d) /\ net'[k].command = net[k].command
    <3>1. Ours(k, d)' /\ \A j \in k + 1 .. n + 1 : ~Ours(j, d)'
      BY <1>0, <1>1, <2>1 DEF LastWord
    <3>2. k \in 1 .. n
      BY <1>0, <1>1, <1>2, <1>5, <3>1
    <3>3. \A j \in k + 1 .. n : j \in 1 .. n /\ j \in k + 1 .. n + 1
      BY <1>0, <1>1, <3>2
    <3>4. QED
      BY <1>0, <1>1, <1>3, <3>1, <3>2, <3>3 DEF LastWord
  <2>2. ASSUME \A k \in 1 .. Len(net') : ~Ours(k, d)', NEW k \in 1 .. n
        PROVE  ~Ours(k, d)
    BY <1>1, <1>3, <2>2
  <2>3. QED
    BY <1>0, <1>5, <2>1, <2>2
<1>6. QED
  BY <1>4, <1>5

(* The k-th datagram is gone, and it was not one of this server about d    *)
(* with another before it.                                                 *)
LEMMA LastWordRemoved ==
    ASSUME TypeOK, NEW k \in 1 .. Len(net), net' = RemoveAt(net, k), NEW d \in Device,
           ~(Ours(k, d) /\ \E j \in 1 .. k - 1 : Ours(j, d))
    PROVE  /\ \A i \in 1 .. Len(net') : LastWord(i, d)' =>
                 \E j \in 1 .. Len(net) : LastWord(j, d) /\ net'[i] = net[j]
           /\ (\A i \in 1 .. Len(net) : ~Ours(i, d))' =>
                 \A j \in 1 .. Len(net) : Ours(j, d) => j = k
<1>1. /\ Len(net) \in Nat
      /\ Len(net') = Len(net) - 1
      /\ \A j \in 1 .. Len(net) - 1 : net'[j] = IF j < k THEN net[j] ELSE net[j + 1]
  <2>1. net \in Seq(Datagram)
    BY DEF TypeOK
  <2>2. QED
    BY <2>1, Removed
<1>2. \A j \in 1 .. Len(net) - 1 : j < k => (Ours(j, d)' <=> Ours(j, d))
  BY <1>1 DEF Ours
<1>3. \A j \in 1 .. Len(net) - 1 : j >= k => (Ours(j, d)' <=> Ours(j + 1, d))
  BY <1>1 DEF Ours
<1>4. ASSUME NEW i \in 1 .. Len(net'), LastWord(i, d)'
      PROVE  \E j \in 1 .. Len(net) : LastWord(j, d) /\ net'[i] = net[j]
  <2>1. Ours(i, d)' /\ \A j \in i + 1 .. Len(net) - 1 : ~Ours(j, d)'
    BY <1>1, <1>4 DEF LastWord
  <2>2. CASE i < k
    <3>1. Ours(i, d) /\ net'[i] = net[i] /\ i \in 1 .. Len(net)
      BY <1>1, <1>2, <2>1, <2>2
    <3>2. ~Ours(k, d)
      BY <2>2, <3>1
    <3>3. ASSUME NEW j \in i + 1 .. Len(net)
          PROVE  ~Ours(j, d)
      <4>1. CASE j < k
        BY <1>1, <1>2, <2>1, <4>1
      <4>2. CASE j = k
        BY <3>2, <4>2
      <4>3. CASE j > k
        <5>1. j - 1 \in i + 1 .. Len(net) - 1 /\ j - 1 \in 1 .. Len(net) - 1 /\ j - 1 >= k
          BY <1>1, <2>2, <4>3
        <5>2. ~Ours(j - 1, d)' /\ (Ours(j - 1, d)' <=> Ours((j - 1) + 1, d))
          BY <1>3, <2>1, <5>1
        <5>3. QED
          BY <5>2
      <4>4. QED
        BY <1>1, <4>1, <4>2, <4>3
    <3>4. QED
      BY <3>1, <3>3 DEF LastWord
  <2>3. CASE i >= k
    <3>1. Ours(i + 1, d) /\ net'[i] = net[i + 1] /\ i + 1 \in 1 .. Len(net)
      BY <1>1, <1>3, <2>1, <2>3
    <3>2. ASSUME NEW j \in (i + 1) + 1 .. Len(net)
          PROVE  ~Ours(j, d)
      <4>1. j - 1 \in i + 1 .. Len(net) - 1 /\ j - 1 \in 1 .. Len(net) - 1 /\ j - 1 >= k
        BY <1>1, <2>3
      <4>2. ~Ours(j - 1, d)' /\ (Ours(j - 1, d)' <=> Ours((j - 1) + 1, d))
        BY <1>3, <2>1, <4>1
      <4>3. QED
        BY <4>2
    <3>3. QED
      BY <3>1, <3>2 DEF LastWord
  <2>4. QED
    BY <1>1, <2>2, <2>3
<1>5. ASSUME (\A i \in 1 .. Len(net) : ~Ours(i, d))', NEW j \in 1 .. Len(net), Ours(j, d), j # k
      PROVE  FALSE
  <2>1. CASE j < k
    BY <1>1, <1>2, <1>5, <2>1
  <2>2. CASE j > k
    <3>1. j - 1 \in 1 .. Len(net) - 1 /\ j - 1 >= k
      BY <1>1, <2>2
    <3>2. ~Ours(j - 1, d)' /\ (Ours(j - 1, d)' <=> Ours((j - 1) + 1, d))
      BY <1>1, <1>3, <1>5, <3>1
    <3>3. QED
      BY <1>5, <3>2
  <2>3. QED
    BY <1>1, <1>5, <2>1, <2>2
<1>6. QED
  BY <1>4, <1>5

(* A datagram about e is sent, or fails to be, by whoever knows of e.      *)
LEMMA SendsStep ==
    ASSUME TypeOK, ToldInv, Announced, [Next]_vars,
           NEW e \in Device, CallbackSend(e) \/ SendListed(e) \/ SendGarbage(e)
    PROVE  Announced' /\ (Heard => Heard')
<1>1. PICK command \in Command :
        /\ Sends(command, e) \/ SendFails(e)
        /\ CallbackSend(e) => command = IF callback[e] = "addSend" THEN "Attached" ELSE "Detached"
        /\ ~CallbackSend(e) => (SendListed(e) \/ SendGarbage(e)) /\ command = "Attached"
  BY DEF CallbackSend, SendListed, SendGarbage, Command
<1>2. view' = view
  BY DEF CallbackSend, SendListed, SendGarbage
<1>3. ASSUME NEW d \in Truth'
      PROVE  /\ d \in Truth /\ Called(d) /\ Told(d) /\ d \in Device
             /\ d # e => (MayBeIn(d) => MayBeIn(d)') /\ (MayBeOut(d) => MayBeOut(d)')
  BY UntoldGrows, BeliefKept DEF ToldInv, MapInv, Follows
<1>4. ASSUME e \in Truth'
      PROVE  IF command = "Attached" THEN MayBeIn(e)' ELSE MayBeOut(e)'
  <2>1. Called(e) /\ Told(e)
    BY <1>3, <1>4
  <2>2. CASE CallbackSend(e)
    BY <1>1, <2>1, <2>2 DEF CallbackSend, Called, Told, MayBeIn, MayBeOut, TypeOK
  <2>3. CASE ~CallbackSend(e)
    BY <1>1, <2>1, <2>3 DEF SendListed, SendGarbage, Told, MayBeIn, MayBeOut
  <2>4. QED
    BY <2>2, <2>3
<1>5. CASE Sends(command, e)
  <2>1. ASSUME NEW d \in Truth', NEW k \in 1 .. Len(net'), LastWord(k, d)'
        PROVE  IF net'[k].command = "Attached" THEN MayBeIn(d)' ELSE MayBeOut(d)'
    <3>1. CASE d = e
      BY <1>3, <1>4, <1>5, <2>1, <3>1, LastWordSent
    <3>2. CASE d # e
      <4>1. k \in 1 .. Len(net) /\ LastWord(k, d) /\ net'[k].command = net[k].command
        BY <1>3, <1>5, <2>1, <3>2, LastWordSent
      <4>2. QED
        BY <1>3, <3>2, <4>1 DEF Announced
    <3>3. QED
      BY <3>1, <3>2
  <2>2. ASSUME Heard, NEW d \in Truth', \A k \in 1 .. Len(net') : ~Ours(k, d)'
        PROVE  IF d \in view' THEN MayBeIn(d)' ELSE MayBeOut(d)'
    <3>1. d # e /\ \A k \in 1 .. Len(net) : ~Ours(k, d)
      BY <1>3, <1>5, <2>2, LastWordSent
    <3>2. QED
      BY <1>2, <1>3, <2>2, <3>1 DEF Heard
  <2>3. QED
    BY <2>1, <2>2 DEF Announced, Heard
<1>6. CASE SendFails(e)
  <2>1. e \notin Truth' /\ net' = net
    BY <1>6 DEF SendFails, Truth
  <2>2. ASSUME NEW d \in Truth'
        PROVE  \A k \in 1 .. Len(net) : /\ LastWord(k, d)' <=> LastWord(k, d)
                                       /\ Ours(k, d)' <=> Ours(k, d)
    BY <2>1 DEF LastWord, Ours
  <2>3. ASSUME NEW d \in Truth'
        PROVE  d \in Truth /\ (MayBeIn(d) => MayBeIn(d)') /\ (MayBeOut(d) => MayBeOut(d)')
    BY <1>3, <2>1
  <2>4. Announced'
    <3>1. SUFFICES ASSUME NEW d \in Truth', NEW k \in 1 .. Len(net'), LastWord(k, d)'
                   PROVE  IF net'[k].command = "Attached" THEN MayBeIn(d)' ELSE MayBeOut(d)'
      BY DEF Announced
    <3>2. k \in 1 .. Len(net) /\ LastWord(k, d) /\ net'[k] = net[k]
      BY <2>1, <3>1 DEF LastWord, Ours
    <3>3. QED
      BY <2>2, <2>3, <3>2 DEF Announced
  <2>5. Heard => Heard'
    BY <1>2, <2>1, <2>2, <2>3 DEF Heard
  <2>6. QED
    BY <2>4, <2>5
<1>7. QED
  BY <1>1, <1>5, <1>6

(* A datagram is lost, or arrives; one of another server that passes the   *)
(* check leaves its device untold.                                         *)
LEMMA RemovalStep ==
    ASSUME TypeOK, ToldInv, Announced, [Next]_vars,
           NEW k \in 1 .. Len(net), Lose(k) \/ Handle(k)
    PROVE  Announced' /\ (Heard => Heard')
<1>1. net' = RemoveAt(net, k) /\ UNCHANGED <<devicesMap, callback, adding>>
  BY DEF Lose, Handle, library, starting
<1>2. ASSUME NEW d \in Truth'
      PROVE  /\ d \in Truth /\ d \in Device
             /\ (MayBeIn(d) => MayBeIn(d)') /\ (MayBeOut(d) => MayBeOut(d)')
             /\ Lose(k) => ~Ours(k, d)
             /\ ~(Ours(k, d) /\ \E j \in 1 .. k - 1 : Ours(j, d))
  <2>1. /\ d \in Truth /\ d \in Device
        /\ (MayBeIn(d) => MayBeIn(d)') /\ (MayBeOut(d) => MayBeOut(d)')
    BY <1>1, UntoldGrows, BeliefKept
  <2>2. d \notin untold'
    BY DEF Truth
  <2>3. Lose(k) => ~Ours(k, d)
    BY <2>2 DEF Lose, Ours
  <2>4. Handle(k) => ~(Ours(k, d) /\ \E j \in 1 .. k - 1 : Ours(j, d))
    BY <2>2 DEF Handle, Misleads, Ours
  <2>5. QED
    BY <2>1, <2>3, <2>4
<1>3. ASSUME NEW d \in Truth', NEW i \in 1 .. Len(net'), LastWord(i, d)'
      PROVE  IF net'[i].command = "Attached" THEN MayBeIn(d)' ELSE MayBeOut(d)'
  <2>1. PICK j \in 1 .. Len(net) : LastWord(j, d) /\ net'[i] = net[j]
    BY <1>1, <1>2, <1>3, LastWordRemoved
  <2>2. QED
    BY <1>2, <2>1 DEF Announced
<1>4. ASSUME Heard, NEW d \in Truth', \A i \in 1 .. Len(net') : ~Ours(i, d)'
      PROVE  IF d \in view' THEN MayBeIn(d)' ELSE MayBeOut(d)'
  <2>1. \A j \in 1 .. Len(net) : Ours(j, d) => j = k
    BY <1>1, <1>2, <1>4, LastWordRemoved
  <2>2. CASE Ours(k, d)
    <3>1. LastWord(k, d)
      BY <2>1, <2>2 DEF LastWord, TypeOK
    <3>2. IF net[k].command = "Attached" THEN MayBeIn(d)' ELSE MayBeOut(d)'
      BY <1>2, <3>1 DEF Announced
    <3>3. d \in view' <=> net[k].command = "Attached"
      BY <1>2, <1>4, <2>2, AddressAssumption DEF Handle, ExpectedAddress, Ours
    <3>4. QED
      BY <3>2, <3>3
  <2>3. CASE ~Ours(k, d)
    <3>1. \A j \in 1 .. Len(net) : ~Ours(j, d)
      BY <2>1, <2>3
    <3>2. d \in view' <=> d \in view
      BY <1>4, <2>3 DEF Lose, Handle, Misleads, Truth, Ours
    <3>3. QED
      BY <1>2, <1>4, <3>1, <3>2 DEF Heard
  <2>4. QED
    BY <2>2, <2>3
<1>5. QED
  BY <1>3, <1>4 DEF Announced, Heard

(* A datagram of another server.                                           *)
LEMMA ForeignStep ==
    ASSUME TypeOK, ToldInv, Announced, [Next]_vars,
           NEW datagram \in Datagram, ForeignSends(datagram)
    PROVE  Announced' /\ (Heard => Heard')
<1>0. PICK n \in Nat : n = Len(net)
  BY DEF TypeOK
<1>1. /\ Len(net') = n + 1
      /\ \A k \in 1 .. n : net'[k] = net[k]
      /\ net'[n + 1].from # Own
      /\ view' = view /\ UNCHANGED <<devicesMap, callback, adding>>
  BY <1>0 DEF ForeignSends, TypeOK, library, starting
<1>2. ASSUME NEW d \in Truth'
      PROVE  /\ d \in Truth
             /\ (MayBeIn(d) => MayBeIn(d)') /\ (MayBeOut(d) => MayBeOut(d)')
             /\ ~Ours(n + 1, d)'
             /\ \A k \in 1 .. n : Ours(k, d)' <=> Ours(k, d)
  BY <1>1, UntoldGrows, BeliefKept DEF Ours
<1>3. ASSUME NEW d \in Truth', NEW k \in 1 .. Len(net'), LastWord(k, d)'
      PROVE  IF net'[k].command = "Attached" THEN MayBeIn(d)' ELSE MayBeOut(d)'
  <2>1. Ours(k, d)' /\ \A j \in k + 1 .. n + 1 : ~Ours(j, d)'
    BY <1>1, <1>3 DEF LastWord
  <2>2. k \in 1 .. n
    BY <1>1, <1>2, <2>1
  <2>3. \A j \in k + 1 .. n : j \in 1 .. n /\ j \in k + 1 .. n + 1
    BY <2>2
  <2>4. LastWord(k, d) /\ net'[k] = net[k]
    BY <1>0, <1>1, <1>2, <2>1, <2>2, <2>3 DEF LastWord
  <2>5. QED
    BY <1>0, <1>2, <2>2, <2>4 DEF Announced
<1>4. ASSUME Heard, NEW d \in Truth', \A k \in 1 .. Len(net') : ~Ours(k, d)'
      PROVE  IF d \in view' THEN MayBeIn(d)' ELSE MayBeOut(d)'
  <2>1. \A k \in 1 .. n : ~Ours(k, d)
    BY <1>1, <1>2, <1>4
  <2>2. QED
    BY <1>0, <1>1, <1>2, <1>4, <2>1 DEF Heard
<1>5. QED
  BY <1>3, <1>4 DEF Announced, Heard

LEMMA WordsStep ==
    ASSUME TypeOK, ToldInv, Announced, [Next]_vars
    PROVE  Announced' /\ (Heard => Heard')
<1>1. CASE \/ SetAttachedHandler \/ SetDetachedHandler \/ CountDevices \/ ListDevices \/ Crash
           \/ \E e \in Device : \/ AddListed(e) \/ AddGarbage(e) \/ Plug(e) \/ Unplug(e)
                                \/ CallbackMap(e)
           \/ UNCHANGED vars
  <2>1. net' = net /\ view' = view
    BY <1>1 DEF SetAttachedHandler, SetDetachedHandler, CountDevices, ListDevices, Crash,
                AddListed, AddGarbage, Plug, Unplug, CallbackMap, vars
  <2>2. UNCHANGED vars => UNCHANGED <<devicesMap, callback, adding>>
    BY DEF vars, library, starting
  <2>3. ASSUME NEW d \in Truth'
        PROVE  d \in Truth /\ (MayBeIn(d) => MayBeIn(d)') /\ (MayBeOut(d) => MayBeOut(d)')
    BY <1>1, <2>2, UntoldGrows, BeliefKept
  <2>4. ASSUME NEW d \in Truth'
        PROVE  \A k \in 1 .. Len(net) : /\ LastWord(k, d)' <=> LastWord(k, d)
                                       /\ Ours(k, d)' <=> Ours(k, d)
    BY <2>1 DEF LastWord, Ours
  <2>5. Announced'
    <3>1. SUFFICES ASSUME NEW d \in Truth', NEW k \in 1 .. Len(net'), LastWord(k, d)'
                   PROVE  IF net'[k].command = "Attached" THEN MayBeIn(d)' ELSE MayBeOut(d)'
      BY DEF Announced
    <3>2. k \in 1 .. Len(net) /\ LastWord(k, d) /\ net'[k] = net[k]
      BY <2>1, <3>1 DEF LastWord, Ours
    <3>3. QED
      BY <2>3, <2>4, <3>2 DEF Announced
  <2>6. Heard => Heard'
    BY <2>1, <2>3, <2>4 DEF Heard
  <2>7. QED
    BY <2>5, <2>6
<1>2. ASSUME NEW e \in Device, CallbackSend(e) \/ SendListed(e) \/ SendGarbage(e)
      PROVE  Announced' /\ (Heard => Heard')
  BY <1>2, SendsStep
<1>3. ASSUME NEW k \in 1 .. Len(net), Lose(k) \/ Handle(k)
      PROVE  Announced' /\ (Heard => Heard')
  BY <1>3, RemovalStep
<1>4. ASSUME NEW datagram \in Datagram, ForeignSends(datagram)
      PROVE  Announced' /\ (Heard => Heard')
  BY <1>4, ForeignStep
<1>5. QED
  BY <1>1, <1>2, <1>3, <1>4 DEF Next, Starting, Callback

LEMMA AnnouncedAlways == Spec => []Announced
<1>1. TypeOK /\ ToldInv /\ Announced /\ [Next]_vars => Announced'
  BY WordsStep
<1>2. QED
  BY <1>1, InitWords, ToldAlways, PTL DEF Spec

(* Whoever is told of a device finds it in the map.                        *)
THEOREM NoticeIsAfterMap == Spec => []NoticeAfterMap
<1>1. TypeOK /\ Announced => NoticeAfterMap
  <2>1. SUFFICES ASSUME TypeOK, Announced, NEW k \in 1 .. Len(net),
                        net[k].from = Own, net[k].command = "Attached",
                        {j \in k + 1 .. Len(net) :
                           net[j].device = net[k].device /\ net[j].from = Own} = {},
                        callback[net[k].device] # "removeSend",
                        net[k].device \notin untold
                 PROVE  net[k].device \in devicesMap
    BY DEF NoticeAfterMap
  <2>2. net[k] \in Datagram
    BY <2>1 DEF TypeOK
  <2>3. net[k].device \in Truth
    BY <2>1, <2>2 DEF Datagram, Truth
  <2>4. LastWord(k, net[k].device)
    BY <2>1 DEF LastWord, Ours
  <2>5. QED
    BY <2>1, <2>3, <2>4 DEF Announced, MayBeIn
<1>2. QED
  BY <1>1, AnnouncedAlways, MapAlways, PTL

(* What the program believes is what the map holds, when nothing has got   *)
(* between the datagrams and it.                                           *)
THEOREM ViewFollows == Spec => []ViewFollowsMap
<1>1. TypeOK /\ ToldInv /\ Announced /\ Heard /\ [Next]_vars => Heard'
  BY WordsStep
<1>2. Spec => []Heard
  BY <1>1, InitWords, ToldAlways, AnnouncedAlways, PTL DEF Spec
<1>3. TypeOK /\ MapInv /\ Heard => ViewFollowsMap
  <2>1. SUFFICES ASSUME TypeOK, MapInv, Heard, Quiet,
                        \A k \in 1 .. Len(net) : net[k].from # Own,
                        NEW d \in Truth
                 PROVE  d \in view <=> d \in devicesMap
    BY DEF ViewFollowsMap, Truth, TypeOK
  <2>2. callback[d] = "idle" /\ adding = {}
    BY <2>1 DEF Quiet, MapInv, Stages, Truth
  <2>3. \A k \in 1 .. Len(net) : ~Ours(k, d)
    BY <2>1 DEF Ours
  <2>4. QED
    BY <2>1, <2>2, <2>3 DEF Heard, MayBeIn, MayBeOut
<1>4. QED
  BY <1>2, <1>3, MapAlways, PTL
=============================================================================
