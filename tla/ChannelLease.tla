---------------------------- MODULE ChannelLease ----------------------------
(***************************************************************************)
(* What the channel manager promises its clients: a channel is leased to   *)
(* at most one client, a lease begins on a free channel and ends when its  *)
(* holder yields it or leaves.  Only a forceable channel may be taken from *)
(* its holder, and only the unplugging of a device voids its leases.       *)
(*                                                                         *)
(* A client that loses a lease in one of these ways while a command of it  *)
(* is under way is overtaken: until that command is finished it may take   *)
(* the channel once more, whoever leases it by then.  And a client may     *)
(* leave while a command of it is still to come.                           *)
(***************************************************************************)
CONSTANTS Client, NoOwner, Device, Channel, Forceable, Unpluggable

VARIABLES
    live,        \* clients for which the server acts
    overtaken,   \* clients whose lease was lost under a command
    lease        \* holder of every channel of every device

leaseVars == <<live, overtaken, lease>>

LeaseInit ==
    /\ live = {}
    /\ overtaken = {}
    /\ lease = [d \in Device |-> [ch \in Channel |-> NoOwner]]

(* Clients of S may have been overtaken.                                   *)
MayOvertake(S) == \E T \in SUBSET S : overtaken' = overtaken \cup T

Join(c) ==
    /\ live' = live \cup {c}
    /\ UNCHANGED <<overtaken, lease>>

Free(d) == {ch \in Channel : lease[d][ch] = NoOwner}
Holders(d) == {lease[d][ch] : ch \in Channel} \ {NoOwner}

Grant(c, d) ==
    /\ c \in live
    /\ \E chans \in SUBSET Free(d) :
         lease' = [lease EXCEPT ![d] =
                     [ch \in Channel |-> IF ch \in chans THEN c ELSE lease[d][ch]]]
    /\ UNCHANGED <<live, overtaken>>

Yield(c, d, ch) ==
    /\ lease[d][ch] = c
    /\ lease' = [lease EXCEPT ![d][ch] = NoOwner]
    /\ UNCHANGED <<live, overtaken>>

Force(c, d, ch) ==
    /\ c \in live
    /\ ch \in Forceable \/ c \in overtaken
    /\ lease' = [lease EXCEPT ![d][ch] = c]
    /\ MayOvertake({lease[d][ch]} \ {NoOwner})
    /\ UNCHANGED live

Leave(c) ==
    /\ live' \in {live, live \ {c}}
    /\ lease' = [d \in Device |-> [ch \in Channel |->
                   IF lease[d][ch] = c THEN NoOwner ELSE lease[d][ch]]]
    /\ overtaken' \in {overtaken, overtaken \cup {c}, overtaken \ {c}}

Void(d) ==
    /\ d \in Unpluggable
    /\ lease' = [lease EXCEPT ![d] = [ch \in Channel |-> NoOwner]]
    /\ MayOvertake(Holders(d))
    /\ UNCHANGED live

Finish(c) ==
    /\ overtaken' = overtaken \ {c}
    /\ UNCHANGED <<live, lease>>

LeaseNext ==
    \/ \E c \in Client :
         \/ Join(c)
         \/ Leave(c)
         \/ Finish(c)
         \/ \E d \in Device :
              \/ Grant(c, d)
              \/ \E ch \in Channel : Yield(c, d, ch) \/ Force(c, d, ch)
    \/ \E d \in Device : Void(d)

LeaseSpec == LeaseInit /\ [][LeaseNext]_leaseVars
=============================================================================
