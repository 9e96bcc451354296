---------------------------- MODULE RequestReply ----------------------------
(***************************************************************************)
(* One thread of a client program calling the server through SccMediator,  *)
(* and the contexts that serve its connections: how a packet crosses the   *)
(* two byte streams of a connection, in pieces or whole, and how answer    *)
(* and call find each other when a call gives up after its timeout.        *)
(*                                                                         *)
(* A unit stands for a run of bytes that is never cut; part k of packet n  *)
(* is the unit [req |-> n, part |-> k].  The first unit of a request holds *)
(* the packet size and the command, the first unit of an answer the result *)
(* of the command.                                                         *)
(***************************************************************************)
EXTENDS Naturals, Sequences

CONSTANTS
    RequestUnits,   \* units of a request that carries words
    ReplyUnits,     \* units of an answer that carries words
    MaxRequests,    \* bound on the calls
    MaxStreams,     \* bound on the connections the thread opens
    MaxParts,       \* bound on the short completions of one answer
    CutRequests,    \* a receive of the server may end inside a request
    CutReplies      \* a recv of the client may end inside an answer

ASSUME UnitsAssumption == RequestUnits \in Nat \ {0} /\ ReplyUnits \in Nat \ {0}
ASSUME BoundsAssumption == MaxRequests \in Nat /\ MaxStreams \in Nat /\ MaxParts \in Nat
ASSUME CutsAssumption == CutRequests \in BOOLEAN /\ CutReplies \in BOOLEAN

VARIABLES
    asked,      \* commands called so far; the last is the current one
    waiting,    \* the thread is between Send and Recieve
    stream,     \* its entry of _iostreamMap: a connection, or 0
    opened,     \* connections opened so far
    toServer,   \* units on their way, by connection
    toClient,
    session,    \* the context of each connection
    acted,      \* history: what each packet the server acted on consisted of
    taken       \* history: what the last answer taken consisted of

clientVars == <<asked, waiting, stream, opened>>
vars == <<clientVars, toServer, toClient, session, acted, taken>>

Stream == 1 .. MaxStreams
Command == {"command", "send", "receive"}
Unit == [req : 0 .. MaxRequests, part : Nat]
Junk == [req |-> 0, part |-> 0]

Packet(n, size) == [k \in 1 .. size |-> [req |-> n, part |-> k]]
RequestSize(n) == IF asked[n] = "send" THEN RequestUnits ELSE 1
ReplySize(n) == IF asked[n] = "receive" THEN ReplyUnits ELSE 1
Answer(n) == Packet(n, ReplySize(n))

\* Fault: the length to send is one short.
ContextOneLess(io, reply) ==
    [io |-> io, reply |-> reply, start |-> 0, len |-> Len(reply) - 1, sent |-> 0, parts |-> 0]

(* ClientContext: reply is the buffer, start and len the WSABUF.           *)
Context(io, reply) ==
    [io |-> io, reply |-> reply, start |-> 0, len |-> Len(reply), sent |-> 0, parts |-> 0]

Session == [io : {"none", "OP_WRITE", "OP_READ", "removed"},
            reply : Seq(Unit), start : Nat, len : Nat,
            sent : Nat, parts : 0 .. MaxParts]

ActedOn == [req : 0 .. MaxRequests, units : Nat]
Taken == [req : 0 .. MaxRequests, units : Seq(Unit), count : Nat]

TypeOK ==
    /\ asked \in Seq(Command) /\ Len(asked) <= MaxRequests
    /\ waiting \in BOOLEAN
    /\ stream \in Stream \cup {0}
    /\ opened \in 0 .. MaxStreams
    /\ toServer \in [Stream -> Seq(Unit)]
    /\ toClient \in [Stream -> Seq(Unit)]
    /\ session \in [Stream -> Session]
    /\ acted \subseteq ActedOn
    /\ taken \in Taken

Init ==
    /\ asked = <<>>
    /\ waiting = FALSE
    /\ stream = 0
    /\ opened = 0
    /\ toServer = [s \in Stream |-> <<>>]
    /\ toClient = [s \in Stream |-> <<>>]
    /\ session = [s \in Stream |-> Context("none", <<>>)]
    /\ acted = {}
    /\ taken = [req |-> 0, units |-> <<>>, count |-> 0]

First(seq, k) == SubSeq(seq, 1, k)
After(seq, k) == SubSeq(seq, k + 1, Len(seq))
Smaller(a, b) == IF a < b THEN a ELSE b

-----------------------------------------------------------------------------
(* The calling thread.                                                     *)

(* Send: a stream is made when the thread has none, and a blocking send    *)
(* takes the whole packet.                                                 *)
Call(command) ==
    /\ ~waiting
    /\ Len(asked) < MaxRequests
    /\ IF stream = 0
         THEN /\ opened < MaxStreams
              /\ stream' = opened + 1
              /\ opened' = opened + 1
              /\ session' = [session EXCEPT ![opened + 1] = Context("OP_WRITE", <<>>)]
         ELSE UNCHANGED <<stream, opened, session>>
    /\ asked' = Append(asked, command)
    /\ waiting' = TRUE
    /\ toServer' = [toServer EXCEPT ![stream'] =
                      @ \o Packet(Len(asked) + 1,
                                  IF command = "send" THEN RequestUnits ELSE 1)]
    /\ UNCHANGED <<toClient, acted, taken>>

(* send fails or is not ready in time: RemoveIOThread closes the stream.   *)
SendFails ==
    /\ ~waiting
    /\ stream # 0
    /\ stream' = 0
    /\ UNCHANGED <<asked, waiting, opened, toServer, toClient, session, acted, taken>>

(* One recv with room for the answer of the command.  RecWords copies as   *)
(* many words as the first unit of what it got says there are.             *)
Recieve(k) ==
    LET all == toClient[stream]
        room == ReplySize(Len(asked))
    IN  /\ waiting
        /\ stream # 0
        /\ k \in 1 .. Smaller(room, Len(all))
        /\ CutReplies \/ k = Smaller(room, Len(all))
        /\ toClient' = [toClient EXCEPT ![stream] = After(all, k)]
        /\ waiting' = FALSE
        /\ taken' = [req |-> Len(asked), units |-> First(all, k),
                     count |-> IF asked[Len(asked)] = "receive" /\ all[1].req # 0
                                 THEN ReplySize(all[1].req) ELSE 1]
        /\ UNCHANGED <<asked, stream, opened, toServer, session, acted>>

\* Fault: RemoveIOThread is called for the errors of SccLib only.
NoAnswerStreamKept ==
    /\ waiting
    /\ toClient[stream] = <<>>
    /\ waiting' = FALSE
    /\ UNCHANGED <<asked, stream, opened, toServer, toClient, session, acted, taken>>

(* Nothing has come when the timeout ends, or the server has closed: an    *)
(* error that is not one of SccLib's, so RemoveIOThread closes the stream. *)
NoAnswer ==
    /\ waiting
    /\ toClient[stream] = <<>>
    /\ waiting' = FALSE
    /\ stream' = 0
    /\ UNCHANGED <<asked, opened, toServer, toClient, session, acted, taken>>

-----------------------------------------------------------------------------
(* The server.                                                             *)

(* A receive completes with k units and the worker acts on them as on a    *)
(* whole packet: parameters that have not arrived read as zero.            *)
ReceiveCommand(s, k) ==
    LET head == toServer[s][1]
    IN  /\ session[s].io = "OP_WRITE"
        /\ k \in 1 .. Len(toServer[s])
        /\ CutRequests \/ k = Len(toServer[s])
        /\ toServer' = [toServer EXCEPT ![s] = After(@, k)]
        /\ acted' = acted \cup {[req |-> IF head.part = 1 THEN head.req ELSE 0,
                                 units |-> k]}
        /\ session' = [session EXCEPT ![s] =
                         Context("OP_READ", IF head.part = 1 THEN Answer(head.req)
                                            ELSE <<Junk>>)]
        /\ UNCHANGED <<clientVars, toClient, taken>>

(* The middle of a packet read as a header need not name any command.      *)
ReceiveNonsense(s, k) ==
    /\ session[s].io = "OP_WRITE"
    /\ CutRequests
    /\ k \in 1 .. Len(toServer[s])
    /\ toServer[s][1].part # 1
    /\ toServer' = [toServer EXCEPT ![s] = After(@, k)]
    /\ acted' = acted \cup {[req |-> 0, units |-> k]}
    /\ session' = [session EXCEPT ![s] = Context("removed", <<>>)]
    /\ UNCHANGED <<clientVars, toClient, taken>>

(* What WSASend takes from the buffer at start, past its content too.      *)
Placed(s, k) ==
    [i \in 1 .. k |-> IF session[s].start + i <= Len(session[s].reply)
                        THEN session[s].reply[session[s].start + i] ELSE Junk]

\* Fault: the length of the rest is not brought up to date.
SendCompletesLenKept(s, k) ==
    LET sent == session[s].sent + k
        total == Len(session[s].reply)
    IN  /\ session[s].io = "OP_READ"
        /\ k \in 1 .. session[s].len
        /\ k = session[s].len \/ session[s].parts < MaxParts
        /\ toClient' = [toClient EXCEPT ![s] = @ \o Placed(s, k)]
        /\ session' = [session EXCEPT ![s] =
              IF sent < total
                THEN [@ EXCEPT !.sent = sent, !.start = @ + sent, !.parts = @ + 1]
                ELSE Context("OP_WRITE", <<>>)]
        /\ UNCHANGED <<clientVars, toServer, acted, taken>>

(* A context of which sent units have been sent, the last time not all.    *)
(* The pointer into the buffer moves by all that has been sent so far, not *)
(* by what this completion sent.                                           *)
Rest(context, sent) ==
    [context EXCEPT !.sent = sent, !.start = @ + sent,
                    !.len = Len(context.reply) - sent, !.parts = @ + 1]

(* A send completes with k units.                                          *)
SendCompletes(s, k) ==
    LET sent == session[s].sent + k
    IN  /\ session[s].io = "OP_READ"
        /\ k \in 1 .. session[s].len
        /\ k = session[s].len \/ session[s].parts < MaxParts
        /\ toClient' = [toClient EXCEPT ![s] = @ \o Placed(s, k)]
        /\ session' = [session EXCEPT ![s] =
              IF sent < Len(@.reply) THEN Rest(@, sent) ELSE Context("OP_WRITE", <<>>)]
        /\ UNCHANGED <<clientVars, toServer, acted, taken>>

(* The connection is lost, or was closed by the client: RemoveClient.      *)
Lose(s) ==
    /\ session[s].io \in {"OP_WRITE", "OP_READ"}
    /\ session' = [session EXCEPT ![s] = Context("removed", <<>>)]
    /\ UNCHANGED <<clientVars, toServer, toClient, acted, taken>>

-----------------------------------------------------------------------------
Next ==
    \/ \E command \in Command : Call(command)
    \/ SendFails
    \/ NoAnswer
    \/ \E k \in 1 .. ReplyUnits : Recieve(k)
    \/ \E s \in Stream :
         \/ Lose(s)
         \/ \E k \in 1 .. RequestUnits : ReceiveCommand(s, k) \/ ReceiveNonsense(s, k)
         \/ \E k \in 1 .. ReplyUnits : SendCompletes(s, k)

Spec == Init /\ [][Next]_vars

-----------------------------------------------------------------------------
(* An answer the caller takes is the answer to this call and all of it,    *)
(* however late the answers to calls that timed out arrive.                *)
ReplyMatches == taken.req # 0 => taken.units = Answer(taken.req)

(* What is still to be sent starts where the last completion ended, while  *)
(* no more than one completion of the answer was short; after a second one *)
(* the pointer is past it.                                                 *)
SendsTheRest ==
    \A s \in Stream : session[s].io = "OP_READ" /\ session[s].parts <= 1 =>
        /\ session[s].start = session[s].sent
        /\ session[s].start + session[s].len = Len(session[s].reply)

(* A call is executed at most once, however many of them time out, and an  *)
(* answer is taken only of the call under way and after its execution.     *)
Calls == INSTANCE RemoteCall WITH
    calls <- Len(asked), waiting <- waiting,
    executed <- {a.req : a \in acted}, answered <- taken.req

CallRefinement == Calls!CallSpec

(* SccMediator.h, of the bytes of a packet: "0-3 packet size".  The server *)
(* acts on a packet when it has as many bytes as its size says.            *)
ActsOnWholePackets ==
    \A a \in acted : a.req # 0 /\ a.units = RequestSize(a.req)

(* SccMediator.h, of receiving words: "positive(count of words) on         *)
(* successfully receive".  The words counted have been received.           *)
CountsWhatCame == taken.count = Len(taken.units)
=============================================================================
