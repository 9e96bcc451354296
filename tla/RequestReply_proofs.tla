-------------------------- MODULE RequestReply_proofs --------------------------
(***************************************************************************)
(* Theorems about RequestReply, for any sizes of requests and answers and  *)
(* any numbers of calls and connections.                                   *)
(***************************************************************************)
EXTENDS RequestReply, SequenceTheorems, TLAPS

-----------------------------------------------------------------------------
(* Types, and the sends of a context                                       *)

(* An answer on its way out: what has been sent and what is left is all of *)
(* it, and nothing has been sent before the first short completion.        *)
Accounted ==
    \A s \in Stream : session[s].io = "OP_READ" =>
        /\ session[s].sent + session[s].len = Len(session[s].reply)
        /\ session[s].parts = 0 => session[s].sent = 0 /\ session[s].start = 0
        /\ session[s].parts = 1 => session[s].start = session[s].sent

LEMMA PacketType ==
    ASSUME NEW n \in 0 .. MaxRequests, NEW size \in Nat
    PROVE  Packet(n, size) \in Seq(Unit) /\ Len(Packet(n, size)) = size
BY BoundsAssumption DEF Packet, Unit

LEMMA ReplySizeType == ASSUME NEW n PROVE ReplySize(n) \in Nat \ {0}
BY UnitsAssumption DEF ReplySize

LEMMA ContextType ==
    ASSUME NEW io \in {"none", "OP_WRITE", "OP_READ", "removed"}, NEW reply \in Seq(Unit)
    PROVE  Context(io, reply) \in Session
BY BoundsAssumption DEF Context, Session

LEMMA AnswerType ==
    ASSUME NEW n \in 0 .. MaxRequests
    PROVE  Answer(n) \in Seq(Unit)
BY PacketType, ReplySizeType DEF Answer

LEMMA PartType ==
    ASSUME NEW seq \in Seq(Unit), NEW k \in 0 .. Len(seq)
    PROVE  First(seq, k) \in Seq(Unit) /\ After(seq, k) \in Seq(Unit)
BY DEF First, After

LEMMA EmptyType == <<>> \in Seq(Unit) /\ Junk \in Unit /\ <<Junk>> \in Seq(Unit)
BY BoundsAssumption DEF Unit, Junk

LEMMA InitTypes == Init => TypeOK /\ Accounted
<1>1. SUFFICES ASSUME Init PROVE TypeOK /\ Accounted
  OBVIOUS
<1>2. session \in [Stream -> Session]
  BY <1>1, ContextType, EmptyType DEF Init
<1>3. taken \in Taken
  BY <1>1, EmptyType, BoundsAssumption DEF Init, Taken
<1>4. asked \in Seq(Command) /\ Len(asked) <= MaxRequests
  BY <1>1, BoundsAssumption DEF Init
<1>5. toServer \in [Stream -> Seq(Unit)] /\ toClient \in [Stream -> Seq(Unit)]
  BY <1>1, EmptyType DEF Init
<1>6. Accounted
  BY <1>1 DEF Init, Accounted, Context
<1>7. stream \in Stream \cup {0} /\ opened \in 0 .. MaxStreams /\ acted \subseteq ActedOn
  BY <1>1, BoundsAssumption DEF Init
<1>8. waiting \in BOOLEAN
  BY <1>1 DEF Init
<1>9. QED
  BY <1>2, <1>3, <1>4, <1>5, <1>6, <1>7, <1>8 DEF TypeOK

LEMMA TypeStep == TypeOK /\ Accounted /\ [Next]_vars => TypeOK' /\ Accounted'
<1> SUFFICES ASSUME TypeOK, Accounted, [Next]_vars PROVE TypeOK' /\ Accounted'
  OBVIOUS
<1> USE DEF clientVars
<1>0. session \in [Stream -> Session]
  BY DEF TypeOK
<1>1. ASSUME NEW command \in Command, Call(command)
      PROVE  TypeOK' /\ Accounted'
  <2>1. /\ asked' \in Seq(Command) /\ Len(asked') = Len(asked) + 1
        /\ Len(asked') \in 0 .. MaxRequests
    BY <1>1, BoundsAssumption DEF Call, TypeOK
  <2>2. /\ stream' \in Stream \cup {0} /\ opened' \in 0 .. MaxStreams
        /\ session' \in [Stream -> Session]
    <3>1. CASE stream = 0
      <4>1. opened + 1 \in Stream /\ stream' = opened + 1 /\ opened' = opened + 1
        BY <1>1, <3>1, BoundsAssumption DEF Call, TypeOK, Stream
      <4>2. session' = [session EXCEPT ![opened + 1] = Context("OP_WRITE", <<>>)]
        BY <1>1, <3>1 DEF Call
      <4>3. session' \in [Stream -> Session]
        BY <1>0, <4>1, <4>2, ContextType, EmptyType
      <4>4. opened + 1 \in 0 .. MaxStreams
        BY <4>1, BoundsAssumption DEF Stream
      <4>5. QED
        BY <4>1, <4>3, <4>4
    <3>2. CASE stream # 0
      BY <1>0, <1>1, <3>2 DEF Call, TypeOK
    <3>3. QED
      BY <3>1, <3>2
  <2>3. toServer' \in [Stream -> Seq(Unit)]
    <3> DEFINE p == Packet(Len(asked) + 1, IF command = "send" THEN RequestUnits ELSE 1)
    <3>1. p \in Seq(Unit)
      <4>1. Len(asked) + 1 \in 0 .. MaxRequests
        BY <2>1
      <4>2. (IF command = "send" THEN RequestUnits ELSE 1) \in Nat
        BY UnitsAssumption
      <4>3. QED
        BY <4>1, <4>2, PacketType
    <3>2. toServer' = [toServer EXCEPT ![stream'] = @ \o p]
      BY <1>1 DEF Call
    <3> HIDE DEF p
    <3>3. \A s \in Stream : toServer[s] \o p \in Seq(Unit)
      BY <3>1, ConcatProperties DEF TypeOK
    <3>4. QED
      BY <3>2, <3>3 DEF TypeOK
  <2>4. Accounted'
    <3>1. CASE stream = 0
      BY <1>0, <1>1, <3>1 DEF Call, Accounted, Context
    <3>2. CASE stream # 0
      BY <1>1, <3>2 DEF Call, Accounted
    <3>3. QED
      BY <3>1, <3>2
  <2>5. QED
    BY <1>1, <2>1, <2>2, <2>3, <2>4, BoundsAssumption DEF Call, TypeOK
<1>2. CASE SendFails \/ NoAnswer
  BY <1>2 DEF SendFails, NoAnswer, TypeOK, Accounted
<1>3. ASSUME NEW k \in 1 .. ReplyUnits, Recieve(k)
      PROVE  TypeOK' /\ Accounted'
  <2>1. stream \in Stream /\ toClient[stream] \in Seq(Unit) /\ k \in 1 .. Len(toClient[stream])
    BY <1>3, ReplySizeType, UnitsAssumption DEF Recieve, TypeOK, Smaller
  <2>2. First(toClient[stream], k) \in Seq(Unit) /\ After(toClient[stream], k) \in Seq(Unit)
    BY <2>1, PartType
  <2>3. taken' \in Taken
    <3>1. Len(asked) \in 0 .. MaxRequests
      BY BoundsAssumption DEF TypeOK
    <3>2. taken'.count \in Nat
      BY <1>3, ReplySizeType DEF Recieve
    <3>3. QED
      BY <1>3, <2>2, <3>1, <3>2 DEF Recieve, Taken
  <2>4. QED
    BY <1>3, <2>1, <2>2, <2>3 DEF Recieve, TypeOK, Accounted
<1>4. ASSUME NEW s \in Stream, NEW k \in 1 .. RequestUnits,
             ReceiveCommand(s, k) \/ ReceiveNonsense(s, k)
      PROVE  TypeOK' /\ Accounted'
  <2>1. toServer[s] \in Seq(Unit) /\ k \in 1 .. Len(toServer[s]) /\ toServer[s][1] \in Unit
    BY <1>4 DEF ReceiveCommand, ReceiveNonsense, TypeOK
  <2>2. toServer[s][1].req \in 0 .. MaxRequests
    BY <2>1 DEF Unit
  <2>3. After(toServer[s], k) \in Seq(Unit)
    BY <2>1, PartType
  <2>4. PICK io \in {"OP_READ", "removed"}, reply \in Seq(Unit) :
          session' = [session EXCEPT ![s] = Context(io, reply)]
    BY <1>4, <2>2, AnswerType, EmptyType DEF ReceiveCommand, ReceiveNonsense
  <2>5. session' \in [Stream -> Session]
    BY <1>0, <2>4, ContextType
  <2>6. Accounted'
    BY <1>0, <2>4 DEF Accounted, Context
  <2>7. acted' \subseteq ActedOn
    <3>1. \A n \in 0 .. MaxRequests : [req |-> n, units |-> k] \in ActedOn
      BY <2>1 DEF ActedOn
    <3>2. 0 \in 0 .. MaxRequests /\ acted \subseteq ActedOn
      BY BoundsAssumption DEF TypeOK
    <3>3. QED
      BY <1>4, <2>2, <3>1, <3>2 DEF ReceiveCommand, ReceiveNonsense
  <2>8. QED
    BY <1>4, <2>3, <2>5, <2>6, <2>7 DEF ReceiveCommand, ReceiveNonsense, TypeOK
<1>5. ASSUME NEW s \in Stream, NEW k \in 1 .. ReplyUnits, SendCompletes(s, k)
      PROVE  TypeOK' /\ Accounted'
  <2>1. /\ session[s] \in Session /\ session[s].reply \in Seq(Unit)
        /\ session[s].start \in Nat /\ session[s].len \in Nat
        /\ session[s].sent \in Nat /\ session[s].parts \in Nat
        /\ session[s].parts <= MaxParts
    BY <1>0, BoundsAssumption DEF Session
  <2>2. /\ session[s].io = "OP_READ" /\ k \in 1 .. session[s].len
        /\ k = session[s].len \/ session[s].parts < MaxParts
        /\ session[s].sent + session[s].len = Len(session[s].reply)
    BY <1>5 DEF SendCompletes, Accounted
  <2>3. Placed(s, k) \in Seq(Unit)
    BY <2>1, EmptyType DEF Placed
  <2>4. toClient[s] \o Placed(s, k) \in Seq(Unit)
    BY <2>3, ConcatProperties DEF TypeOK
  <2>5. session' \in [Stream -> Session] /\ Accounted'
    <3>1. CASE session[s].sent + k < Len(session[s].reply)
      <4> DEFINE next == Rest(session[s], session[s].sent + k)
      <4>1. session' = [session EXCEPT ![s] = next]
        BY <1>5, <3>1 DEF SendCompletes
      <4>2. next \in Session
        <5>1. /\ session[s].sent + k \in Nat
              /\ session[s].start + (session[s].sent + k) \in Nat
              /\ Len(session[s].reply) - (session[s].sent + k) \in Nat
              /\ session[s].parts + 1 \in 0 .. MaxParts
          <6>1. Len(session[s].reply) \in Nat /\ k \in Nat
            BY <2>1
          <6>2. k # session[s].len
            BY <2>1, <2>2, <3>1
          <6>3. session[s].parts + 1 \in 0 .. MaxParts
            BY <2>1, <2>2, <6>2, BoundsAssumption
          <6>4. session[s].sent + k \in Nat
            BY <2>1, <6>1
          <6>5. Len(session[s].reply) - (session[s].sent + k) \in Nat
            BY <3>1, <6>1, <6>4
          <6>6. session[s].start + (session[s].sent + k) \in Nat
            <7>1. \A a, b \in Nat : a + b \in Nat
              OBVIOUS
            <7>2. session[s].start \in Nat
              BY <2>1
            <7>3. QED
              BY <6>4, <7>1, <7>2, Zenon
          <6>7. QED
            BY <6>3, <6>4, <6>5, <6>6
        <5>2. QED
          BY <2>1, <5>1 DEF Rest, Session
      <4>3. /\ next.sent + next.len = Len(next.reply)
            /\ next.parts = 1 => next.start = next.sent
            /\ next.parts # 0
        BY <1>5, <2>1, <2>2, <3>1 DEF Rest, Session, Accounted
      <4> HIDE DEF next
      <4>4. QED
        BY <1>0, <4>1, <4>2, <4>3 DEF Accounted
    <3>2. CASE ~(session[s].sent + k < Len(session[s].reply))
      <4>1. session' = [session EXCEPT ![s] = Context("OP_WRITE", <<>>)]
        BY <1>5, <3>2 DEF SendCompletes
      <4>2. QED
        BY <1>0, <4>1, ContextType, EmptyType DEF Accounted, Context
    <3>3. QED
      BY <3>1, <3>2
  <2>6. QED
    BY <1>5, <2>4, <2>5 DEF SendCompletes, TypeOK
<1>6. ASSUME NEW s \in Stream, Lose(s)
      PROVE  TypeOK' /\ Accounted'
  <2>1. session' \in [Stream -> Session] /\ Accounted'
    BY <1>0, <1>6, ContextType, EmptyType DEF Lose, Accounted, Context
  <2>2. QED
    BY <1>6, <2>1 DEF Lose, TypeOK
<1>7. CASE UNCHANGED vars
  BY <1>7 DEF vars, TypeOK, Accounted
<1>8. QED
  BY <1>1, <1>2, <1>3, <1>4, <1>5, <1>6, <1>7 DEF Next

LEMMA TypesAlways == Spec => [](TypeOK /\ Accounted)
BY InitTypes, TypeStep, PTL DEF Spec

(* The variables keep their types.                                         *)
THEOREM TypeCorrect == Spec => []TypeOK
BY TypesAlways, PTL

(* With at most one short completion the rest of an answer follows where   *)
(* the last one ended.                                                     *)
THEOREM RestIsSent == Spec => []SendsTheRest
<1>1. TypeOK /\ Accounted => SendsTheRest
  <2>1. SUFFICES ASSUME TypeOK, Accounted, NEW s \in Stream, session[s].io = "OP_READ",
                        session[s].parts <= 1
                 PROVE  /\ session[s].start = session[s].sent
                        /\ session[s].start + session[s].len = Len(session[s].reply)
    BY DEF SendsTheRest
  <2>2. session[s].parts \in {0, 1}
    <3>1. session[s] \in Session
      BY <2>1 DEF TypeOK
    <3>2. QED
      BY <2>1, <3>1, BoundsAssumption DEF Session
  <2>3. QED
    BY <2>1, <2>2 DEF Accounted
<1>2. QED
  BY <1>1, TypesAlways, PTL

-----------------------------------------------------------------------------
(* Packets that are never cut                                              *)

Whole == ~CutRequests /\ ~CutReplies /\ MaxParts = 0

Last == Len(asked)

Resting(s) == session[s].io \in {"OP_WRITE", "removed"}

(* Where the call under way is: its request on the way, its answer in the  *)
(* context, its answer on the way, or the connection is lost.              *)
UnderWay(s) ==
    \/ toServer[s] = Packet(Last, RequestSize(Last)) /\ toClient[s] = <<>> /\ Resting(s)
    \/ toServer[s] = <<>> /\ toClient[s] = <<>> /\ session[s] = Context("OP_READ", Answer(Last))
    \/ toServer[s] = <<>> /\ toClient[s] = Answer(Last) /\ Resting(s)
    \/ toServer[s] = <<>> /\ toClient[s] = <<>> /\ session[s].io = "removed"

Silent(s) == toServer[s] = <<>> /\ toClient[s] = <<>> /\ Resting(s)

(* The connection in use carries the call under way and nothing else: what *)
(* a call that timed out has left behind stays in a connection that is     *)
(* never used again.                                                       *)
Exchange ==
    /\ waiting => stream # 0 /\ Last # 0
    /\ stream # 0 => stream <= opened
    /\ stream # 0 /\ waiting => UnderWay(stream)
    /\ stream # 0 /\ ~waiting => Silent(stream)
    /\ \A s \in Stream : s > opened => toServer[s] = <<>> /\ toClient[s] = <<>>
                                        /\ session[s].io = "none"
    /\ taken.req <= Last
    /\ ReplyMatches

LEMMA InitExchange == Init => Exchange
<1>1. Len(<<>>) = 0
  OBVIOUS
<1>2. QED
  BY <1>1 DEF Init, Exchange, Context, ReplyMatches, Last

(* A packet is a sequence of its units, the first of which is part 1.      *)
LEMMA PacketParts ==
    ASSUME NEW n \in 0 .. MaxRequests, NEW size \in Nat \ {0}
    PROVE  /\ Packet(n, size) \in Seq(Unit) /\ Len(Packet(n, size)) = size
           /\ Packet(n, size) # <<>> /\ Packet(n, size)[1] = [req |-> n, part |-> 1]
           /\ First(Packet(n, size), size) = Packet(n, size)
           /\ After(Packet(n, size), size) = <<>>
<1>1. Packet(n, size) \in Seq(Unit) /\ Len(Packet(n, size)) = size
  BY PacketType
<1>2. Packet(n, size)[1] = [req |-> n, part |-> 1]
  BY DEF Packet
<1>3. First(Packet(n, size), size) = Packet(n, size)
  BY <1>1, SubSeqFull DEF First
<1>4. After(Packet(n, size), size) = <<>>
  BY <1>1, SubSeqEmpty DEF After
<1>5. Packet(n, size) # <<>>
  BY <1>1
<1>6. QED
  BY <1>1, <1>2, <1>3, <1>4, <1>5

(* A step of the server on a connection that has been opened.              *)
LEMMA OneConnection ==
    ASSUME TypeOK, Exchange, UNCHANGED <<clientVars, taken>>,
           NEW s \in Stream, s <= opened,
           \A r \in Stream \ {s} : /\ toServer'[r] = toServer[r]
                                   /\ toClient'[r] = toClient[r]
                                   /\ session'[r] = session[r],
           s = stream => IF waiting THEN UnderWay(s)' ELSE Silent(s)'
    PROVE  Exchange'
<1>1. /\ asked' = asked /\ waiting' = waiting /\ stream' = stream /\ opened' = opened
      /\ taken' = taken /\ Last' = Last
  BY DEF clientVars, Last
<1>2. stream # 0 => stream \in Stream
  BY DEF TypeOK
<1>3. ReplyMatches' /\ taken'.req <= Last'
  BY <1>1 DEF Exchange, ReplyMatches, Answer, ReplySize
<1>4. ASSUME stream # 0, stream # s
      PROVE  (UnderWay(stream) => UnderWay(stream)') /\ (Silent(stream) => Silent(stream)')
  BY <1>1, <1>2, <1>4 DEF UnderWay, Silent, Resting, RequestSize, Answer, ReplySize
<1>5. \A r \in Stream : r > opened => r # s
  BY DEF TypeOK, Stream
<1>6. \A r \in Stream : r > opened' =>
         toServer'[r] = <<>> /\ toClient'[r] = <<>> /\ session'[r].io = "none"
  BY <1>1, <1>5 DEF Exchange
<1>7. ASSUME stream # 0
      PROVE  (waiting => UnderWay(stream)') /\ (~waiting => Silent(stream)')
  <2>1. CASE stream = s
    BY <1>1, <2>1 DEF UnderWay, Silent, Resting
  <2>2. CASE stream # s
    BY <1>4, <1>7, <2>2 DEF Exchange
  <2>3. QED
    BY <2>1, <2>2
<1>8. QED
  BY <1>1, <1>3, <1>6, <1>7 DEF Exchange

(* A call puts its packet on a connection that carries nothing.            *)
LEMMA Asked ==
    ASSUME TypeOK, TypeOK', Exchange, NEW command \in Command, Call(command)
    PROVE  /\ Last \in Nat /\ Last' = Last + 1 /\ Last' \in 0 .. MaxRequests
           /\ asked'[Last + 1] = command /\ \A n \in 1 .. Last : asked'[n] = asked[n]
           /\ stream' \in Stream /\ stream' <= opened' /\ opened <= opened'
           /\ toServer[stream'] = <<>> /\ Resting(stream)'
           /\ toServer'[stream'] = Packet(Last, RequestSize(Last))'
           /\ toClient'[stream'] = <<>> /\ toClient' = toClient
           /\ \A s \in Stream \ {stream'} :
                toServer'[s] = toServer[s] /\ session'[s] = session[s]
<1> DEFINE p == Packet(Last + 1, IF command = "send" THEN RequestUnits ELSE 1)
<1>1. /\ Last \in Nat /\ Last' = Last + 1 /\ Last' \in 0 .. MaxRequests
      /\ asked'[Last + 1] = command
      /\ \A n \in 1 .. Last : asked'[n] = asked[n]
  BY BoundsAssumption DEF Call, Last, TypeOK
<1>2. /\ stream' \in Stream /\ stream' <= opened' /\ opened <= opened'
      /\ toServer[stream'] = <<>> /\ toClient[stream'] = <<>> /\ Resting(stream)'
  <2>1. CASE stream = 0
    <3>1. stream' = opened + 1 /\ opened' = opened + 1 /\ opened + 1 \in Stream /\ opened \in Nat
      BY <2>1, BoundsAssumption DEF Call, TypeOK, Stream
    <3>2. session' = [session EXCEPT ![opened + 1] = Context("OP_WRITE", <<>>)]
      BY <2>1 DEF Call
    <3>3. session'[stream'].io = "OP_WRITE"
      BY <3>1, <3>2 DEF Context, TypeOK
    <3>4. QED
      BY <3>1, <3>3 DEF Exchange, Resting, TypeOK
  <2>2. CASE stream # 0
    BY <2>2 DEF Call, Exchange, Silent, Resting, TypeOK
  <2>3. QED
    BY <2>1, <2>2
<1>3. toServer' = [toServer EXCEPT ![stream'] = @ \o p] /\ toClient' = toClient
  BY DEF Call, Last
<1>4. p \in Seq(Unit)
  BY <1>1, PacketType, UnitsAssumption
<1> HIDE DEF p
<1>5. toServer'[stream'] = p /\ toClient'[stream'] = <<>>
  BY <1>2, <1>3, <1>4, ConcatEmptySeq DEF TypeOK
<1>6. p = Packet(Last, RequestSize(Last))'
  BY <1>1 DEF p, RequestSize
<1>7. \A s \in Stream \ {stream'} : toServer'[s] = toServer[s] /\ session'[s] = session[s]
  BY <1>2, <1>3 DEF Call, TypeOK
<1>8. QED
  BY <1>1, <1>2, <1>3, <1>5, <1>6, <1>7

LEMMA CallStep ==
    ASSUME TypeOK, TypeOK', Exchange, NEW command \in Command, Call(command)
    PROVE  Exchange'
<1>1. UnderWay(stream)'
  BY Asked DEF UnderWay
<1>2. \A s \in Stream : s > opened' =>
         toServer'[s] = <<>> /\ toClient'[s] = <<>> /\ session'[s].io = "none"
  <2>1. SUFFICES ASSUME NEW s \in Stream, s > opened'
                 PROVE  toServer'[s] = <<>> /\ toClient'[s] = <<>> /\ session'[s].io = "none"
    OBVIOUS
  <2>2. s # stream' /\ s > opened
    BY <2>1, Asked DEF TypeOK, Stream
  <2>3. QED
    BY <2>2, Asked DEF Exchange
<1>3. taken' = taken /\ waiting' = TRUE /\ taken.req \in Nat
  BY BoundsAssumption DEF Call, TypeOK, Taken
<1>4. ReplyMatches'
  <2>1. taken.req # 0 => taken.req \in 1 .. Last
    BY <1>3, Asked DEF Exchange
  <2>2. taken.req # 0 => asked'[taken.req] = asked[taken.req]
    BY <2>1, Asked
  <2>3. QED
    BY <1>3, <2>2 DEF Exchange, ReplyMatches, Answer, ReplySize
<1>5. stream' # 0 /\ stream' <= opened' /\ Last' # 0 /\ taken'.req <= Last'
  BY <1>3, Asked DEF Stream, Exchange
<1>6. QED
  BY <1>1, <1>2, <1>3, <1>4, <1>5 DEF Exchange

(* An answer that is taken is all there is on its connection.              *)
LEMMA AnswerTaken ==
    ASSUME Whole, TypeOK, Exchange, NEW k \in 1 .. ReplyUnits, Recieve(k)
    PROVE  /\ Last \in 1 .. MaxRequests /\ stream \in Stream
           /\ toServer[stream] = <<>> /\ toClient[stream] = Answer(Last)
           /\ Answer(Last) # <<>> /\ Resting(stream)
           /\ toClient' = [toClient EXCEPT ![stream] = <<>>]
           /\ taken'.req = Last /\ taken'.units = Answer(Last)
           /\ taken'.count = Len(Answer(Last))
<1>1. /\ Last \in 1 .. MaxRequests /\ stream \in Stream /\ UnderWay(stream) /\ waiting
  BY BoundsAssumption DEF Recieve, Exchange, TypeOK, Last
<1>2. Answer(Last) \in Seq(Unit) /\ Len(Answer(Last)) = ReplySize(Last)
      /\ First(Answer(Last), ReplySize(Last)) = Answer(Last)
      /\ After(Answer(Last), ReplySize(Last)) = <<>>
  <2>1. Last \in 0 .. MaxRequests /\ ReplySize(Last) \in Nat \ {0}
    BY <1>1, ReplySizeType
  <2>2. QED
    BY <2>1, PacketParts DEF Answer
<1>3. toClient[stream] # <<>>
  <2>1. k \in 1 .. Smaller(ReplySize(Len(asked)), Len(toClient[stream]))
    BY DEF Recieve
  <2>2. toClient[stream] \in Seq(Unit)
    BY <1>1 DEF TypeOK
  <2>3. QED
    BY <2>1, <2>2, ReplySizeType DEF Smaller
<1>4. toServer[stream] = <<>> /\ toClient[stream] = Answer(Last) /\ Resting(stream)
  BY <1>1, <1>3 DEF UnderWay
<1>5. k = ReplySize(Last)
  <2>1. k = Smaller(ReplySize(Last), Len(toClient[stream]))
    BY DEF Recieve, Whole, Last
  <2>2. ReplySize(Last) \in Nat
    BY ReplySizeType
  <2>3. QED
    BY <1>2, <1>4, <2>1, <2>2 DEF Smaller
<1>6. toClient' = [toClient EXCEPT ![stream] = <<>>]
  BY <1>2, <1>4, <1>5 DEF Recieve
<1>7. taken'.req = Last /\ taken'.units = Answer(Last)
  BY <1>2, <1>4, <1>5 DEF Recieve, Last
<1>8. taken'.count = ReplySize(Last)
  <2>1. Answer(Last)[1].req = Last
    <3>1. Last \in 0 .. MaxRequests /\ ReplySize(Last) \in Nat \ {0}
      BY <1>1, ReplySizeType
    <3>2. Answer(Last)[1] = [req |-> Last, part |-> 1]
      BY <3>1, PacketParts DEF Answer
    <3>3. QED
      BY <3>2
  <2>2. taken'.count = IF asked[Last] = "receive" /\ Answer(Last)[1].req # 0
                         THEN ReplySize(Answer(Last)[1].req) ELSE 1
    BY <1>4 DEF Recieve, Last
  <2>3. asked[Last] # "receive" => ReplySize(Last) = 1
    BY DEF ReplySize
  <2>4. QED
    BY <1>1, <2>1, <2>2, <2>3
<1>9. QED
  BY <1>1, <1>2, <1>3, <1>4, <1>6, <1>7, <1>8

LEMMA RecieveStep ==
    ASSUME Whole, TypeOK, Exchange, NEW k \in 1 .. ReplyUnits, Recieve(k)
    PROVE  Exchange'
<1>1. /\ waiting' = FALSE
      /\ UNCHANGED <<asked, stream, opened, toServer, session>>
  BY DEF Recieve
<1>2. Silent(stream)'
  BY <1>1, AnswerTaken DEF Silent, Resting, TypeOK
<1>3. ReplyMatches' /\ taken'.req <= Last'
  <2>1. Last <= Last
    BY AnswerTaken
  <2>2. QED
    BY <1>1, <2>1, AnswerTaken DEF ReplyMatches, Last, Answer, ReplySize
<1>4. \A s \in Stream : s > opened => s # stream
  BY AnswerTaken DEF Exchange, TypeOK, Stream
<1>5. \A s \in Stream : s > opened' =>
         toServer'[s] = <<>> /\ toClient'[s] = <<>> /\ session'[s].io = "none"
  BY <1>1, <1>4, AnswerTaken DEF Exchange, TypeOK
<1>6. QED
  BY <1>1, <1>2, <1>3, <1>5 DEF Exchange

LEMMA ReceiveStep ==
    ASSUME Whole, TypeOK, Exchange, NEW s \in Stream, NEW k \in 1 .. RequestUnits,
           ReceiveCommand(s, k)
    PROVE  Exchange'
<1>1. k = Len(toServer[s]) /\ toServer[s] # <<>> /\ k \in 1 .. Len(toServer[s])
  BY DEF ReceiveCommand, Whole
<1>2. s <= opened
  BY <1>1 DEF Exchange, TypeOK, Stream
<1>3. ASSUME s = stream
      PROVE  waiting /\ UnderWay(s)'
  <2>1. waiting /\ UnderWay(s) /\ s # 0 /\ Last \in 1 .. MaxRequests
    BY <1>1, <1>3, BoundsAssumption DEF Exchange, Silent, Stream, TypeOK, Last
  <2>2. toServer[s] = Packet(Last, RequestSize(Last)) /\ toClient[s] = <<>>
    BY <1>1, <2>1 DEF UnderWay
  <2>3. RequestSize(Last) \in Nat \ {0}
    BY UnitsAssumption DEF RequestSize
  <2>4. /\ toServer[s][1] = [req |-> Last, part |-> 1]
        /\ After(toServer[s], k) = <<>>
    BY <1>1, <2>1, <2>2, <2>3, PacketParts
  <2>5. /\ toServer'[s] = <<>> /\ toClient'[s] = <<>>
        /\ session'[s] = Context("OP_READ", Answer(Last))
    BY <2>2, <2>4 DEF ReceiveCommand, TypeOK
  <2>6. asked' = asked
    BY DEF ReceiveCommand, clientVars
  <2>7. QED
    BY <2>1, <2>5, <2>6 DEF UnderWay, Last, Answer, ReplySize
<1>4. /\ UNCHANGED <<clientVars, taken>>
      /\ \A r \in Stream \ {s} : /\ toServer'[r] = toServer[r]
                                  /\ toClient'[r] = toClient[r]
                                  /\ session'[r] = session[r]
  BY DEF ReceiveCommand, TypeOK
<1>5. QED
  BY <1>2, <1>3, <1>4, OneConnection

LEMMA SendStep ==
    ASSUME Whole, TypeOK, Exchange, NEW s \in Stream, NEW k \in 1 .. ReplyUnits,
           SendCompletes(s, k)
    PROVE  Exchange'
<1>1. session[s].io = "OP_READ"
  BY DEF SendCompletes
<1>2. s <= opened
  BY <1>1 DEF Exchange, TypeOK, Stream
<1>3. ASSUME s = stream
      PROVE  waiting /\ UnderWay(s)'
  <2>1. waiting /\ UnderWay(s) /\ s # 0 /\ Last \in 1 .. MaxRequests
    <3>1. s # 0 /\ ~Silent(s)
      BY <1>1 DEF Silent, Resting, Stream
    <3>2. waiting /\ UnderWay(s) /\ Last # 0
      BY <1>3, <3>1 DEF Exchange
    <3>3. QED
      BY <3>1, <3>2, BoundsAssumption DEF TypeOK, Last
  <2>2. /\ toServer[s] = <<>> /\ toClient[s] = <<>>
        /\ session[s] = Context("OP_READ", Answer(Last))
    BY <1>1, <2>1 DEF UnderWay, Resting
  <2>3. Answer(Last) \in Seq(Unit)
    BY <2>1, AnswerType
  <2>4. /\ session[s].reply = Answer(Last) /\ session[s].start = 0 /\ session[s].sent = 0
        /\ session[s].len = Len(Answer(Last)) /\ session[s].parts = 0
    BY <2>2 DEF Context
  <2>5. k = Len(Answer(Last))
    BY <2>4 DEF SendCompletes, Whole
  <2>6. Placed(s, k) \in Seq(Unit) /\ Placed(s, k) = Answer(Last)
    <3>1. /\ Placed(s, k) \in Seq(Unit) /\ Len(Placed(s, k)) = k
          /\ \A i \in 1 .. k : Placed(s, k)[i] = Answer(Last)[i]
      BY <2>3, <2>4, <2>5 DEF Placed
    <3>2. QED
      BY <2>3, <2>5, <3>1, SeqEqual
  <2>7. toClient'[s] = Answer(Last)
    <3>1. toClient'[s] = <<>> \o Placed(s, k)
      BY <2>2 DEF SendCompletes, TypeOK
    <3>2. QED
      BY <2>6, <3>1, ConcatEmptySeq
  <2>8. session'[s].io = "OP_WRITE"
    <3>1. ~(session[s].sent + k < Len(session[s].reply))
      BY <2>3, <2>4, <2>5
    <3>2. session' = [session EXCEPT ![s] = Context("OP_WRITE", <<>>)]
      BY <3>1 DEF SendCompletes
    <3>3. QED
      BY <3>2 DEF Context, TypeOK
  <2>9. asked' = asked /\ toServer'[s] = <<>>
    BY <2>2 DEF SendCompletes, clientVars
  <2>10. QED
    BY <2>1, <2>7, <2>8, <2>9 DEF UnderWay, Resting, Last, Answer, ReplySize
<1>4. /\ UNCHANGED <<clientVars, taken>>
      /\ \A r \in Stream \ {s} : /\ toServer'[r] = toServer[r]
                                  /\ toClient'[r] = toClient[r]
                                  /\ session'[r] = session[r]
  BY DEF SendCompletes, TypeOK
<1>5. QED
  BY <1>2, <1>3, <1>4, OneConnection

LEMMA LoseStep ==
    ASSUME TypeOK, Exchange, NEW s \in Stream, Lose(s)
    PROVE  Exchange'
<1>1. s <= opened
  BY DEF Lose, Exchange, TypeOK, Stream
<1>2. /\ session'[s].io = "removed"
      /\ UNCHANGED <<asked, waiting, toServer, toClient>>
  BY DEF Lose, Context, TypeOK, clientVars
<1>3. ASSUME s = stream
      PROVE  IF waiting THEN UnderWay(s)' ELSE Silent(s)'
  <2>1. IF waiting THEN UnderWay(s) ELSE Silent(s)
    BY <1>3 DEF Exchange, Stream
  <2>2. CASE waiting
    BY <1>2, <2>1, <2>2 DEF UnderWay, Resting, Last, RequestSize, Answer, ReplySize
  <2>3. CASE ~waiting
    BY <1>2, <2>1, <2>3 DEF Silent, Resting
  <2>4. QED
    BY <2>2, <2>3
<1>4. /\ UNCHANGED <<clientVars, taken>>
      /\ \A r \in Stream \ {s} : /\ toServer'[r] = toServer[r]
                                  /\ toClient'[r] = toClient[r]
                                  /\ session'[r] = session[r]
  BY DEF Lose, TypeOK
<1>5. QED
  BY <1>1, <1>3, <1>4, OneConnection

LEMMA ExchangeStep ==
    ASSUME Whole, TypeOK, TypeOK', Exchange, [Next]_vars
    PROVE  Exchange'
<1>1. ASSUME NEW command \in Command, Call(command)
      PROVE  Exchange'
  BY <1>1, CallStep
<1>2. CASE SendFails \/ NoAnswer
  BY <1>2 DEF SendFails, NoAnswer, Exchange, ReplyMatches, Answer, ReplySize, Last
<1>3. ASSUME NEW k \in 1 .. ReplyUnits, Recieve(k)
      PROVE  Exchange'
  BY <1>3, RecieveStep
<1>4. ASSUME NEW s \in Stream, Lose(s)
      PROVE  Exchange'
  BY <1>4, LoseStep
<1>5. ASSUME NEW s \in Stream, NEW k \in 1 .. RequestUnits,
             ReceiveCommand(s, k) \/ ReceiveNonsense(s, k)
      PROVE  Exchange'
  BY <1>5, ReceiveStep DEF ReceiveNonsense, Whole
<1>6. ASSUME NEW s \in Stream, NEW k \in 1 .. ReplyUnits, SendCompletes(s, k)
      PROVE  Exchange'
  BY <1>6, SendStep
<1>7. CASE UNCHANGED vars
  BY <1>7 DEF vars, clientVars, Exchange, UnderWay, Silent, Resting, ReplyMatches,
              RequestSize, Answer, ReplySize, Last
<1>8. QED
  BY <1>1, <1>2, <1>3, <1>4, <1>5, <1>6, <1>7 DEF Next

(* When packets are never cut, an answer that is taken is the answer to    *)
(* the call that takes it, whatever calls timed out before.                *)
THEOREM RepliesMatch ==
    ASSUME Whole
    PROVE  Spec => []ReplyMatches
<1>1. TypeOK /\ TypeOK' /\ Exchange /\ [Next]_vars => Exchange'
  BY ExchangeStep
<1>2. Exchange => ReplyMatches
  BY DEF Exchange
<1>3. QED
  BY <1>1, <1>2, InitExchange, TypeCorrect, PTL DEF Spec

-----------------------------------------------------------------------------
(* Calls, executions and answers                                           *)

Executed == {a.req : a \in acted}

Carries(s, n) == toServer[s] = Packet(n, RequestSize(n))

(* A connection carries at most one request, a whole one that has not been *)
(* executed, and no two carry the same.  What has been executed is a call  *)
(* that was made, and the answer of the call under way is there only after *)
(* its execution.                                                          *)
Ledger ==
    /\ \A s \in Stream : toServer[s] # <<>> =>
         \E n \in 1 .. Last : n \notin Executed /\ Carries(s, n)
    /\ \A r, s \in Stream : \A n \in 1 .. Last : Carries(r, n) /\ Carries(s, n) => r = s
    /\ \A a \in acted : a.req \in 1 .. Last /\ a.units = RequestSize(a.req)
    /\ stream # 0 /\ waiting =>
         (session[stream].io = "OP_READ" \/ toClient[stream] # <<>> => Last \in Executed)
    /\ CountsWhatCame

LEMMA InitLedger == Init => Ledger
<1>1. Len(<<>>) = 0
  OBVIOUS
<1>2. Init => 1 .. Last = {} /\ acted = {}
  BY <1>1 DEF Init, Last
<1>3. QED
  BY <1>1, <1>2 DEF Init, Ledger, CountsWhatCame

(* Requests of different calls differ.                                     *)
LEMMA RequestsDiffer ==
    ASSUME NEW m \in 0 .. MaxRequests, NEW n \in 0 .. MaxRequests,
           NEW j \in Nat \ {0}, NEW k \in Nat \ {0}, Packet(m, j) = Packet(n, k)
    PROVE  m = n
<1>1. Packet(m, j)[1] = [req |-> m, part |-> 1] /\ Packet(n, k)[1] = [req |-> n, part |-> 1]
  BY PacketParts
<1>2. QED
  BY <1>1

LEMMA RequestSizeType == ASSUME NEW n PROVE RequestSize(n) \in Nat \ {0}
BY UnitsAssumption DEF RequestSize

LEMMA CallLedger ==
    ASSUME TypeOK, TypeOK', Exchange, Ledger, NEW command \in Command, Call(command)
    PROVE  Ledger'
<1>1. PICK x \in Stream : x = stream'
  BY Asked
<1>2. PICK m \in 0 .. MaxRequests : m = Last'
  BY Asked
<1>3. /\ Last \in Nat /\ m = Last + 1
      /\ toServer'[x] = Packet(m, RequestSize(m)') /\ toServer[x] = <<>>
      /\ \A s \in Stream \ {x} : toServer'[s] = toServer[s]
      /\ toClient'[x] = <<>> /\ Resting(x)'
  <2>1. Packet(Last, RequestSize(Last))' = Packet(m, RequestSize(m)')
    BY <1>2 DEF Packet, RequestSize
  <2>2. Resting(stream)' = Resting(x)'
    BY <1>1 DEF Resting
  <2>3. QED
    BY <1>1, <1>2, <2>1, <2>2, Asked
<1>4. acted' = acted /\ taken' = taken /\ Executed' = Executed
  BY DEF Call, Executed
<1>5. \A n \in 1 .. Last : RequestSize(n)' = RequestSize(n)
  BY Asked DEF RequestSize
<1>6. \A s \in Stream \ {x} : \A n \in 1 .. Last : Carries(s, n)' <=> Carries(s, n)
  BY <1>3, <1>5 DEF Carries
<1>7. Carries(x, m)'
  BY <1>3 DEF Carries
<1>8. m \notin Executed
  BY <1>3 DEF Ledger, Executed
<1>9. \A n \in 0 .. MaxRequests : Carries(x, n)' => n = m
  <2>1. SUFFICES ASSUME NEW n \in 0 .. MaxRequests, Carries(x, n)'
                 PROVE  n = m
    OBVIOUS
  <2>2. Packet(n, RequestSize(n)') = Packet(m, RequestSize(m)')
    BY <1>7, <2>1 DEF Carries
  <2>3. RequestSize(n)' \in Nat \ {0} /\ RequestSize(m)' \in Nat \ {0}
    BY UnitsAssumption DEF RequestSize
  <2>4. QED
    BY <2>2, <2>3, RequestsDiffer
<1>10. \A s \in Stream \ {x} : ~Carries(s, m)'
  <2>1. SUFFICES ASSUME NEW s \in Stream \ {x}, Carries(s, m)'
                 PROVE  FALSE
    OBVIOUS
  <2>2. toServer[s] = Packet(m, RequestSize(m)')
    BY <1>3, <2>1 DEF Carries
  <2>3. RequestSize(m)' \in Nat \ {0}
    BY UnitsAssumption DEF RequestSize
  <2>4. toServer[s] # <<>>
    BY <2>2, <2>3, PacketParts
  <2>5. PICK n \in 1 .. Last : Carries(s, n)
    BY <2>4 DEF Ledger
  <2>6. n \in 0 .. MaxRequests /\ n # m
    BY <1>3, BoundsAssumption
  <2>7. Packet(n, RequestSize(n)) = Packet(m, RequestSize(m)')
    BY <2>2, <2>5 DEF Carries
  <2>8. QED
    BY <2>3, <2>6, <2>7, RequestSizeType, RequestsDiffer
<1>11. (1 .. Last)' = (1 .. Last) \cup {m}
  BY <1>2, <1>3
<1>12. \A s \in Stream : toServer'[s] # <<>> =>
         \E n \in (1 .. Last)' : n \notin Executed' /\ Carries(s, n)'
  <2>1. SUFFICES ASSUME NEW s \in Stream, toServer'[s] # <<>>
                 PROVE  \E n \in (1 .. Last)' : n \notin Executed' /\ Carries(s, n)'
    OBVIOUS
  <2>2. CASE s = x
    BY <1>4, <1>7, <1>8, <1>11, <2>2
  <2>3. CASE s # x
    <3>1. PICK n \in 1 .. Last : n \notin Executed /\ Carries(s, n)
      BY <1>3, <2>1, <2>3 DEF Ledger
    <3>2. QED
      BY <1>4, <1>6, <1>11, <2>3, <3>1
  <2>4. QED
    BY <2>2, <2>3
<1>13. \A r, s \in Stream : \A n \in (1 .. Last)' : Carries(r, n)' /\ Carries(s, n)' => r = s
  <2>1. SUFFICES ASSUME NEW r \in Stream, NEW s \in Stream, NEW n \in (1 .. Last) \cup {m},
                        Carries(r, n)', Carries(s, n)', r # s
                 PROVE  FALSE
    BY <1>11
  <2>2. CASE n = m
    BY <1>10, <2>1, <2>2
  <2>3. CASE n # m
    <3>1. n \in 1 .. Last /\ n \in 0 .. MaxRequests
      BY <1>3, <2>1, <2>3, BoundsAssumption
    <3>2. r # x /\ s # x
      BY <1>9, <2>1, <2>3, <3>1
    <3>3. Carries(r, n) /\ Carries(s, n)
      BY <1>6, <2>1, <3>1, <3>2
    <3>4. QED
      BY <2>1, <3>1, <3>3 DEF Ledger
  <2>4. QED
    BY <2>2, <2>3
<1>14. \A a \in acted' : a.req \in (1 .. Last)' /\ a.units = RequestSize(a.req)'
  <2>1. SUFFICES ASSUME NEW a \in acted
                 PROVE  a.req \in (1 .. Last)' /\ a.units = RequestSize(a.req)'
    BY <1>4
  <2>2. a.req \in 1 .. Last /\ a.units = RequestSize(a.req)
    BY DEF Ledger
  <2>3. QED
    BY <1>5, <1>11, <2>2
<1>15. ~(session'[stream'].io = "OP_READ" \/ toClient'[stream'] # <<>>)
  BY <1>1, <1>3 DEF Resting
<1>16. CountsWhatCame'
  BY <1>4 DEF Ledger, CountsWhatCame
<1>17. QED
  BY <1>12, <1>13, <1>14, <1>15, <1>16 DEF Ledger

(* The request that is taken is executed.                                  *)
LEMMA Executes ==
    ASSUME Whole, TypeOK, Exchange, Ledger, NEW s \in Stream, NEW k \in 1 .. RequestUnits,
           ReceiveCommand(s, k)
    PROVE  \E n \in 1 .. Last :
             /\ n \notin Executed /\ Carries(s, n)
             /\ acted' = acted \cup {[req |-> n, units |-> RequestSize(n)]}
             /\ Executed' = Executed \cup {n}
             /\ toServer' = [toServer EXCEPT ![s] = <<>>]
<1>1. k = Len(toServer[s]) /\ toServer[s] # <<>>
  BY DEF ReceiveCommand, Whole
<1>2. PICK n \in 1 .. Last : n \notin Executed /\ Carries(s, n)
  BY <1>1 DEF Ledger
<1>3. n \in 0 .. MaxRequests /\ RequestSize(n) \in Nat \ {0}
  BY BoundsAssumption, RequestSizeType DEF TypeOK, Last
<1>4. /\ k = RequestSize(n) /\ toServer[s][1] = [req |-> n, part |-> 1]
      /\ After(toServer[s], k) = <<>>
  BY <1>1, <1>2, <1>3, PacketParts DEF Carries
<1>5. acted' = acted \cup {[req |-> n, units |-> RequestSize(n)]}
  BY <1>4 DEF ReceiveCommand
<1>6. Executed' = Executed \cup {n}
  <2> DEFINE new == [req |-> n, units |-> RequestSize(n)]
  <2>1. new.req = n /\ acted' = acted \cup {new}
    BY <1>5
  <2> HIDE DEF new
  <2>2. {a.req : a \in acted \cup {new}} = {a.req : a \in acted} \cup {new.req}
    OBVIOUS
  <2>3. QED
    BY <2>1, <2>2 DEF Executed
<1>7. toServer' = [toServer EXCEPT ![s] = <<>>]
  BY <1>4 DEF ReceiveCommand
<1>8. QED
  BY <1>2, <1>5, <1>6, <1>7

LEMMA ExecuteLedger ==
    ASSUME Whole, TypeOK, Exchange, Ledger, NEW s \in Stream, NEW k \in 1 .. RequestUnits,
           ReceiveCommand(s, k)
    PROVE  Ledger'
<1>1. PICK n \in 1 .. Last :
         /\ n \notin Executed /\ Carries(s, n)
         /\ acted' = acted \cup {[req |-> n, units |-> RequestSize(n)]}
         /\ Executed' = Executed \cup {n}
         /\ toServer' = [toServer EXCEPT ![s] = <<>>]
  BY Executes
<1>2. /\ asked' = asked /\ taken' = taken /\ waiting' = waiting /\ stream' = stream
      /\ toClient' = toClient /\ Last' = Last
      /\ \A r \in Stream \ {s} : session'[r] = session[r]
  BY DEF ReceiveCommand, clientVars, Last, TypeOK
<1>3. \A m \in 1 .. Last : RequestSize(m)' = RequestSize(m)
  BY <1>2 DEF RequestSize
<1>4. \A m \in 1 .. Last : m \in 0 .. MaxRequests
  BY BoundsAssumption DEF TypeOK, Last
<1>5. toServer'[s] = <<>> /\ \A r \in Stream \ {s} : toServer'[r] = toServer[r]
  BY <1>1 DEF TypeOK
<1>6. \A r \in Stream, m \in 1 .. Last : Carries(r, m)' => r # s /\ Carries(r, m)
  <2>1. SUFFICES ASSUME NEW r \in Stream, NEW m \in 1 .. Last, Carries(r, m)'
                 PROVE  r # s /\ Carries(r, m)
    OBVIOUS
  <2>2. toServer'[r] = Packet(m, RequestSize(m))
    BY <1>3, <2>1 DEF Carries
  <2>3. toServer'[r] # <<>>
    BY <1>4, <2>2, RequestSizeType, PacketParts
  <2>4. QED
    BY <1>5, <2>2, <2>3 DEF Carries
<1>7. \A r \in Stream \ {s} : toServer'[r] # <<>> =>
         \E m \in 1 .. Last : m \notin Executed' /\ Carries(r, m)'
  <2>1. SUFFICES ASSUME NEW r \in Stream \ {s}, toServer'[r] # <<>>
                 PROVE  \E m \in 1 .. Last : m \notin Executed' /\ Carries(r, m)'
    OBVIOUS
  <2>2. PICK m \in 1 .. Last : m \notin Executed /\ Carries(r, m)
    BY <1>5, <2>1 DEF Ledger
  <2>3. m # n
    BY <1>1, <2>2 DEF Ledger
  <2>4. Carries(r, m)'
    BY <1>3, <1>5, <2>2 DEF Carries
  <2>5. QED
    BY <1>1, <2>2, <2>3, <2>4
<1>8. \A q, r \in Stream : \A m \in 1 .. Last : Carries(q, m)' /\ Carries(r, m)' => q = r
  BY <1>6 DEF Ledger
<1>9. \A a \in acted' : a.req \in 1 .. Last /\ a.units = RequestSize(a.req)'
  <2>1. SUFFICES ASSUME NEW a \in acted'
                 PROVE  a.req \in 1 .. Last /\ a.units = RequestSize(a.req)'
    OBVIOUS
  <2>2. a.req \in 1 .. Last /\ a.units = RequestSize(a.req)
    <3>1. CASE a \in acted
      BY <3>1 DEF Ledger
    <3>2. CASE a = [req |-> n, units |-> RequestSize(n)]
      BY <3>2
    <3>3. QED
      BY <1>1, <3>1, <3>2
  <2>3. QED
    BY <1>3, <2>2
<1>10. ASSUME stream # 0, waiting,
              session'[stream].io = "OP_READ" \/ toClient[stream] # <<>>
       PROVE  Last \in Executed'
  <2>1. CASE stream # s
    <3>1. stream \in Stream \ {s}
      BY <1>10, <2>1 DEF TypeOK
    <3>2. QED
      BY <1>1, <1>2, <1>10, <3>1 DEF Ledger
  <2>2. CASE stream = s
    <3>1. toServer[s] # <<>>
      BY DEF ReceiveCommand
    <3>2. toServer[s] = Packet(Last, RequestSize(Last))
      BY <1>10, <2>2, <3>1 DEF Exchange, UnderWay
    <3>3. Last \in 1 .. Last
      BY <1>10, BoundsAssumption DEF Exchange, TypeOK, Last
    <3>4. n = Last
      <4>1. Packet(n, RequestSize(n)) = Packet(Last, RequestSize(Last))
        BY <1>1, <3>2 DEF Carries
      <4>2. QED
        BY <1>4, <3>3, <4>1, RequestSizeType, RequestsDiffer
    <3>5. QED
      BY <1>1, <3>4
  <2>3. QED
    BY <2>1, <2>2
<1>11. CountsWhatCame'
  BY <1>2 DEF Ledger, CountsWhatCame
<1>12. QED
  BY <1>2, <1>5, <1>7, <1>8, <1>9, <1>10, <1>11 DEF Ledger

(* Any other step executes nothing and puts no request on the way.         *)
LEMMA LedgerKept ==
    ASSUME Ledger, UNCHANGED <<asked, toServer, acted>>, CountsWhatCame',
           stream' # 0 /\ waiting' =>
             /\ stream # 0 /\ waiting /\ stream' = stream
             /\ session'[stream].io = "OP_READ" \/ toClient'[stream] # <<>> =>
                  session[stream].io = "OP_READ" \/ toClient[stream] # <<>>
    PROVE  Ledger'
<1>1. Last' = Last /\ Executed' = Executed /\ toServer' = toServer /\ acted' = acted
  BY DEF Last, Executed
<1>2. \A n : RequestSize(n)' = RequestSize(n)
  BY DEF RequestSize
<1>3. \A s, n : Carries(s, n)' <=> Carries(s, n)
  BY <1>1, <1>2 DEF Carries
<1>4. stream' # 0 /\ waiting' =>
        (session'[stream'].io = "OP_READ" \/ toClient'[stream'] # <<>> => Last \in Executed)
  BY DEF Ledger
<1>5. QED
  BY <1>1, <1>2, <1>3, <1>4 DEF Ledger

LEMMA LedgerStep ==
    ASSUME Whole, TypeOK, TypeOK', Exchange, Ledger, [Next]_vars
    PROVE  Ledger'
<1>1. taken' = taken => CountsWhatCame'
  BY DEF Ledger, CountsWhatCame
<1>2. ASSUME NEW command \in Command, Call(command)
      PROVE  Ledger'
  BY <1>2, CallLedger
<1>3. CASE SendFails \/ NoAnswer
  BY <1>1, <1>3, LedgerKept DEF SendFails, NoAnswer
<1>4. ASSUME NEW k \in 1 .. ReplyUnits, Recieve(k)
      PROVE  Ledger'
  <2>1. CountsWhatCame'
    BY <1>4, AnswerTaken DEF CountsWhatCame
  <2>2. QED
    BY <1>4, <2>1, LedgerKept DEF Recieve
<1>5. ASSUME NEW s \in Stream, Lose(s)
      PROVE  Ledger'
  <2>1. session'[s].io = "removed" /\ \A r \in Stream \ {s} : session'[r] = session[r]
    BY <1>5 DEF Lose, Context, TypeOK
  <2>2. \A r \in Stream : session'[r].io = "OP_READ" => session[r].io = "OP_READ"
    BY <2>1
  <2>3. UNCHANGED <<clientVars, toServer, toClient, acted, taken>>
    BY <1>5 DEF Lose
  <2>4. stream # 0 => stream \in Stream
    BY DEF TypeOK
  <2>5. QED
    BY <1>1, <2>2, <2>3, <2>4, LedgerKept DEF clientVars
<1>6. ASSUME NEW s \in Stream, NEW k \in 1 .. RequestUnits,
             ReceiveCommand(s, k) \/ ReceiveNonsense(s, k)
      PROVE  Ledger'
  BY <1>6, ExecuteLedger DEF ReceiveNonsense, Whole
<1>7. ASSUME NEW s \in Stream, NEW k \in 1 .. ReplyUnits, SendCompletes(s, k)
      PROVE  Ledger'
  <2>1. session[s].io = "OP_READ"
    BY <1>7 DEF SendCompletes
  <2>2. \A r \in Stream \ {s} : session'[r] = session[r] /\ toClient'[r] = toClient[r]
    BY <1>7 DEF SendCompletes, TypeOK
  <2>3. UNCHANGED <<clientVars, toServer, acted, taken>>
    BY <1>7 DEF SendCompletes
  <2>4. stream # 0 => stream \in Stream
    BY DEF TypeOK
  <2>5. QED
    BY <1>1, <2>1, <2>2, <2>3, <2>4, LedgerKept DEF clientVars
<1>8. CASE UNCHANGED vars
  BY <1>1, <1>8, LedgerKept DEF vars, clientVars
<1>9. QED
  BY <1>2, <1>3, <1>4, <1>5, <1>6, <1>7, <1>8 DEF Next

LEMMA LedgerAlways == ASSUME Whole PROVE Spec => [](TypeOK /\ Exchange /\ Ledger)
<1>1. TypeOK /\ TypeOK' /\ Exchange /\ [Next]_vars => Exchange'
  BY ExchangeStep
<1>2. TypeOK /\ TypeOK' /\ Exchange /\ Ledger /\ [Next]_vars => Ledger'
  BY LedgerStep
<1>3. QED
  BY <1>1, <1>2, InitExchange, InitLedger, TypeCorrect, PTL DEF Spec

(* A step of the two programs is a step of RemoteCall, or none.            *)
LEMMA RefinementStep ==
    ASSUME Whole, TypeOK, Exchange, Ledger, [Next]_vars
    PROVE  [Calls!CallNext]_(Calls!callVars)
<1>1. ASSUME UNCHANGED <<asked, waiting, acted, taken>>
      PROVE  UNCHANGED Calls!callVars
  BY <1>1 DEF Calls!callVars
<1>2. ASSUME NEW command \in Command, Call(command)
      PROVE  Calls!CallNext
  <2>1. Len(asked') = Len(asked) + 1
    BY <1>2 DEF Call, TypeOK
  <2>2. Calls!Ask
    BY <1>2, <2>1 DEF Call, Calls!Ask
  <2>3. QED
    BY <2>2 DEF Calls!CallNext
<1>3. CASE SendFails
  BY <1>1, <1>3 DEF SendFails
<1>4. CASE NoAnswer
  BY <1>4 DEF NoAnswer, Calls!GiveUp, Calls!CallNext
<1>5. ASSUME NEW k \in 1 .. ReplyUnits, Recieve(k)
      PROVE  Calls!CallNext
  <2>1. Last \in Executed
    <3>1. toClient[stream] # <<>> /\ stream # 0 /\ waiting
      BY <1>5, AnswerTaken DEF Recieve
    <3>2. QED
      BY <3>1 DEF Ledger
  <2>2. taken'.req = Last
    BY <1>5, AnswerTaken
  <2>3. Calls!TakeAnswer
    BY <1>5, <2>1, <2>2 DEF Recieve, Calls!TakeAnswer, Last, Executed
  <2>4. QED
    BY <2>3 DEF Calls!CallNext
<1>6. ASSUME NEW s \in Stream, Lose(s)
      PROVE  UNCHANGED Calls!callVars
  BY <1>1, <1>6 DEF Lose, clientVars
<1>7. ASSUME NEW s \in Stream, NEW k \in 1 .. RequestUnits,
             ReceiveCommand(s, k) \/ ReceiveNonsense(s, k)
      PROVE  Calls!CallNext
  <2>1. ReceiveCommand(s, k)
    BY <1>7 DEF ReceiveNonsense, Whole
  <2>2. PICK n \in 1 .. Last : n \notin Executed /\ Executed' = Executed \cup {n}
    BY <2>1, Executes
  <2>3. UNCHANGED <<asked, waiting, taken>>
    BY <2>1 DEF ReceiveCommand, clientVars
  <2>4. Calls!Execute(n)
    BY <2>2, <2>3 DEF Calls!Execute, Last, Executed
  <2>5. QED
    BY <2>2, <2>4 DEF Calls!CallNext, Last
<1>8. ASSUME NEW s \in Stream, NEW k \in 1 .. ReplyUnits, SendCompletes(s, k)
      PROVE  UNCHANGED Calls!callVars
  BY <1>1, <1>8 DEF SendCompletes, clientVars
<1>9. CASE UNCHANGED vars
  BY <1>1, <1>9 DEF vars, clientVars
<1>10. QED
  BY <1>2, <1>3, <1>4, <1>5, <1>6, <1>7, <1>8, <1>9 DEF Next

(* As long as packets are not cut, a call is executed at most once however *)
(* many time out, and an answer ends the call it belongs to, after its     *)
(* execution.                                                              *)
THEOREM ImplementsCalls ==
    ASSUME Whole
    PROVE  Spec => CallRefinement
<1>1. Init => Calls!CallInit
  <2>1. Len(<<>>) = 0
    OBVIOUS
  <2>2. QED
    BY <2>1 DEF Init, Calls!CallInit
<1>2. TypeOK /\ Exchange /\ Ledger /\ [Next]_vars => [Calls!CallNext]_(Calls!callVars)
  BY RefinementStep
<1>3. QED
  BY <1>1, <1>2, LedgerAlways, PTL DEF Spec, CallRefinement, Calls!CallSpec
=============================================================================
